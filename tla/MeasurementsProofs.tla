------------------------- MODULE MeasurementsProofs -------------------------
(***************************************************************************)
(* What conditions are evaluated against: rates that are recent,           *)
(* forecasts of the time that was asked for, and samples that a page       *)
(* really showed, for any askers, queries, places, pages and times to      *)
(* live.                                                                   *)
(***************************************************************************)
EXTENDS Rates, Weather, Prices, FiniteSetTheorems, WellFoundedInduction, TLAPS

-----------------------------------------------------------------------------
(***************************************************************************)
(* Of natural numbers there is a least one, and induction follows.         *)
(***************************************************************************)
LEMMA Least ==
  ASSUME NEW S \in SUBSET Nat, S # {}
  PROVE  \E n \in S : \A m \in S : n <= m
<1> DEFINE R == {ss \in Nat \X Nat : ss[1] < ss[2]}
<1>1. IsWellFoundedOn(R, Nat)
  BY NatLessThanWellFounded DEF OpToRel
<1> HIDE DEF R
<1>2. PICK n \in S : \A m \in S : ~ (<<m, n>> \in R)
  BY <1>1, WFMin
<1>3. ASSUME NEW m \in S PROVE ~(m < n)
  <2>1. <<m, n>> \notin R
    BY <1>2
  <2> QED
    BY <2>1 DEF R
<1> QED
  BY <1>3

LEMMA NatInd ==
  ASSUME NEW S, 0 \in S, \A n \in Nat : n \in S => n + 1 \in S
  PROVE  Nat \subseteq S
<1> SUFFICES ASSUME Nat \ S # {} PROVE FALSE
  OBVIOUS
<1>1. PICK n \in Nat \ S : \A m \in Nat \ S : n <= m
  BY Least
<1>2. n # 0 /\ n - 1 \in Nat /\ n - 1 \in S
  BY <1>1
<1> QED
  BY <1>2

-----------------------------------------------------------------------------
(***************************************************************************)
(* Rates: what is kept expires a time to live after the request that it    *)
(* came with, whichever of two requests for a pair was answered first.     *)
(***************************************************************************)
RateAnswers == [asOf : Nat, expiresAt : Nat]
RateRequests == [query : Queries, since : Nat]

RatesTyped ==
  /\ moment \in Nat
  /\ cache \in [Queries -> {NoRate} \cup RateAnswers]
  /\ asking \in [Askers -> {NoRate} \cup RateRequests]

\* Only what there is a source for is asked for (Sample).
AsksAreSupported ==
  \A a \in Askers : asking[a] # NoRate => supported(asking[a].query) /\ asking[a].since <= moment

\* An answer expires a time to live after its request was over at the latest
\* (storeCached).
AnswersExpire ==
  \A q \in Queries : cache[q] # NoRate =>
    /\ supported(q) /\ cache[q].asOf <= moment
    /\ cache[q].expiresAt <= cache[q].asOf + RequestTimeout + TTL(q)

RatesInv == RatesTyped /\ AsksAreSupported /\ AnswersExpire /\ RateIsRecent

-----------------------------------------------------------------------------
LEMMA Durations ==
  /\ RequestTimeout \in Nat /\ fiatCacheTTL \in Nat /\ cryptoCacheTTL \in Nat
  /\ \A q \in Queries : TTL(q) \in Nat /\ TTL(q) > 0
BY RatesAssumption DEF TTL

LEMMA RatesStart == RatesInit => RatesInv
BY RatesAssumption
   DEF RatesInit, RatesInv, RatesTyped, AsksAreSupported, AnswersExpire, RateIsRecent

LEMMA RatesStep == RatesInv /\ [RatesNext]_rateVars => RatesInv'
<1> SUFFICES ASSUME RatesInv, [RatesNext]_rateVars
             PROVE  RatesInv'
  OBVIOUS
<1> USE Durations DEF RatesInv
<1>1. CASE Cached
  <2>1. PICK q \in Queries : kept(q) /\ sampled' = [query |-> q, asOf |-> cache[q].asOf, at |-> moment]
    BY <1>1 DEF Cached
  <2>2. UNCHANGED <<moment, cache, asking>>
    BY <1>1 DEF Cached
  <2>3. cache[q] \in RateAnswers /\ moment \in Nat /\ TTL(q) \in Nat
    BY <2>1 DEF kept, RatesTyped
  <2>4. supported(q) /\ moment - cache[q].asOf < TTL(q) + RequestTimeout
    BY <2>1, <2>3 DEF kept, AnswersExpire, RateAnswers
  <2>5. RateIsRecent'
    BY <2>1, <2>4 DEF RateIsRecent, TTL, supported
  <2> QED
    BY <2>2, <2>5 DEF RatesTyped, AsksAreSupported, AnswersExpire
<1>2. CASE Ask
  <2>1. PICK a \in Askers, q \in Queries :
               /\ cache' = [cache EXCEPT ![q] = NoRate]
               /\ IF supported(q)
                  THEN asking' = [asking EXCEPT ![a] = [query |-> q, since |-> moment]] /\ UNCHANGED sampled
                  ELSE sampled' = [error |-> TRUE] /\ UNCHANGED asking
    BY <1>2 DEF Ask
  <2>2. moment' = moment
    BY <1>2 DEF Ask
  <2>3. cache' \in [Queries -> {NoRate} \cup RateAnswers] /\ AnswersExpire'
    BY <2>1, <2>2 DEF RatesTyped, AnswersExpire
  <2>4. CASE supported(q)
    <3>1. asking' = [asking EXCEPT ![a] = [query |-> q, since |-> moment]] /\ sampled' = sampled
      BY <2>1, <2>4
    <3>2. asking' \in [Askers -> {NoRate} \cup RateRequests]
      BY <3>1 DEF RatesTyped, RateRequests
    <3>3. AsksAreSupported'
      BY <2>2, <2>4, <3>1 DEF AsksAreSupported, RatesTyped
    <3> QED
      BY <2>2, <2>3, <3>1, <3>2, <3>3 DEF RatesTyped, RateIsRecent
  <2>5. CASE ~supported(q)
    <3>1. sampled' = [error |-> TRUE] /\ asking' = asking
      BY <2>1, <2>5
    <3> QED
      BY <2>2, <2>3, <3>1 DEF RatesTyped, AsksAreSupported, RateIsRecent
  <2> QED
    BY <2>4, <2>5
<1>3. CASE Reply
  <2>1. PICK a \in Askers :
               /\ asking[a] # NoRate /\ moment <= asking[a].since + RequestTimeout
               /\ \E asOf \in asking[a].since..moment :
                    /\ storeCached(asking[a].query, asOf)
                    /\ sampled' = [query |-> asking[a].query, asOf |-> asOf, at |-> moment]
               /\ asking' = [asking EXCEPT ![a] = NoRate]
    BY <1>3 DEF Reply
  <2>2. moment' = moment /\ moment \in Nat
    BY <1>3 DEF Reply, RatesTyped
  <2>3. asking[a] \in RateRequests /\ supported(asking[a].query)
    BY <2>1 DEF RatesTyped, AsksAreSupported
  <2>4. PICK asOf \in asking[a].since..moment :
               /\ storeCached(asking[a].query, asOf)
               /\ sampled' = [query |-> asking[a].query, asOf |-> asOf, at |-> moment]
    BY <2>1
  <2>5. PICK q \in Queries : q = asking[a].query
    BY <2>3 DEF RateRequests
  <2>6. asOf \in Nat /\ asOf <= moment /\ moment <= asOf + RequestTimeout /\ TTL(q) \in Nat /\ TTL(q) > 0
    BY <2>1, <2>2, <2>3, <2>4, <2>5 DEF RateRequests
  <2>7. /\ cache' = [cache EXCEPT ![q] = [asOf |-> asOf, expiresAt |-> moment + TTL(q)]]
        /\ sampled' = [query |-> q, asOf |-> asOf, at |-> moment]
        /\ supported(q)
    BY <2>3, <2>4, <2>5 DEF storeCached
  <2>8. cache' \in [Queries -> {NoRate} \cup RateAnswers]
    BY <2>2, <2>6, <2>7 DEF RatesTyped, RateAnswers
  <2>9. AnswersExpire'
    <3>1. SUFFICES ASSUME NEW p \in Queries, cache'[p] # NoRate
                   PROVE  /\ supported(p) /\ cache'[p].asOf <= moment
                          /\ cache'[p].expiresAt <= cache'[p].asOf + RequestTimeout + TTL(p)
      BY <2>2 DEF AnswersExpire, supported, TTL
    <3>2. CASE p = q
      <4>1. cache'[p] = [asOf |-> asOf, expiresAt |-> moment + TTL(q)]
        BY <2>7, <3>2 DEF RatesTyped
      <4> QED
        BY <2>2, <2>6, <2>7, <3>2, <4>1
    <3>3. CASE p # q
      BY <2>7, <3>1, <3>3 DEF RatesTyped, AnswersExpire
    <3> QED
      BY <3>2, <3>3
  <2>10. asking' \in [Askers -> {NoRate} \cup RateRequests] /\ AsksAreSupported'
    BY <2>1, <2>2 DEF RatesTyped, AsksAreSupported
  <2>11. RateIsRecent'
    BY <2>2, <2>6, <2>7 DEF RateIsRecent, supported, TTL
  <2> QED
    BY <2>2, <2>8, <2>9, <2>10, <2>11 DEF RatesTyped
<1>4. CASE ReplyFails
  BY <1>4 DEF ReplyFails, RatesTyped, AsksAreSupported, AnswersExpire, RateIsRecent
<1>5. CASE RatesPass
  <2>1. moment' = moment + 1 /\ UNCHANGED <<cache, asking, sampled>> /\ moment \in Nat
    BY <1>5 DEF RatesPass, RatesTyped
  <2>2. \A a \in Askers : asking[a] # NoRate => asking[a].since \in Nat
    BY DEF RatesTyped, RateRequests
  <2>3. \A q \in Queries : cache[q] # NoRate => cache[q].asOf \in Nat
    BY DEF RatesTyped, RateAnswers
  <2>4. AsksAreSupported'
    BY <2>1, <2>2 DEF AsksAreSupported
  <2>5. AnswersExpire'
    BY <2>1, <2>3 DEF AnswersExpire
  <2> QED
    BY <2>1, <2>4, <2>5 DEF RatesTyped, RateIsRecent
<1>6. CASE UNCHANGED rateVars
  BY <1>6 DEF rateVars, RatesTyped, AsksAreSupported, AnswersExpire, RateIsRecent
<1> QED
  BY <1>1, <1>2, <1>3, <1>4, <1>5, <1>6 DEF RatesNext

\* The inductive invariant of the exchange-rate provider (Sample).
THEOREM RatesAreSafe == RatesSpec => []RatesInv
BY RatesStart, RatesStep, PTL DEF RatesSpec

\* However many askers share the cache, and in whatever order their requests
\* are answered, no threshold is judged by a rate older than its time to live
\* and a request (cached and storeCached).
THEOREM RatesAreRecent == RatesSpec => []RateIsRecent
<1>1. RatesInv => RateIsRecent
  BY DEF RatesInv
<1> QED
  BY <1>1, RatesAreSafe, PTL

\* No time passes beyond the horizon, and what is asked or kept is not of the future.
THEOREM RatesAreTyped == RatesSpec => []RatesTypeOK
<1>1. RatesInit => moment <= MaxMoment
  BY RatesAssumption DEF RatesInit
<1>2. RatesInv /\ moment <= MaxMoment /\ [RatesNext]_rateVars => (moment <= MaxMoment)'
  <2>1. SUFFICES ASSUME RatesInv, moment <= MaxMoment, [RatesNext]_rateVars PROVE (moment <= MaxMoment)'
    OBVIOUS
  <2>2. moment' = moment \/ (moment < MaxMoment /\ moment' = moment + 1)
    BY <2>1 DEF RatesNext, Cached, Ask, Reply, ReplyFails, RatesPass, rateVars
  <2>3. moment \in Nat /\ MaxMoment \in Nat
    BY <2>1, RatesAssumption DEF RatesInv, RatesTyped
  <2> QED
    BY <2>1, <2>2, <2>3
<1>3. RatesInv /\ moment <= MaxMoment => RatesTypeOK
  <2>1. SUFFICES ASSUME RatesInv, moment <= MaxMoment PROVE RatesTypeOK
    OBVIOUS
  <2>2. moment \in 0..MaxMoment
    BY <2>1, RatesAssumption DEF RatesInv, RatesTyped
  <2>3. \A a \in Askers : asking[a] # NoRate => asking[a].query \in Queries /\ asking[a].since <= moment
    BY <2>1 DEF RatesInv, RatesTyped, RateRequests, AsksAreSupported
  <2>4. \A q \in Queries : cache[q] # NoRate => cache[q].asOf <= moment
    BY <2>1 DEF RatesInv, AnswersExpire
  <2> QED
    BY <2>2, <2>3, <2>4 DEF RatesTypeOK
<1> QED
  BY <1>1, <1>2, <1>3, RatesStart, RatesStep, PTL DEF RatesSpec

-----------------------------------------------------------------------------
(***************************************************************************)
(* Weather: the days a forecast is asked for, and what is said of them.    *)
(***************************************************************************)
\* What targetDate and forecastDays make of a query at a given time.
TargetAt(q, t) ==
  CASE q.day = "today" -> dayOf(t)
    [] q.day = "tomorrow" -> dayOf(t) + 1
    [] q.day = "next_night" -> IF hourOf(t) >= NightEnds THEN dayOf(t) + 1 ELSE dayOf(t)
    [] q.day = "date" -> q.date
HoursAt(q, t) == Passes(dayOf(t), TargetAt(q, t))
DaysAt(q, t) == Min({MaxForecastDays, Max({1, HoursAt(q, t) \div DayHours + 1})})

\* What a request knows it read from the clock at times in this order, while it ran.
AskedAt(r, t) == r.days = DaysAt(r.query, t)
Replied(r, t, u) == AskedAt(r, t) /\ t <= u /\ r.from = dayOf(u)
Chosen(r, t, u, v) == Replied(r, t, u) /\ u <= v /\ r.day = TargetAt(r.query, v)

WeatherRequests ==
  [query : WeatherQueries, step : Stages, since : Nat, days : Int, from : Int, day : Int]
WeatherRequestInv ==
  request # None =>
    /\ request \in WeatherRequests /\ request.since <= time /\ time <= request.since + 1
    /\ request.step = "reply" => \E t \in request.since..time : AskedAt(request, t)
    /\ request.step = "day" => \E t, u \in request.since..time : Replied(request, t, u)
    /\ request.step = "value" => \E t, u, v \in request.since..time : Chosen(request, t, u, v)

WeatherTyped ==
  /\ time \in 0..MaxHalfHour
  /\ IsFiniteSet(locations) /\ locations \subseteq Places /\ Cardinality(locations) <= maxCachedLocations

WeatherInv == WeatherTyped /\ WeatherRequestInv /\ ForecastFits

-----------------------------------------------------------------------------
LEMMA WeatherConstants ==
  /\ DayHours \in Nat /\ DayHours > 0 /\ NightEnds \in Nat /\ NightEnds > 0 /\ NightEnds <= DayHours
  /\ maxCachedLocations \in Nat /\ maxCachedLocations > 0
  /\ MaxForecastDays \in Nat /\ MaxForecastDays > 1 /\ MaxHalfHour \in Nat
<1>1. /\ DayHours \in Nat /\ NightEnds \in 1..DayHours
      /\ maxCachedLocations \in Nat \ {0} /\ MaxForecastDays \in Nat \ {0, 1} /\ MaxHalfHour \in Nat
  BY WeatherAssumption, Zenon
<1> QED
  BY <1>1

LEMMA TimesMore ==
  ASSUME NEW n \in Nat, NEW a \in Int, NEW b \in Int, a <= b
  PROVE  n * a <= n * b
OBVIOUS

\* A time lies in one half of one hour of one day.
LEMMA TimeOfDay ==
  ASSUME NEW t \in Nat
  PROVE  /\ dayOf(t) \in Nat /\ hourOf(t) \in 0..DayHours - 1
         /\ FullHour(dayOf(t), hourOf(t)) <= t /\ t <= FullHour(dayOf(t), hourOf(t)) + 1
<1>1. PICK n \in Nat : n = 2 * DayHours /\ n > 0
  BY WeatherConstants
<1>2. PICK d \in Int, r \in Int : d = t \div n /\ r = t % n /\ t = n * d + r /\ 0 <= r /\ r < n
  BY <1>1
<1>3. d >= 0
  <2>1. SUFFICES ASSUME d <= -1 PROVE FALSE
    BY <1>2
  <2>2. n * d <= n * (-1)
    BY <1>2, <2>1, TimesMore
  <2> QED
    BY <1>1, <1>2, <2>2
<1>4. dayOf(t) = d /\ hourOf(t) = r \div 2
  BY <1>1, <1>2 DEF dayOf, hourOf
<1>5. r \div 2 \in 0..DayHours - 1 /\ 2 * (r \div 2) <= r /\ r <= 2 * (r \div 2) + 1
  BY <1>1, <1>2, WeatherConstants
<1>6. FullHour(d, r \div 2) = n * d + 2 * (r \div 2)
  BY <1>1, <1>2, WeatherConstants DEF FullHour
<1> HIDE DEF FullHour
<1>7. FullHour(d, r \div 2) <= t /\ t <= FullHour(d, r \div 2) + 1
  BY <1>2, <1>5, <1>6
<1> QED
  BY <1>2, <1>3, <1>4, <1>5, <1>7

\* Days come one after another.
LEMMA DayAfterDay ==
  ASSUME NEW d \in Int, NEW e \in Int, d < e, NEW h \in 0..DayHours - 1, NEW k \in 0..DayHours - 1
  PROVE  FullHour(d, h) + 2 <= FullHour(e, k)
<1>1. DayHours * (d + 1) <= DayHours * e
  BY WeatherConstants
<1>2. DayHours * (d + 1) = d * DayHours + DayHours /\ DayHours * e = e * DayHours
  BY WeatherConstants
<1>3. d * DayHours \in Int /\ e * DayHours \in Int
  BY WeatherConstants
<1> QED
  BY <1>1, <1>2, <1>3, WeatherConstants DEF FullHour

LEMMA HourAfterHour ==
  ASSUME NEW d \in Int, NEW h \in Int, NEW k \in Int
  PROVE  /\ FullHour(d, h) \in Int
         /\ h < k <=> FullHour(d, h) + 2 <= FullHour(d, k)
         /\ h <= k <=> FullHour(d, h) <= FullHour(d, k)
<1>1. d * DayHours \in Int
  BY WeatherConstants
<1> QED
  BY <1>1 DEF FullHour

LEMMA DayOfHour ==
  ASSUME NEW d \in Nat, NEW h \in 0..DayHours - 1
  PROVE  FullHour(d, h) \in Nat /\ dayOf(FullHour(d, h)) = d /\ hourOf(FullHour(d, h)) = h
<1> DEFINE t == FullHour(d, h)
<1>1. t \in Nat
  <2>1. d * DayHours \in Nat
    BY WeatherConstants
  <2> QED
    BY <2>1 DEF FullHour
<1>2. PICK e \in Nat, k \in 0..DayHours - 1 :
        e = dayOf(t) /\ k = hourOf(t) /\ FullHour(e, k) <= t /\ t <= FullHour(e, k) + 1
  BY <1>1, TimeOfDay
<1>3. k \in Int /\ h \in Int /\ FullHour(e, k) \in Int
  BY <1>2, WeatherConstants, HourAfterHour
<1>4. ~(e < d) /\ ~(d < e)
  BY <1>1, <1>2, <1>3, DayAfterDay
<1>5. e = d
  BY <1>2, <1>4
<1>6. ~(k < h) /\ ~(h < k)
  <2>1. /\ k < h => FullHour(d, k) + 2 <= FullHour(d, h)
        /\ h < k => FullHour(d, h) + 2 <= FullHour(d, k)
    <3>1. d \in Int
      OBVIOUS
    <3> QED
      BY <1>3, <3>1, HourAfterHour, Zenon
  <2> QED
    BY <1>1, <1>2, <1>3, <1>5, <2>1
<1> QED
  BY <1>1, <1>2, <1>3, <1>5, <1>6

LEMMA TimeGoesOn ==
  ASSUME NEW s \in Nat, NEW t \in Nat, s <= t
  PROVE  dayOf(s) <= dayOf(t) /\ (dayOf(s) = dayOf(t) => hourOf(s) <= hourOf(t))
<1>1. PICK d \in Nat, h \in 0..DayHours - 1 :
        d = dayOf(s) /\ h = hourOf(s) /\ FullHour(d, h) <= s /\ s <= FullHour(d, h) + 1
  BY TimeOfDay
<1>2. PICK e \in Nat, k \in 0..DayHours - 1 :
        e = dayOf(t) /\ k = hourOf(t) /\ FullHour(e, k) <= t /\ t <= FullHour(e, k) + 1
  BY TimeOfDay
<1>3. h \in Int /\ k \in Int /\ FullHour(d, h) \in Int /\ FullHour(e, k) \in Int
  BY WeatherConstants, HourAfterHour
<1>4. ~(e < d)
  BY <1>1, <1>2, <1>3, DayAfterDay
<1>5. d = e => ~(k < h)
  <2>1. k < h => FullHour(d, k) + 2 <= FullHour(d, h)
    BY <1>3, HourAfterHour
  <2> QED
    BY <1>1, <1>2, <1>3, <2>1
<1> QED
  BY <1>1, <1>2, <1>3, <1>4, <1>5

-----------------------------------------------------------------------------
LEMMA TheLeast ==
  ASSUME NEW S \in SUBSET Nat, S # {}
  PROVE  Min(S) \in S /\ \A y \in S : Min(S) <= y
BY Least DEF Min

LEMMA Bounds ==
  ASSUME NEW a \in Int, NEW b \in Int
  PROVE  /\ Max({a, b}) = IF a >= b THEN a ELSE b
         /\ Min({a, b}) = IF a <= b THEN a ELSE b
<1>1. PICK m \in {a, b} : \A y \in {a, b} : m >= y
  OBVIOUS
<1>2. PICK n \in {a, b} : \A y \in {a, b} : n <= y
  OBVIOUS
<1>3. Max({a, b}) \in {a, b} /\ \A y \in {a, b} : Max({a, b}) >= y
  BY <1>1 DEF Max
<1>4. Min({a, b}) \in {a, b} /\ \A y \in {a, b} : Min({a, b}) <= y
  BY <1>2 DEF Min
<1> QED
  BY <1>3, <1>4

\* The coldest of some hours of a night is there.
LEMMA Coldest ==
  ASSUME NEW n \in Nat, NEW f, \A h \in 0..n - 1 : f[h] \in Int,
         NEW H \in SUBSET (0..n - 1), H # {}
  PROVE  Min({f[h] : h \in H}) \in Int
<1> DEFINE Good == {k \in Nat : \A J \in SUBSET (0..n - 1) :
                      J # {} /\ J \subseteq 0..k - 1 => \E m \in J : \A h \in J : f[m] <= f[h]}
<1>1. 0 \in Good
  <2>1. \A J : J \subseteq 0..0 - 1 => J = {}
    OBVIOUS
  <2> QED
    BY <2>1
<1>2. ASSUME NEW k \in Nat, k \in Good
      PROVE  k + 1 \in Good
  <2> SUFFICES ASSUME NEW J \in SUBSET (0..n - 1), J # {}, J \subseteq 0..k
               PROVE  \E m \in J : \A h \in J : f[m] <= f[h]
    OBVIOUS
  <2>1. CASE J \ {k} = {}
    <3>1. J = {k} /\ f[k] \in Int
      BY <2>1
    <3> QED
      BY <3>1
  <2>2. CASE J \ {k} # {}
    <3>0. J \ {k} \subseteq 0..k - 1 /\ J \ {k} \in SUBSET (0..n - 1)
      OBVIOUS
    <3>1. PICK m \in J \ {k} : \A h \in J \ {k} : f[m] <= f[h]
      BY <1>2, <2>2, <3>0, Zenon
    <3>2. CASE k \notin J
      BY <3>1, <3>2
    <3>3. CASE k \in J /\ f[m] <= f[k]
      BY <3>1, <3>3
    <3>4. CASE k \in J /\ ~(f[m] <= f[k])
      <4>1. f[k] \in Int /\ \A h \in J : f[h] \in Int
        BY <3>4
      <4>2. \A h \in J : f[k] <= f[h]
        BY <3>1, <3>4, <4>1
      <4> QED
        BY <3>4, <4>2
    <3> QED
      BY <3>2, <3>3, <3>4
  <2> QED
    BY <2>1, <2>2
<1> HIDE DEF Good
<1>3. n \in Good
  BY <1>1, <1>2, NatInd
<1>4. PICK m \in H : \A h \in H : f[m] <= f[h]
  BY <1>3 DEF Good
<1> DEFINE S == {f[h] : h \in H}
<1>5. f[m] \in S /\ \A y \in S : f[m] <= y
  BY <1>4
<1>6. Min(S) \in S
  BY <1>5 DEF Min
<1> QED
  BY <1>6

-----------------------------------------------------------------------------
Questions == 
  [name : Places, kind : {"metric", "event"}, day : {"today", "tomorrow", "next_night", "date"},
   date : Int, condition : {"", "rain"}, period : {"", "night"}]
LEMMA QueriesAreTyped == \A q \in WeatherQueries : q \in Questions
BY WeatherAssumption, Zenon DEF Questions

\* The hours of some days; without a short one among them, a day's for each.
LEMMA HoursPass ==
  ASSUME NEW from \in Int, NEW to \in Int
  PROVE  /\ Passes(from, to) \in Int
         /\ from <= to /\ ShortDays \cap from..to - 1 = {} => Passes(from, to) >= (to - from) * DayHours
<1>1. PICK last \in Int, all \in Int : last = to - 1 /\ all = (to - from) * DayHours
  BY WeatherConstants
<1>2. IsFiniteSet(from..last)
  BY FS_Interval
<1>3. IsFiniteSet(LongDays \cap from..last) /\ IsFiniteSet(ShortDays \cap from..last)
  BY <1>2, FS_Subset
<1>4. PICK more \in Nat, less \in Nat :
        more = Cardinality(LongDays \cap from..last) /\ less = Cardinality(ShortDays \cap from..last)
  BY <1>3, FS_CardinalityType
<1>5. Passes(from, to) = all + more - less
  BY <1>1, <1>4 DEF Passes
<1>6. ShortDays \cap from..last = {} => less = 0
  BY <1>4, FS_EmptySet
<1> QED
  BY <1>1, <1>5, <1>6

LEMMA WholeDays ==
  ASSUME NEW n \in Int, NEW hours \in Int, hours >= n * DayHours
  PROVE  hours \div DayHours \in Int /\ hours \div DayHours >= n
<1>1. DayHours \in Nat /\ DayHours > 0
  BY WeatherConstants
<1>2. PICK d \in Int, r \in Int :
        d = hours \div DayHours /\ r = hours % DayHours /\ hours = DayHours * d + r /\ 0 <= r /\ r < DayHours
  BY <1>1
<1>3. d >= n
  <2>1. SUFFICES ASSUME d <= n - 1 PROVE FALSE
    BY <1>2
  <2>2. DayHours * d <= DayHours * (n - 1)
    BY <1>1, <1>2, <2>1, TimesMore
  <2>3. DayHours * (n - 1) = n * DayHours - DayHours /\ n * DayHours \in Int /\ DayHours * d \in Int
    BY <1>1, <1>2
  <2> QED
    BY <1>1, <1>2, <2>2, <2>3
<1> QED
  BY <1>2, <1>3

LEMMA Targets ==
  ASSUME NEW q \in WeatherQueries, NEW t \in Nat
  PROVE  /\ q.day \in {"today", "tomorrow", "next_night", "date"} /\ q.date \in Int
         /\ q.day = "today" => TargetAt(q, t) = dayOf(t)
         /\ q.day = "tomorrow" => TargetAt(q, t) = dayOf(t) + 1
         /\ q.day = "next_night" /\ hourOf(t) >= NightEnds => TargetAt(q, t) = dayOf(t) + 1
         /\ q.day = "next_night" /\ hourOf(t) < NightEnds => TargetAt(q, t) = dayOf(t)
         /\ q.day = "date" => TargetAt(q, t) = q.date
         /\ TargetAt(q, t) \in Int /\ DaysAt(q, t) \in Int /\ DaysAt(q, t) <= MaxForecastDays
         /\ HoursAt(q, t) \in Int
         /\ DaysAt(q, t) >= (IF HoursAt(q, t) \div DayHours + 1 <= MaxForecastDays
                             THEN HoursAt(q, t) \div DayHours + 1 ELSE MaxForecastDays)
<1>1. q.day \in {"today", "tomorrow", "next_night", "date"} /\ q.date \in Int
  BY QueriesAreTyped DEF Questions
<1>2. PICK d \in Nat, h \in Int : d = dayOf(t) /\ h = hourOf(t)
  BY TimeOfDay
<1>3. /\ q.day = "today" => TargetAt(q, t) = d
      /\ q.day = "tomorrow" => TargetAt(q, t) = d + 1
      /\ q.day = "next_night" /\ h >= NightEnds => TargetAt(q, t) = d + 1
      /\ q.day = "next_night" /\ h < NightEnds => TargetAt(q, t) = d
      /\ q.day = "date" => TargetAt(q, t) = q.date
  BY <1>2, WeatherConstants DEF TargetAt
<1>4. TargetAt(q, t) \in Int
  BY <1>1, <1>2, <1>3, WeatherConstants
<1>11. HoursAt(q, t) \in Int
  BY <1>2, <1>4, HoursPass DEF HoursAt
<1>5. PICK n \in Int : n = HoursAt(q, t) \div DayHours + 1
  BY <1>11, WeatherConstants
<1>6. Max({1, n}) = (IF 1 >= n THEN 1 ELSE n) /\ Max({1, n}) \in Int
  BY <1>5, Bounds
<1>7. PICK m \in Int : m = Max({1, n})
  BY <1>6
<1>8. Min({MaxForecastDays, m}) = (IF MaxForecastDays <= m THEN MaxForecastDays ELSE m)
  <2>1. MaxForecastDays \in Int
    BY WeatherConstants
  <2> QED
    BY <1>7, <2>1, Bounds
<1>9. DaysAt(q, t) = IF MaxForecastDays <= m THEN MaxForecastDays ELSE m
  BY <1>5, <1>7, <1>8 DEF DaysAt
<1>10. DaysAt(q, t) \in Int /\ DaysAt(q, t) <= MaxForecastDays
  BY <1>7, <1>9, WeatherConstants
<1>12. DaysAt(q, t) >= (IF n <= MaxForecastDays THEN n ELSE MaxForecastDays)
  BY <1>6, <1>7, <1>9, WeatherConstants
<1> QED
  BY <1>1, <1>2, <1>3, <1>4, <1>5, <1>10, <1>11, <1>12

\* A forecast covers the day that is chosen unless a boundary passed, or the day is
\* none that is offered or comes after a short one.
LEMMA DayIsCovered ==
  ASSUME NEW q \in WeatherQueries, NEW s \in Nat, NEW t \in Nat, NEW u \in Nat, NEW v \in Nat, NEW at \in Nat,
         s <= t, t <= u, u <= v, v <= at,
         dayOf(s) = dayOf(at), ~ (hourOf(s) < NightEnds /\ hourOf(at) >= NightEnds),
         q.day = "date" => q.date - dayOf(at) \in 0..MaxForecastDays - 1,
         q.day = "tomorrow" => dayOf(at) \notin ShortDays,
         q.day = "next_night" /\ hourOf(at) >= NightEnds => dayOf(at) \notin ShortDays,
         q.day = "date" => ShortDays \cap dayOf(at)..q.date - 1 = {}
  PROVE  TargetAt(q, v) \in dayOf(u)..dayOf(u) + DaysAt(q, t) - 1
<1>1. \A x \in {s, t, u, v, at} : dayOf(x) \in Nat /\ hourOf(x) \in Int
  BY TimeOfDay
<1>2. PICK d \in Nat : d = dayOf(s)
  BY <1>1
<1>3. dayOf(t) = d /\ dayOf(u) = d /\ dayOf(v) = d /\ dayOf(at) = d
  <2>1. dayOf(s) <= dayOf(t) /\ dayOf(t) <= dayOf(u) /\ dayOf(u) <= dayOf(v) /\ dayOf(v) <= dayOf(at)
    BY TimeGoesOn
  <2> QED
    BY <1>1, <1>2, <2>1
<1>4. hourOf(s) <= hourOf(t) /\ hourOf(t) <= hourOf(u) /\ hourOf(u) <= hourOf(v) /\ hourOf(v) <= hourOf(at)
  BY <1>2, <1>3, TimeGoesOn
<1>5. hourOf(t) >= NightEnds <=> hourOf(v) >= NightEnds
  BY <1>1, <1>4, WeatherConstants
<1>6. TargetAt(q, v) = TargetAt(q, t) /\ TargetAt(q, t) \in Int
  BY <1>1, <1>3, <1>5, Targets, WeatherConstants
<1>7. TargetAt(q, t) - d \in 0..MaxForecastDays - 1
  BY <1>1, <1>3, Targets, WeatherConstants
<1>9. PICK target \in Int : target = TargetAt(q, t)
  BY <1>6
<1>10. ShortDays \cap d..target - 1 = {}
  <2>1. q.day \in {"today", "tomorrow", "next_night", "date"}
    BY Targets
  <2>2. CASE q.day = "today"
    <3>1. target = d
      BY <1>3, <1>9, <2>2, Targets
    <3> QED
      BY <3>1
  <2>3. CASE q.day = "tomorrow"
    <3>1. target = d + 1
      BY <1>3, <1>9, <2>3, Targets
    <3> QED
      BY <1>3, <2>3, <3>1
  <2>4. CASE q.day = "next_night" /\ hourOf(t) < NightEnds
    <3>1. target = d
      BY <1>3, <1>9, <2>4, Targets
    <3> QED
      BY <3>1
  <2>5. CASE q.day = "next_night" /\ hourOf(t) >= NightEnds
    <3>1. target = d + 1
      BY <1>3, <1>9, <2>5, Targets
    <3>2. hourOf(at) >= NightEnds
      BY <1>1, <1>4, <2>5, WeatherConstants
    <3> QED
      BY <1>3, <2>5, <3>1, <3>2
  <2>6. CASE q.day = "date"
    <3>1. target = q.date
      BY <1>9, <2>6, Targets
    <3> QED
      BY <1>3, <2>6, <3>1
  <2> QED
    BY <1>1, <2>1, <2>2, <2>3, <2>4, <2>5, <2>6, WeatherConstants
<1>11. PICK hours \in Int : hours = HoursAt(q, t)
  BY Targets
<1>12. hours >= (target - d) * DayHours
  <2>1. hours = Passes(d, target) /\ d <= target
    BY <1>3, <1>7, <1>9, <1>11 DEF HoursAt
  <2> QED
    BY <1>10, <2>1, HoursPass
<1>13. PICK whole \in Int : whole = hours \div DayHours /\ whole >= target - d
  BY <1>12, WholeDays
<1>14. DaysAt(q, t) >= (IF whole + 1 <= MaxForecastDays THEN whole + 1 ELSE MaxForecastDays) /\ DaysAt(q, t) \in Int
  BY <1>11, <1>13, Targets
<1>15. DaysAt(q, t) >= target - d + 1
  BY <1>7, <1>9, <1>13, <1>14, WeatherConstants
<1> QED
  BY <1>3, <1>6, <1>7, <1>9, <1>14, <1>15

\* Two readings of a clock that moved once at most are the first or the last.
LEMMA OneHalfHour ==
  ASSUME NEW s \in Nat, NEW v \in Nat, NEW at \in Nat, s <= v, v <= at, at <= s + 1
  PROVE  v \in {s, at}
OBVIOUS

LEMMA ReadAtValue ==
  ASSUME WeatherInv, request # None, request.step = "value"
  PROVE  /\ request \in WeatherRequests /\ time \in Nat /\ time <= request.since + 1
         /\ \E t, u, v \in Nat :
              /\ request.since <= t /\ t <= u /\ u <= v /\ v <= time
              /\ request.days = DaysAt(request.query, t) /\ request.from = dayOf(u)
              /\ request.day = TargetAt(request.query, v)
<1>1. /\ request \in WeatherRequests /\ time \in Nat /\ time <= request.since + 1
  BY WeatherConstants DEF WeatherInv, WeatherTyped, WeatherRequestInv
<1>2. PICK t \in request.since..time, u \in request.since..time, v \in request.since..time : Chosen(request, t, u, v)
  BY DEF WeatherInv, WeatherRequestInv
<1>3. request.since \in Nat
  BY <1>1 DEF WeatherRequests
<1>4. t \in Nat /\ u \in Nat /\ v \in Nat /\ request.since <= t /\ v <= time
  BY <1>1, <1>3
<1> QED
  BY <1>1, <1>2, <1>4 DEF Chosen, Replied, AskedAt

\* A forecast that does not cover the day is refused for a reason.
LEMMA RefusalIsRight ==
  ASSUME WeatherInv, request # None, request.step = "value", Fail("unavailable"),
         ~ Covered \/ (request.query.period = "night" /\ nightAhead = {})
  PROVE  ForecastIsThere'
<1>1. /\ request \in WeatherRequests /\ time \in Nat /\ time <= request.since + 1
  BY ReadAtValue
<1>2. PICK t \in Nat, u \in Nat, v \in Nat :
        /\ request.since <= t /\ t <= u /\ u <= v /\ v <= time
        /\ request.days = DaysAt(request.query, t) /\ request.from = dayOf(u)
        /\ request.day = TargetAt(request.query, v)
  BY ReadAtValue
<1>3. PICK q \in WeatherQueries, s \in Nat, at \in Nat : q = request.query /\ s = request.since /\ at = time
  BY <1>1 DEF WeatherRequests
<1>4. forecast' = [ok |-> FALSE, why |-> "unavailable", query |-> q, since |-> s, at |-> at]
  BY <1>3 DEF Fail
<1>5. SUFFICES ASSUME dayOf(s) = dayOf(at), ~ (hourOf(s) < NightEnds /\ hourOf(at) >= NightEnds),
                      q.day = "date" => q.date - dayOf(at) \in 0..MaxForecastDays - 1,
                      q.day = "tomorrow" => dayOf(at) \notin ShortDays,
                      q.day = "next_night" /\ hourOf(at) >= NightEnds => dayOf(at) \notin ShortDays,
                      q.day = "date" => ShortDays \cap dayOf(at)..q.date - 1 = {}
               PROVE  /\ q.period = "night" /\ q.day # "tomorrow"
                      /\ q.day = "date" => q.date = dayOf(at)
                      /\ \A h \in 0..NightEnds - 1 : FullHour(dayOf(at), h) < at
                      /\ q.day = "next_night" => hourOf(at) < NightEnds
  BY <1>4 DEF ForecastIsThere
<1>6. Covered
  <2>1. s <= t /\ t <= u /\ u <= v /\ v <= at
    BY <1>2, <1>3
  <2>2. TargetAt(q, v) \in dayOf(u)..dayOf(u) + DaysAt(q, t) - 1
    BY <1>5, <2>1, DayIsCovered
  <2> QED
    BY <1>2, <1>3, <2>2, Zenon DEF Covered
<1>7. q.period = "night" /\ \A h \in 0..NightEnds - 1 : ~ (FullHour(TargetAt(q, v), h) >= at)
  BY <1>2, <1>3, <1>6 DEF nightAhead
<1>8. /\ dayOf(at) \in Nat /\ hourOf(at) \in Int /\ at <= FullHour(dayOf(at), hourOf(at)) + 1
      /\ hourOf(at) \in 0..DayHours - 1
  BY TimeOfDay, WeatherConstants
<1>9. TargetAt(q, v) <= dayOf(at)
  <2>1. SUFFICES ASSUME TargetAt(q, v) > dayOf(at) PROVE FALSE
    BY <1>8, Targets
  <2>2. 0 \in 0..NightEnds - 1 /\ 0 \in 0..DayHours - 1 /\ dayOf(at) \in Int /\ TargetAt(q, v) \in Int
    BY <1>8, Targets, WeatherConstants
  <2>3. FullHour(dayOf(at), hourOf(at)) + 2 <= FullHour(TargetAt(q, v), 0)
    BY <1>8, <2>1, <2>2, DayAfterDay
  <2>4. FullHour(dayOf(at), hourOf(at)) \in Int /\ FullHour(TargetAt(q, v), 0) \in Int
    BY <1>8, <2>2, HourAfterHour
  <2> QED
    BY <1>7, <1>8, <2>2, <2>3, <2>4
<1>10. dayOf(v) = dayOf(at)
  <2>1. dayOf(s) <= dayOf(v) /\ dayOf(v) <= dayOf(at)
    BY <1>2, <1>3, TimeGoesOn
  <2> QED
    BY <1>5, <1>8, <2>1, TimeOfDay
<1>11. q.day # "tomorrow" /\ (q.day = "date" => q.date = dayOf(at))
  BY <1>5, <1>8, <1>9, <1>10, Targets
<1>15. hourOf(s) <= hourOf(v) /\ hourOf(v) <= hourOf(at) /\ hourOf(s) \in Int /\ hourOf(v) \in Int
  BY <1>2, <1>3, <1>5, <1>10, TimeGoesOn, TimeOfDay
<1>12. q.day = "next_night" => hourOf(at) < NightEnds
  <2>1. SUFFICES ASSUME q.day = "next_night", ~ (hourOf(at) < NightEnds) PROVE FALSE
    OBVIOUS
  <2>2. hourOf(v) >= NightEnds
    BY <1>5, <1>8, <1>15, <2>1, WeatherConstants
  <2>3. TargetAt(q, v) = dayOf(at) + 1
    BY <1>10, <2>1, <2>2, Targets
  <2> QED
    BY <1>8, <1>9, <2>3
<1>13. TargetAt(q, v) = dayOf(at)
  <2>1. q.day \in {"today", "tomorrow", "next_night", "date"}
    BY Targets
  <2>2. q.day = "next_night" => hourOf(v) < NightEnds
    BY <1>8, <1>12, <1>15, WeatherConstants
  <2>3. CASE q.day = "today"
    BY <1>10, <2>3, Targets
  <2>4. CASE q.day = "next_night"
    BY <1>10, <2>2, <2>4, Targets
  <2>5. CASE q.day = "date"
    BY <1>11, <2>5, Targets
  <2> QED
    BY <1>11, <2>1, <2>3, <2>4, <2>5
<1>14. \A h \in 0..NightEnds - 1 : FullHour(dayOf(at), h) < at
  <2>1. \A h \in 0..NightEnds - 1 : FullHour(dayOf(at), h) \in Int
    BY <1>8, HourAfterHour
  <2> QED
    BY <1>7, <1>13, <2>1
<1> QED
  BY <1>7, <1>11, <1>12, <1>14

\* No hour of a night before the next one is still ahead.
LEMMA NextNight ==
  ASSUME NEW q \in WeatherQueries, q.day = "next_night", NEW v \in Nat, NEW at \in Nat, v <= at,
         NEW d \in Nat, NEW h \in 0..NightEnds - 1, FullHour(d, h) >= at
  PROVE  d >= TargetAt(q, v)
<1>1. PICK e \in Nat, k \in 0..DayHours - 1 : e = dayOf(v) /\ k = hourOf(v) /\ FullHour(e, k) <= v
  BY TimeOfDay
<1>2. h \in 0..DayHours - 1 /\ h \in Int /\ k \in Int /\ d \in Int /\ e \in Int
  BY WeatherConstants
<1>3. FullHour(e, k) \in Int /\ FullHour(d, h) \in Int
  BY <1>2, HourAfterHour
<1>4. ~ (d < e)
  BY <1>1, <1>2, <1>3, DayAfterDay
<1>5. d = e => ~ (h < k)
  <2>1. SUFFICES ASSUME d = e, h < k PROVE FALSE
    OBVIOUS
  <2>2. FullHour(d, h) + 2 <= FullHour(d, k)
    BY <1>2, <2>1, HourAfterHour
  <2> QED
    BY <1>1, <1>3, <2>1, <2>2
<1>6. k >= NightEnds => TargetAt(q, v) = e + 1
  BY <1>1, Targets
<1>7. k < NightEnds => TargetAt(q, v) = e
  BY <1>1, Targets
<1> QED
  BY <1>2, <1>4, <1>5, <1>6, <1>7, WeatherConstants

\* The night that is read is the nearest with hours ahead.
LEMMA NightIsRight ==
  ASSUME WeatherInv, request # None, request.step = "value",
         request.query.period = "night", nightAhead # {},
         Forecast(Min({Temperature[FullHour(request.day, h)] : h \in nightAhead}), {})
  PROVE  NightIsAhead'
<1>1. /\ request \in WeatherRequests /\ time \in Nat /\ time <= request.since + 1
  BY ReadAtValue
<1>2. PICK t \in Nat, u \in Nat, v \in Nat :
        /\ request.since <= t /\ t <= u /\ u <= v /\ v <= time
        /\ request.days = DaysAt(request.query, t) /\ request.from = dayOf(u)
        /\ request.day = TargetAt(request.query, v)
  BY ReadAtValue
<1>3. PICK q \in WeatherQueries, at \in Nat, day \in Int :
        q = request.query /\ at = time /\ day = request.day /\ day = TargetAt(q, v) /\ v <= at
  BY <1>1, <1>2 DEF WeatherRequests
<1> DEFINE Left == {h \in 0..NightEnds - 1 : FullHour(day, h) >= at}
           S == {h \in Nights : h >= at}
           nearest == Min(S)
           ahead == {h \in Nights : h >= at /\ dayOf(h) = dayOf(nearest)}
<1>4. nightAhead = Left /\ Left # {}
  BY <1>3 DEF nightAhead
<1>5. /\ forecast'.query = q /\ forecast'.at = at
      /\ forecast'.value = Min({Temperature[FullHour(day, h)] : h \in Left})
  BY <1>3, <1>4 DEF Forecast
<1>6. SUFFICES ASSUME q.day = "next_night" PROVE forecast'.value = Min({Temperature[h] : h \in ahead})
  <2>1. NightIsAhead' <=>
          (forecast' # None /\ forecast'.ok /\ forecast'.query.kind = "metric"
           /\ forecast'.query.period = "night" /\ forecast'.query.day = "next_night" =>
             forecast'.value = Min({Temperature[h] : h \in {h \in Nights : h >= forecast'.at
                                      /\ dayOf(h) = dayOf(Min({x \in Nights : x >= forecast'.at}))}}))
    BY Zenon DEF NightIsAhead
  <2> QED
    BY <1>5, <2>1
<1>7. day \in Nat /\ day <= dayOf(MaxHalfHour) + 1
  <2>1. dayOf(v) \in Nat /\ dayOf(v) <= dayOf(MaxHalfHour) /\ dayOf(MaxHalfHour) \in Nat /\ hourOf(v) \in Int
    BY <1>1, <1>3, WeatherConstants, TimeGoesOn, TimeOfDay DEF WeatherInv, WeatherTyped
  <2>2. TargetAt(q, v) \in {dayOf(v), dayOf(v) + 1}
    BY <1>6, <2>1, Targets, WeatherConstants
  <2> QED
    BY <1>3, <2>1, <2>2
<1>8. PICK last \in Nat : last = dayOf(MaxHalfHour)
  BY WeatherConstants, TimeOfDay
<1>9. Nights = {FullHour(d, h) : d \in 0..last + 1, h \in 0..NightEnds - 1}
  BY <1>8 DEF Nights, dayOf
<1>10. \A d \in 0..last + 1, h \in 0..NightEnds - 1 :
         FullHour(d, h) \in Nat /\ dayOf(FullHour(d, h)) = d
  BY <1>8, WeatherConstants, DayOfHour
<1>11. \A h \in Left : FullHour(day, h) \in S
  BY <1>7, <1>8, <1>9
<1>12. S \in SUBSET Nat /\ S # {}
  BY <1>4, <1>9, <1>10, <1>11
<1>13. nearest \in S /\ \A x \in S : nearest <= x
  BY <1>12, TheLeast
<1> HIDE DEF nearest
<1>14. dayOf(nearest) = day
  <2>1. PICK d \in 0..last + 1, h \in 0..NightEnds - 1 : nearest = FullHour(d, h)
    BY <1>9, <1>13
  <2>2. dayOf(nearest) = d /\ d \in Nat /\ nearest \in Nat
    BY <1>8, <1>10, <2>1
  <2>3. d >= day
    BY <1>3, <1>6, <1>13, <2>1, <2>2, NextNight
  <2>4. PICK g \in Left : TRUE
    BY <1>4
  <2>5. nearest <= FullHour(day, g) /\ FullHour(day, g) \in Nat
    BY <1>7, <1>8, <1>10, <1>11, <1>13
  <2>6. g \in 0..DayHours - 1 /\ h \in 0..DayHours - 1
    BY WeatherConstants
  <2>7. ~ (day < d)
    BY <1>7, <2>1, <2>2, <2>5, <2>6, DayAfterDay
  <2> QED
    BY <1>7, <2>2, <2>3, <2>7
<1>15. \A x : x \in ahead <=> \E h \in Left : x = FullHour(day, h)
  <2>1. ASSUME NEW x \in ahead PROVE \E h \in Left : x = FullHour(day, h)
    <3>1. PICK d \in 0..last + 1, h \in 0..NightEnds - 1 : x = FullHour(d, h)
      BY <1>9
    <3>2. d = day
      BY <1>10, <1>14, <3>1
    <3> QED
      BY <3>1, <3>2
  <2>2. ASSUME NEW h \in Left PROVE FullHour(day, h) \in ahead
    BY <1>7, <1>8, <1>10, <1>11, <1>14
  <2> QED
    BY <2>1, <2>2
<1>16. {Temperature[h] : h \in ahead} = {Temperature[FullHour(day, h)] : h \in Left}
  BY <1>15
<1> QED
  BY <1>5, <1>16

\* A temperature that is covered is there.
LEMMA TemperatureIsThere ==
  ASSUME WeatherInv, request # None, request.step = "value", Covered,
         NEW H \in SUBSET (0..DayHours - 1), H # {}
  PROVE  Min({Temperature[FullHour(request.day, h)] : h \in H}) # None
<1>1. /\ request \in WeatherRequests /\ time \in Nat /\ time <= request.since + 1
  BY ReadAtValue
<1>2. PICK t \in Nat, u \in Nat, v \in Nat :
        /\ request.since <= t /\ t <= u /\ u <= v /\ v <= time
        /\ request.days = DaysAt(request.query, t) /\ request.from = dayOf(u)
        /\ request.day = TargetAt(request.query, v)
  BY ReadAtValue
<1>3. PICK q \in WeatherQueries, day \in Int, last \in Nat :
        q = request.query /\ day = request.day /\ last = dayOf(MaxHalfHour)
  BY <1>1, WeatherConstants, TimeOfDay DEF WeatherRequests
<1>4. dayOf(u) \in 0..last
  <2>1. u <= MaxHalfHour
    BY <1>1, <1>2, WeatherConstants DEF WeatherInv, WeatherTyped
  <2> QED
    BY <1>3, <2>1, WeatherConstants, TimeGoesOn, TimeOfDay
<1>5. DaysAt(q, t) \in Int /\ DaysAt(q, t) <= MaxForecastDays
  BY Targets
<1>6. day \in dayOf(u)..dayOf(u) + DaysAt(q, t) - 1
  BY <1>2, <1>3 DEF Covered
<1>7. day \in 0..last + MaxForecastDays
  BY <1>4, <1>5, <1>6, WeatherConstants
<1> DEFINE f == [h \in 0..DayHours - 1 |-> Temperature[FullHour(day, h)]]
<1>8. \A h \in 0..DayHours - 1 : f[h] \in Int
  <2> SUFFICES ASSUME NEW h \in 0..DayHours - 1 PROVE Temperature[FullHour(day, h)] \in Int
    OBVIOUS
  <2>1. FullHour(day, h) \in Offered
    BY <1>3, <1>7 DEF Offered
  <2> QED
    BY <2>1, WeatherAssumption, Zenon
<1>9. {f[h] : h \in H} = {Temperature[FullHour(request.day, h)] : h \in H}
  BY <1>3
<1> HIDE DEF f
<1>10. Min({f[h] : h \in H}) \in Int
  BY <1>8, WeatherConstants, Coldest
<1>11. None \notin Int
  BY WeatherAssumption, Zenon
<1> QED
  BY <1>9, <1>10, <1>11

LEMMA SampleFits ==
  ASSUME WeatherInv, Sample
  PROVE  ForecastFits'
<1>1. request # None /\ request.step = "value" /\ request.query.kind = "metric"
  BY DEF Sample
<1>2. request.query \in WeatherQueries
  BY <1>1, ReadAtValue DEF WeatherRequests
<1>3. CASE temperatureForPeriod = None
  <2>1. Fail("unavailable")
    BY <1>3 DEF Sample
  <2>2. ~ Covered \/ (request.query.period = "night" /\ nightAhead = {})
    <3>1. SUFFICES ASSUME Covered, ~ (request.query.period = "night" /\ nightAhead = {}) PROVE FALSE
      OBVIOUS
    <3>2. CASE request.query.period = "night"
      <4>1. nightAhead # {} /\ nightAhead \in SUBSET (0..DayHours - 1)
        BY <3>1, <3>2, WeatherConstants DEF nightAhead
      <4>2. Min({Temperature[FullHour(request.day, h)] : h \in nightAhead}) # None
        BY <1>1, <3>1, <4>1, TemperatureIsThere
      <4> QED
        BY <1>3, <3>2, <4>1, <4>2 DEF temperatureForPeriod
    <3>3. CASE request.query.period # "night"
      <4>1. 0..DayHours - 1 # {}
        BY WeatherConstants
      <4>2. DailyMin(request.day) # None
        BY <1>1, <3>1, <4>1, TemperatureIsThere DEF DailyMin
      <4> QED
        BY <1>3, <3>1, <3>3, <4>2 DEF temperatureForPeriod
    <3> QED
      BY <3>2, <3>3
  <2>3. ForecastIsThere'
    BY <1>1, <2>1, <2>2, RefusalIsRight
  <2> QED
    BY <2>1, <2>3 DEF Fail, ForecastFits, NightIsAhead, DayIsMeant
<1>4. CASE temperatureForPeriod # None
  <2>1. Forecast(temperatureForPeriod, {})
    BY <1>4 DEF Sample
  <2>2. forecast'.ok /\ forecast'.query = request.query
    BY <2>1 DEF Forecast
  <2>3. ForecastIsThere' /\ DayIsMeant'
    BY <1>1, <2>2 DEF ForecastIsThere, DayIsMeant
  <2>4. NightIsAhead'
    <3>1. CASE request.query.period = "night"
      <4>1. nightAhead # {}
        BY <1>4, <3>1 DEF temperatureForPeriod
      <4>2. temperatureForPeriod = Min({Temperature[FullHour(request.day, h)] : h \in nightAhead})
        BY <3>1, <4>1 DEF temperatureForPeriod
      <4> QED
        BY <1>1, <2>1, <3>1, <4>1, <4>2, NightIsRight
    <3>2. CASE request.query.period # "night"
      BY <2>2, <3>2 DEF NightIsAhead
    <3> QED
      BY <3>1, <3>2
  <2> QED
    BY <2>3, <2>4 DEF ForecastFits
<1> QED
  BY <1>3, <1>4

LEMMA EventFits ==
  ASSUME WeatherInv, LookupEvent
  PROVE  ForecastFits'
<1>1. request # None /\ request.step = "value" /\ request.query.kind = "event"
  BY DEF LookupEvent
<1>2. CASE ~ Covered
  <2>1. Fail("unavailable")
    BY <1>2 DEF LookupEvent
  <2>2. ForecastIsThere'
    BY <1>1, <1>2, <2>1, RefusalIsRight
  <2> QED
    BY <2>1, <2>2 DEF Fail, ForecastFits, NightIsAhead, DayIsMeant
<1>3. CASE Covered
  <2> DEFINE told == IF request.query.condition = "rain" /\ request.day \notin RainyDays
                     THEN {} ELSE {request.day}
  <2>1. Forecast(None, told)
    BY <1>3 DEF LookupEvent
  <2>2. /\ forecast'.ok /\ forecast'.query = request.query /\ forecast'.since = request.since
        /\ forecast'.at = time /\ forecast'.day = request.day /\ forecast'.events = told
    BY <2>1 DEF Forecast
  <2>3. ForecastIsThere' /\ NightIsAhead'
    BY <1>1, <2>2 DEF ForecastIsThere, NightIsAhead
  <2>4. PICK t \in Nat, u \in Nat, v \in Nat :
          /\ request.since <= t /\ t <= u /\ u <= v /\ v <= time
          /\ request.days = DaysAt(request.query, t) /\ request.from = dayOf(u)
          /\ request.day = TargetAt(request.query, v)
    BY <1>1, ReadAtValue
  <2>5. v \in {request.since, time} /\ request.query \in WeatherQueries
    <3>1. request \in WeatherRequests /\ time \in Nat /\ time <= request.since + 1
      BY <1>1, ReadAtValue
    <3>2. request.since \in Nat /\ request.query \in WeatherQueries
      BY <3>1 DEF WeatherRequests
    <3> QED
      BY <2>4, <3>1, <3>2, OneHalfHour
  <2>6. /\ request.query.day = "today" => request.day = dayOf(v)
        /\ request.query.day = "tomorrow" => request.day - 1 = dayOf(v)
    BY <2>4, <2>5, Targets, TimeOfDay
  <2>7. DayIsMeant'
    BY <2>2, <2>5, <2>6 DEF DayIsMeant
  <2> QED
    BY <2>3, <2>7 DEF ForecastFits
<1> QED
  BY <1>2, <1>3

-----------------------------------------------------------------------------
LEMMA WeatherStart == WeatherInit => WeatherInv
<1>1. IsFiniteSet({}) /\ Cardinality({}) = 0
  BY FS_EmptySet
<1> QED
  BY <1>1, WeatherConstants
     DEF WeatherInit, WeatherInv, WeatherTyped, WeatherRequestInv, ForecastFits, NightIsAhead, ForecastIsThere, DayIsMeant

LEMMA ForecastStays ==
  ASSUME ForecastFits, forecast' \in {forecast, None} \/ (~ forecast'.ok /\ forecast'.why # "unavailable")
  PROVE  ForecastFits'
BY DEF ForecastFits, NightIsAhead, ForecastIsThere, DayIsMeant

\* A name goes into the cache only when there is room.
LEMMA Remembers ==
  ASSUME WeatherInv, NEW name \in Places
  PROVE  /\ IsFiniteSet(remembered(name)) /\ remembered(name) \subseteq Places
         /\ Cardinality(remembered(name)) <= maxCachedLocations
<1>1. IsFiniteSet(locations) /\ locations \subseteq Places /\ Cardinality(locations) \in Nat
      /\ Cardinality(locations) <= maxCachedLocations
  BY FS_CardinalityType DEF WeatherInv, WeatherTyped
<1>2. CASE Cardinality(locations) >= maxCachedLocations
  <2>1. remembered(name) = {name}
    BY <1>2 DEF remembered
  <2>2. IsFiniteSet({name}) /\ Cardinality({name}) = 1
    BY FS_Singleton
  <2> QED
    BY <2>1, <2>2, WeatherConstants
<1>3. CASE ~ (Cardinality(locations) >= maxCachedLocations)
  <2>1. remembered(name) = locations \cup {name}
    BY <1>3 DEF remembered
  <2>2. /\ IsFiniteSet(locations \cup {name})
        /\ Cardinality(locations \cup {name}) = Cardinality(locations)
           \/ Cardinality(locations \cup {name}) = Cardinality(locations) + 1
    BY <1>1, FS_AddElement
  <2> QED
    BY <1>1, <1>3, <2>1, <2>2, WeatherConstants
<1> QED
  BY <1>2, <1>3

LEMMA WeatherStep == WeatherInv /\ [WeatherNext]_weatherVars => WeatherInv'
<1> SUFFICES ASSUME WeatherInv, [WeatherNext]_weatherVars
             PROVE  WeatherInv'
  OBVIOUS
<1>0. time \in Nat
  BY WeatherConstants DEF WeatherInv, WeatherTyped
<1>1. CASE BeginRequest
  <2>1. PICK q \in WeatherQueries :
          request' = [query |-> q, step |-> "place", since |-> time, days |-> 0, from |-> 0, day |-> 0]
    BY <1>1 DEF BeginRequest
  <2>2. UNCHANGED <<time, locations>> /\ forecast' = None
    BY <1>1 DEF BeginRequest
  <2>3. WeatherRequestInv'
    BY <1>0, <2>1, <2>2 DEF WeatherRequestInv, WeatherRequests, Stages
  <2>4. ForecastFits'
    BY <2>2, ForecastStays DEF WeatherInv
  <2> QED
    BY <2>2, <2>3, <2>4 DEF WeatherInv, WeatherTyped
<1>2. CASE resolveLocation
  <2>1. request # None /\ request \in WeatherRequests /\ time' = time
    BY <1>2 DEF resolveLocation, WeatherInv, WeatherRequestInv
  <2>2. request.query.name \in Places
    BY <2>1, QueriesAreTyped DEF WeatherRequests, Questions
  <2>3. WeatherTyped'
    <3>1. locations' = locations \/ locations' = remembered(request.query.name)
      BY <1>2 DEF resolveLocation
    <3> QED
      BY <2>1, <2>2, <3>1, Remembers DEF WeatherInv, WeatherTyped
  <2>4. \/ request' = [request EXCEPT !.step = "forecast"] /\ UNCHANGED forecast
        \/ Fail("place")
    BY <1>2 DEF resolveLocation
  <2>5. WeatherRequestInv'
    BY <2>1, <2>4 DEF WeatherInv, WeatherRequestInv, WeatherRequests, Stages, Fail
  <2>6. ForecastFits'
    BY <2>4, ForecastStays DEF WeatherInv, Fail
  <2> QED
    BY <2>3, <2>5, <2>6 DEF WeatherInv
<1> DEFINE q == request.query
<1>a. targetDate(q) = TargetAt(q, time) /\ forecastDays(q) = DaysAt(q, time)
  BY DEF targetDate, TargetAt, forecastDays, DaysAt, HoursAt
<1>b. request # None => /\ request \in WeatherRequests /\ q \in WeatherQueries /\ request.since \in Nat
                        /\ request.since <= time /\ time <= request.since + 1
                        /\ time \in request.since..time
  BY <1>0 DEF WeatherInv, WeatherRequestInv, WeatherRequests
<1>3. CASE fetchForecast
  <2>1. /\ request # None /\ UNCHANGED <<time, locations, forecast>>
        /\ request' = [request EXCEPT !.step = "reply", !.days = DaysAt(q, time)]
    BY <1>3, <1>a DEF fetchForecast
  <2>2. DaysAt(q, time) \in Int
    BY <1>0, <1>b, <2>1, Targets
  <2>3. /\ request' \in WeatherRequests /\ request'.step = "reply" /\ request'.since = request.since
        /\ request'.days = DaysAt(request'.query, time)
    BY <1>b, <2>1, <2>2 DEF WeatherRequests, Stages
  <2>4. WeatherRequestInv'
    BY <1>b, <2>1, <2>3 DEF WeatherRequestInv, AskedAt
  <2> QED
    BY <2>1, <2>4, ForecastStays DEF WeatherInv, WeatherTyped
<1>4. CASE ForecastReply
  <2>1. /\ request # None /\ request.step = "reply" /\ UNCHANGED <<time, locations, forecast>>
        /\ request' = [request EXCEPT !.step = "day", !.from = dayOf(time)]
    BY <1>4 DEF ForecastReply
  <2>2. dayOf(time) \in Int
    BY <1>0, TimeOfDay
  <2>3. /\ request' \in WeatherRequests /\ request'.step = "day" /\ request'.since = request.since
        /\ request'.query = q /\ request'.days = request.days /\ request'.from = dayOf(time)
    BY <1>b, <2>1, <2>2 DEF WeatherRequests, Stages
  <2>4. PICK t \in request.since..time : AskedAt(request, t)
    BY <2>1 DEF WeatherInv, WeatherRequestInv
  <2>5. t <= time
    BY <1>b, <2>1
  <2>6. Replied(request, t, time)'
    BY <2>1, <2>3, <2>4, <2>5 DEF AskedAt, Replied
  <2>7. WeatherRequestInv'
    BY <1>b, <2>1, <2>3, <2>4, <2>6 DEF WeatherRequestInv
  <2> QED
    BY <2>1, <2>7, ForecastStays DEF WeatherInv, WeatherTyped
<1>5. CASE ServiceFails
  <2>1. Fail("service") /\ UNCHANGED <<time, locations>>
    BY <1>5 DEF ServiceFails
  <2>2. ForecastFits'
    BY <2>1, ForecastStays DEF WeatherInv, Fail
  <2> QED
    BY <2>1, <2>2 DEF WeatherInv, WeatherTyped, WeatherRequestInv, Fail
<1>6. CASE ChooseDay
  <2>1. /\ request # None /\ request.step = "day" /\ UNCHANGED <<time, locations, forecast>>
        /\ request' = [request EXCEPT !.step = "value", !.day = TargetAt(q, time)]
    BY <1>6, <1>a DEF ChooseDay
  <2>2. TargetAt(q, time) \in Int
    BY <1>0, <1>b, <2>1, Targets
  <2>3. /\ request' \in WeatherRequests /\ request'.step = "value" /\ request'.since = request.since
        /\ request'.query = q /\ request'.days = request.days /\ request'.from = request.from
        /\ request'.day = TargetAt(q, time)
    BY <1>b, <2>1, <2>2 DEF WeatherRequests, Stages
  <2>4. PICK t \in request.since..time, u \in request.since..time : Replied(request, t, u)
    BY <2>1 DEF WeatherInv, WeatherRequestInv
  <2>5. u <= time
    BY <1>b, <2>1
  <2>6. Chosen(request, t, u, time)'
    BY <2>1, <2>3, <2>4, <2>5 DEF AskedAt, Replied, Chosen
  <2>7. WeatherRequestInv'
    BY <1>b, <2>1, <2>3, <2>4, <2>6 DEF WeatherRequestInv
  <2> QED
    BY <2>1, <2>7, ForecastStays DEF WeatherInv, WeatherTyped
<1>7. CASE Sample
  <2>1. UNCHANGED <<time, locations>> /\ request' = None
    BY <1>7 DEF Sample, Fail, Forecast
  <2> QED
    BY <1>7, <2>1, SampleFits DEF WeatherInv, WeatherTyped, WeatherRequestInv
<1>8. CASE LookupEvent
  <2>1. UNCHANGED <<time, locations>> /\ request' = None
    BY <1>8 DEF LookupEvent, Fail, Forecast
  <2> QED
    BY <1>8, <2>1, EventFits DEF WeatherInv, WeatherTyped, WeatherRequestInv
<1>9. CASE WeatherPass
  <2>1. /\ time' = time + 1 /\ time < MaxHalfHour /\ UNCHANGED <<locations, request, forecast>>
        /\ request # None => time = request.since
    BY <1>9 DEF WeatherPass
  <2>2. WeatherTyped'
    BY <1>0, <2>1, WeatherConstants DEF WeatherInv, WeatherTyped
  <2>3. WeatherRequestInv'
    <3>1. request # None => request.since..time \subseteq request.since..time'
      BY <1>0, <1>b, <2>1
    <3>2. request # None => request.since <= time' /\ time' <= request.since + 1
      BY <1>0, <1>b, <2>1
    <3> QED
      BY <1>b, <2>1, <3>1, <3>2 DEF WeatherInv, WeatherRequestInv, AskedAt, Replied, Chosen
  <2> QED
    BY <2>1, <2>2, <2>3, ForecastStays DEF WeatherInv
<1>10. CASE UNCHANGED weatherVars
  BY <1>10 DEF weatherVars, WeatherInv, WeatherTyped, WeatherRequestInv, ForecastFits, NightIsAhead, ForecastIsThere,
               DayIsMeant, AskedAt, Replied, Chosen
<1> QED
  BY <1>1, <1>2, <1>3, <1>4, <1>5, <1>6, <1>7, <1>8, <1>9, <1>10 DEF WeatherNext

\* Forecasts are of the day and the night that was meant, and are refused for a
\* reason, whatever boundary passes during a request (targetDate, forecastDays,
\* temperatureForPeriod).
THEOREM ForecastsFit == WeatherSpec => []ForecastFits
<1>1. WeatherInit => WeatherInv
  BY WeatherStart
<1>2. WeatherInv /\ [WeatherNext]_weatherVars => WeatherInv'
  BY WeatherStep
<1>3. WeatherInv => ForecastFits
  BY DEF WeatherInv
<1> QED
  BY <1>1, <1>2, <1>3, PTL DEF WeatherSpec

\* The cache of places never holds more than it may (remembered), and a request is
\* one of the queries.
THEOREM PlacesAreFew == WeatherSpec => []WeatherTypeOK
<1>1. WeatherInit => WeatherInv
  BY WeatherStart
<1>2. WeatherInv /\ [WeatherNext]_weatherVars => WeatherInv'
  BY WeatherStep
<1>3. WeatherInv => WeatherTypeOK
  BY DEF WeatherInv, WeatherTyped, WeatherTypeOK, WeatherRequestInv, WeatherRequests
<1> QED
  BY <1>1, <1>2, <1>3, PTL DEF WeatherSpec

-----------------------------------------------------------------------------
(***************************************************************************)
(* Prices: the sources of a page, and what is sampled from it.             *)
(***************************************************************************)

(***************************************************************************)
(* What the sources of a page come to.                                     *)
(***************************************************************************)

\* The first of the elements that pass: there is one, or none passes.
LEMMA TheFirst ==
  ASSUME NEW n \in Nat, NEW I \in SUBSET (1..n), I # {}
  PROVE  Min(I) \in I /\ Min(I) # 0 /\ \A i \in I : Min(I) <= i
<1>1. \E x \in I : \A y \in I : x <= y
  BY Least
<1>2. Min(I) \in I /\ \A i \in I : Min(I) <= i
  BY <1>1 DEF Min
<1> QED
  BY <1>2

\* The first usable text is a usable text, and there is none only if none is usable.
LEMMA FirstUsableIs ==
  ASSUME NEW X, NEW texts \in Seq(X)
  PROVE  /\ FirstUsable(texts) # None =>
              \E t \in Range(texts) : usable(t) /\ FirstUsable(texts) = ParsePrice(t)
         /\ FirstUsable(texts) = None => \A t \in Range(texts) : ~usable(t)
<1> DEFINE I == {i \in 1..Len(texts) : usable(texts[i])}
<1>1. Len(texts) \in Nat /\ DOMAIN texts = 1..Len(texts)
  OBVIOUS
<1>2. SelectInSeq(texts, usable) = IF I # {} THEN Min(I) ELSE 0
  BY DEF SelectInSeq
<1>3. CASE I = {}
  <2>1. \A t \in Range(texts) : ~usable(t)
    BY <1>1, <1>3 DEF Range
  <2>2. FirstUsable(texts) = None
    BY <1>2, <1>3 DEF FirstUsable
  <2> QED
    BY <2>1, <2>2
<1>4. CASE I # {}
  <2>1. Min(I) \in I /\ Min(I) # 0
    BY <1>1, <1>4, TheFirst
  <2> DEFINE i == Min(I)
  <2> HIDE DEF i
  <2>2. FirstUsable(texts) = ParsePrice(texts[i]) /\ usable(texts[i]) /\ texts[i] \in Range(texts)
    BY <1>1, <1>2, <1>4, <2>1 DEF FirstUsable, Range, i
  <2>3. FirstUsable(texts) # None
    BY <2>2 DEF usable
  <2> QED
    BY <2>2, <2>3
<1> QED
  BY <1>3, <1>4


\* The offers of a node that are decoded are texts or none.
LEMMA DecodedAre ==
  ASSUME NEW offers \in Seq(Offer)
  PROVE  Decoded(offers) \in Seq({None} \cup PrintedText)
<1>1. PICK n \in Nat : n = Len(offers) /\ DOMAIN offers = 1..n
  OBVIOUS
<1>2. PICK I : I = {i \in 1..n : ~offers[i].number}
  OBVIOUS
<1>3. PICK bad : bad = SelectInSeq(offers, LAMBDA offer : ~offer.number)
  OBVIOUS
<1>4. bad = IF I # {} THEN Min(I) ELSE 0
  BY <1>1, <1>2, <1>3 DEF SelectInSeq
<1>5. bad = 0 \/ bad \in 1..n
  <2>1. CASE I = {}
    BY <1>4, <2>1
  <2>2. CASE I # {}
    <3>1. Min(I) \in I
      BY <1>2, <2>2, TheFirst
    <3> QED
      BY <1>2, <1>4, <2>2, <3>1
  <2> QED
    BY <2>1, <2>2
<1>6. PICK until : until = IF bad = 0 THEN n ELSE bad - 1
  OBVIOUS
<1>7. until \in 0..n
  BY <1>5, <1>6
<1>8. Decoded(offers) = [i \in 1..until |-> offers[i].price]
  BY <1>1, <1>3, <1>6 DEF Decoded
<1>9. ASSUME NEW i \in 1..until
      PROVE  offers[i].price \in {None} \cup PrintedText
  <2>1. offers[i] \in Offer
    BY <1>1, <1>7
  <2> QED
    BY <2>1 DEF Offer
<1> QED
  BY <1>7, <1>8, <1>9

\* Of JSON-LD the offers of the first product that has a usable price.
LEMMA JSONLDIs ==
  ASSUME NEW page, page.jsonld \in Seq([type : STRING, offers : {None} \cup Seq(Offer)])
  PROVE  /\ extractJSONLD(page) # None => extractJSONLD(page) \in Printed(page)[1]
         /\ extractJSONLD(page) = None => Printed(page)[1] = {}
<1>0. PICK nodes : nodes = page.jsonld
  OBVIOUS
<1>1. nodes \in Seq([type : STRING, offers : {None} \cup Seq(Offer)])
  BY <1>0
<1>2. Len(nodes) \in Nat /\ DOMAIN nodes = 1..Len(nodes)
  BY <1>1
<1>3. \A n \in Range(nodes) : n.offers # None => Decoded(n.offers) \in Seq({None} \cup PrintedText)
  <2>1. PICK Offers : Offers = {None} \cup Seq(Offer)
    OBVIOUS
  <2>2. PICK Nodes : Nodes = [type : STRING, offers : Offers]
    OBVIOUS
  <2>3. nodes \in Seq(Nodes)
    BY <1>1, <2>1, <2>2
  <2>4. \A n \in Range(nodes) : n \in Nodes
    BY <1>2, <2>3 DEF Range
  <2>5. \A n \in Nodes : n.offers \in Offers
    BY <2>2
  <2>6. \A n \in Range(nodes) : n.offers # None => n.offers \in Seq(Offer)
    BY <2>1, <2>4, <2>5
  <2> QED
    BY <2>6, DecodedAre
<1>4. PICK Products : Products = {n \in Range(nodes) : n.type = "product" /\ n.offers # None}
  OBVIOUS
<1>5. PICK Texts : Texts = UNION {Range(Decoded(node.offers)) : node \in Products}
  OBVIOUS
<1>6. Printed(page)[1] = {ParsePrice(t) : t \in {t \in Texts : usable(t)}}
  BY <1>0, <1>4, <1>5 DEF Printed
<1>7. PICK I : I = {i \in 1..Len(nodes) : priceFromNode(nodes[i]) # None}
  OBVIOUS
<1>8. extractJSONLD(page) = IF I # {} /\ Min(I) # 0 THEN priceFromNode(nodes[Min(I)]) ELSE None
  BY <1>0, <1>7 DEF extractJSONLD, SelectInSeq
<1>9. ASSUME NEW n \in Range(nodes), priceFromNode(n) # None
      PROVE  priceFromNode(n) \in Printed(page)[1]
  <2>1. n \in Products /\ priceFromNode(n) = FirstUsable(Decoded(n.offers))
    BY <1>4, <1>9 DEF priceFromNode
  <2>2. PICK t \in Range(Decoded(n.offers)) : usable(t) /\ FirstUsable(Decoded(n.offers)) = ParsePrice(t)
    BY <1>3, <1>4, <1>9, <2>1, FirstUsableIs
  <2>3. t \in Texts
    BY <1>5, <2>1
  <2> QED
    BY <1>6, <2>1, <2>2, <2>3
<1>10. ASSUME Printed(page)[1] # {}
       PROVE  \E n \in Range(nodes) : priceFromNode(n) # None
  <2>1. PICK t \in Texts : usable(t)
    BY <1>6, <1>10
  <2>2. PICK n \in Products : t \in Range(Decoded(n.offers))
    BY <1>5, <2>1
  <2>3. FirstUsable(Decoded(n.offers)) # None
    BY <1>3, <1>4, <2>1, <2>2, FirstUsableIs
  <2> QED
    BY <1>4, <2>2, <2>3 DEF priceFromNode
<1>11. CASE I = {}
  <2>1. \A n \in Range(nodes) : priceFromNode(n) = None
    BY <1>2, <1>7, <1>11 DEF Range
  <2> QED
    BY <1>8, <1>10, <1>11, <2>1
<1>12. CASE I # {}
  <2>1. Min(I) \in I /\ Min(I) # 0
    BY <1>2, <1>7, <1>12, TheFirst
  <2>2. nodes[Min(I)] \in Range(nodes) /\ priceFromNode(nodes[Min(I)]) # None
    BY <1>2, <1>7, <2>1 DEF Range
  <2>3. extractJSONLD(page) = priceFromNode(nodes[Min(I)])
    BY <1>8, <1>12, <2>1
  <2> QED
    BY <1>9, <2>2, <2>3
<1> QED
  BY <1>11, <1>12

\* Of the meta tags the one that is looked for.
LEMMA MetaIs ==
  ASSUME NEW page
  PROVE  /\ extractOGMeta(page) # None => extractOGMeta(page) \in Printed(page)[2]
         /\ extractOGMeta(page) = None => Printed(page)[2] = {}
<1>1. PICK meta : meta = priceMeta(page)
  OBVIOUS
<1>2. PICK Metas : Metas = {meta} \ {None}
  OBVIOUS
<1>3. Printed(page)[2] = {ParsePrice(t) : t \in {t \in Metas : usable(t)}}
  BY <1>1, <1>2 DEF Printed
<1>4. extractOGMeta(page) = IF ~usable(meta) THEN None ELSE ParsePrice(meta)
  BY <1>1 DEF extractOGMeta
<1>5. usable(meta) => meta # None /\ ParsePrice(meta) # None
  BY DEF usable
<1> QED
  BY <1>2, <1>3, <1>4, <1>5

\* Of microdata the first usable text.
LEMMA MicrodataIs ==
  ASSUME NEW page, page.microdata \in Seq(PrintedText)
  PROVE  /\ extractMicrodata(page) # None => extractMicrodata(page) \in Printed(page)[3]
         /\ extractMicrodata(page) = None => Printed(page)[3] = {}
<1>1. PICK Texts : Texts = Range(page.microdata)
  OBVIOUS
<1>2. Printed(page)[3] = {ParsePrice(t) : t \in {t \in Texts : usable(t)}}
  BY <1>1 DEF Printed
<1> QED
  BY <1>1, <1>2, FirstUsableIs DEF extractMicrodata

\* Of a script the first text that may be a price of a shop.
LEMMA ScriptIs ==
  ASSUME NEW page, page.script \in Seq(PrintedText)
  PROVE  /\ extractScriptJSON(page) # None => extractScriptJSON(page) \in Printed(page)[4]
         /\ extractScriptJSON(page) = None => Printed(page)[4] = {}
<1>0. PICK texts : texts = page.script
  OBVIOUS
<1>1. Len(texts) \in Nat /\ DOMAIN texts = 1..Len(texts)
  BY <1>0
<1>2. PICK Sane : Sane = {t \in Range(texts) : sane(t)}
  OBVIOUS
<1>3. Printed(page)[4] = {ParsePrice(t) : t \in {t \in Sane : usable(t)}}
  BY <1>0, <1>2 DEF Printed
<1>4. PICK I : I = {i \in 1..Len(texts) : sane(texts[i])}
  OBVIOUS
<1>5. extractScriptJSON(page) = IF I # {} /\ Min(I) # 0 THEN ParsePrice(texts[Min(I)]) ELSE None
  BY <1>0, <1>4 DEF extractScriptJSON, SelectInSeq
<1>6. \A t : sane(t) => usable(t) /\ ParsePrice(t) # None
  BY DEF sane, usable
<1>7. CASE I = {}
  <2>1. Sane = {}
    BY <1>1, <1>2, <1>4, <1>7 DEF Range
  <2> QED
    BY <1>3, <1>5, <1>7, <2>1
<1>8. CASE I # {}
  <2>1. Min(I) \in I /\ Min(I) # 0
    BY <1>1, <1>4, <1>8, TheFirst
  <2>2. texts[Min(I)] \in Range(texts) /\ sane(texts[Min(I)])
    BY <1>1, <1>4, <2>1 DEF Range
  <2>3. extractScriptJSON(page) = ParsePrice(texts[Min(I)])
    BY <1>5, <1>8, <2>1
  <2> QED
    BY <1>2, <1>3, <1>6, <2>2, <2>3
<1> QED
  BY <1>7, <1>8

\* What is extracted of a page is printed where no place before prints a price.
LEMMA ExtractedIsPrinted ==
  ASSUME NEW p \in Pages, extractPrice(Content[p]) # None
  PROVE  LET printed == Printed(Content[p])
         IN \E n \in 1..4 : extractPrice(Content[p]) \in printed[n] /\ \A m \in 1..n - 1 : printed[m] = {}
<1>1. PICK page : page = Content[p]
  OBVIOUS
<1>2. PICK found : found = <<extractJSONLD(page), extractOGMeta(page), extractMicrodata(page), extractScriptJSON(page)>>
  OBVIOUS
<1>3. PICK I : I = {i \in 1..4 : found[i] # None}
  OBVIOUS
<1>4. extractPrice(page) = IF I # {} /\ Min(I) # 0 THEN found[Min(I)] ELSE None
  BY <1>2, <1>3 DEF extractPrice, SelectInSeq
<1>5. \A n \in 1..4 : /\ found[n] # None => found[n] \in Printed(page)[n]
                      /\ found[n] = None => Printed(page)[n] = {}
  <2>1. /\ page.jsonld \in Seq([type : STRING, offers : {None} \cup Seq(Offer)])
        /\ page.microdata \in Seq(PrintedText) /\ page.script \in Seq(PrintedText)
    BY <1>1, ShopAssumption
  <2>2. /\ found[1] # None => found[1] \in Printed(page)[1]
        /\ found[1] = None => Printed(page)[1] = {}
    BY <1>2, <2>1, JSONLDIs
  <2>3. /\ found[2] # None => found[2] \in Printed(page)[2]
        /\ found[2] = None => Printed(page)[2] = {}
    BY <1>2, MetaIs
  <2>4. /\ found[3] # None => found[3] \in Printed(page)[3]
        /\ found[3] = None => Printed(page)[3] = {}
    BY <1>2, <2>1, MicrodataIs
  <2>5. /\ found[4] # None => found[4] \in Printed(page)[4]
        /\ found[4] = None => Printed(page)[4] = {}
    BY <1>2, <2>1, ScriptIs
  <2> QED
    BY <2>2, <2>3, <2>4, <2>5
<1>7. I # {}
  BY <1>1, <1>4
<1>8. Min(I) \in I /\ Min(I) # 0 /\ \A i \in I : Min(I) <= i
  BY <1>3, <1>7, TheFirst
<1>9. PICK n \in 1..4 : n = Min(I)
  BY <1>3, <1>8
<1>10. found[n] # None /\ \A m \in 1..n - 1 : found[m] = None
  <2>1. n \in I /\ \A i \in I : n <= i
    BY <1>8, <1>9
  <2>2. \A m \in 1..n - 1 : m \in 1..4 /\ ~(n <= m)
    OBVIOUS
  <2> QED
    BY <1>3, <2>1, <2>2
<1>11. \A m \in 1..n - 1 : Printed(page)[m] = {}
  BY <1>5, <1>10
<1>12. found[n] \in Printed(page)[n] /\ extractPrice(page) = found[n]
  BY <1>4, <1>5, <1>7, <1>8, <1>9, <1>10
<1> QED
  BY <1>1, <1>11, <1>12

(***************************************************************************)
(* A sample on its way: how often it asked in a row, what it has learned of*)
(* the shop, and how much of a tab's time a challenge has left.            *)
(***************************************************************************)
Samples == [step : FetchSteps, attempt : 1..maxFetchAttempts, cancelled : BOOLEAN, left : 0..TabTimeout,
            tab : Pages \cup Challenges \cup {None}, cookie : BOOLEAN, budget : Int]
Words == {"page", "root", "again", "none", "ok", "broken", "lost", "temporary", "cancelled", "denied",
          "moved", "gone"}
Visits == [asked : Words, got : Words]
WarmedUp == \E i \in DOMAIN visits : visits[i].asked = "root"
Greeted == [asked |-> "root", got |-> "ok"] \in Range(visits)

\* The attempts before this one failed in a row, a page that is asked for again was
\* refused and the root visited, and a shop that has greeted the sample gave its cookie.
PlainInv ==
  /\ visiting.step \in {"page", "root", "again"}
  /\ visiting.attempt - 1 <= Len(visits)
  /\ \A i \in Len(visits) - visiting.attempt + 2..Len(visits) : visits[i].got = "temporary"
  /\ visiting.step = "again" => WarmedUp
  /\ shop.guard = "cookie" /\ Greeted => jar \/ forgotten

\* A challenge has all the time but the reserve, and is left when it is over.
TabInv ==
  /\ visiting.step \in {"page", "loaded", "waiting", "renewed", "settled"}
  /\ visiting.step = "waiting" => visiting.left - visiting.budget <= Reserve
  /\ visiting.step \in {"renewed", "settled"} /\ visiting.tab \in Challenges => visiting.left <= Reserve

PricesTyped ==
  /\ headless \in Headless /\ headless \in BOOLEAN /\ shop \in [guard : Guards, page : Pages]
  /\ jar \in BOOLEAN /\ forgotten \in BOOLEAN /\ visits \in Seq(Visits)
  /\ visiting # None => visiting \in Samples /\ measured = None

\* Before its address is looked up, nothing was asked for.
UrlInv == visiting.attempt = 1 /\ visits = <<>>

SampleInv ==
  visiting # None => IF visiting.step = "url" THEN UrlInv ELSE IF headless THEN TabInv ELSE PlainInv

PricesInv == PricesTyped /\ SampleInv /\ SampleIsHonest

\* Nothing is said of a sample that is on its way.
LEMMA NothingIsSaid ==
  ASSUME measured' = None
  PROVE  SampleIsHonest'
BY DEF SampleIsHonest, PriceIsTrue, RefusalIsDue, ChallengeIsWaitedOut

\* What was said of a sample stays true while its history and the guard stay.
LEMMA SaidAlready ==
  ASSUME SampleIsHonest, UNCHANGED <<measured, visits, headless, forgotten>>, shop'.guard = shop.guard
  PROVE  SampleIsHonest'
BY DEF SampleIsHonest, PriceIsTrue, RefusalIsDue, ChallengeIsWaitedOut

\* A page is measured truly, and a challenge that is read has been waited out.
LEMMA MeasuredIsTrue ==
  ASSUME NEW page, Measured(page), page \in Challenges => visiting.left <= Reserve
  PROVE  SampleIsHonest' /\ visiting' = None
<1>1. PICK price : price = IF page \in Pages THEN extractPrice(Content[page]) ELSE None
  OBVIOUS
<1>2. Ends(TRUE, IF price = None THEN 0 ELSE price, "none", page)
  BY <1>1 DEF Measured
<1>3. PICK value : value = IF price = None THEN 0 ELSE price
  OBVIOUS
<1>4. /\ measured'.available = TRUE /\ measured'.value = value /\ measured'.page = page
      /\ measured'.left = visiting.left /\ visiting' = None
  BY <1>2, <1>3 DEF Ends
<1>5. ASSUME value > 0
      PROVE  /\ page \in Pages
             /\ \E n \in 1..4 : value \in Printed(Content[page])[n] /\ \A m \in 1..n - 1 : Printed(Content[page])[m] = {}
  <2>1. price # None /\ value = price
    BY <1>3, <1>5
  <2>2. page \in Pages /\ price = extractPrice(Content[page])
    BY <1>1, <2>1
  <2> QED
    BY <2>1, <2>2, ExtractedIsPrinted
<1>6. PriceIsTrue'
  BY <1>4, <1>5 DEF PriceIsTrue
<1>7. RefusalIsDue'
  BY <1>4 DEF RefusalIsDue
<1>8. ChallengeIsWaitedOut'
  BY <1>4 DEF ChallengeIsWaitedOut
<1> QED
  BY <1>4, <1>6, <1>7, <1>8 DEF SampleIsHonest

\* A sample that ends without a page.
Fails(status) ==
  /\ ~measured'.available /\ measured'.value = 0 /\ measured'.status = status
  /\ measured'.error <=> status \notin {"moved", "denied", "gone"}
  /\ visiting' = None

LEMMA EndsInFailure ==
  ASSUME NEW status
  PROVE  Ends(FALSE, 0, status, None) => Fails(status)
<1>1. SUFFICES ASSUME Ends(FALSE, 0, status, None) PROVE Fails(status)
  OBVIOUS
<1>2. /\ measured' = [available |-> FALSE, value |-> 0, status |-> status, page |-> None,
                      error |-> ~FALSE /\ status \notin {"moved", "denied", "gone"}, left |-> visiting.left]
      /\ visiting' = None
  BY <1>1, Zenon DEF Ends
<1> QED
  BY <1>2 DEF Fails

\* Without a page there is no price, and a tab is never refused.
LEMMA FailedTabIsHonest ==
  ASSUME headless, UNCHANGED headless, Fails("none")
  PROVE  SampleIsHonest' /\ visiting' = None
<1>1. /\ ~measured'.available /\ measured'.value = 0 /\ visiting' = None
  BY DEF Fails
<1> QED
  <2>1. ~(0 > 0)
    OBVIOUS
  <2> QED
    BY <1>1, <2>1 DEF SampleIsHonest, PriceIsTrue, RefusalIsDue, ChallengeIsWaitedOut

\* The history of a sample grows at its end.
LEMMA Visited ==
  ASSUME NEW what \in Visits, visits \in Seq(Visits), Visit(what)
  PROVE  /\ visits' \in Seq(Visits) /\ Len(visits') = Len(visits) + 1
         /\ visits'[Len(visits')] = what
         /\ \A i \in 1..Len(visits) : visits'[i] = visits[i]
         /\ DOMAIN visits = 1..Len(visits) /\ DOMAIN visits' = 1..Len(visits')
         /\ Range(visits') = Range(visits) \cup {what}
<1>1. visits' = Append(visits, what)
  BY DEF Visit
<1>2. /\ visits' \in Seq(Visits) /\ Len(visits') = Len(visits) + 1 /\ Len(visits) \in Nat
      /\ visits'[Len(visits) + 1] = what /\ \A i \in 1..Len(visits) : visits'[i] = visits[i]
      /\ DOMAIN visits = 1..Len(visits) /\ DOMAIN visits' = 1..Len(visits')
  BY <1>1
<1>3. Range(visits') = Range(visits) \cup {what}
  <2>1. \A i \in DOMAIN visits' : visits'[i] \in Range(visits) \cup {what}
    BY <1>2 DEF Range
  <2>2. Range(visits') \subseteq Range(visits) \cup {what}
    BY <2>1 DEF Range
  <2>3. \A i \in DOMAIN visits : i \in DOMAIN visits' /\ visits[i] = visits'[i]
    BY <1>2
  <2>4. Range(visits) \subseteq Range(visits')
    BY <2>3 DEF Range
  <2>5. what \in Range(visits')
    BY <1>2 DEF Range
  <2> QED
    BY <2>2, <2>4, <2>5
<1> QED
  BY <1>2, <1>3

\* A plain sample that ends after a visit is refused for what that visit met with.
LEMMA RefusedByVisit ==
  ASSUME PricesTyped, visiting # None, ~headless, PlainInv, UNCHANGED <<headless, shop, jar, forgotten>>,
         NEW asked \in Words, asked = visiting.step,
         NEW got \in Words, Visit([asked |-> asked, got |-> got]),
         NEW status \in Words, Fails(status),
         \/ status = "none" /\ got \in {"lost", "cancelled"}
         \/ status = "none" /\ got = "temporary" /\ visiting.attempt = maxFetchAttempts
         \/ status = got /\ got \in {"moved", "gone", "broken"}
         \/ status = got /\ got = "denied" /\ asked = "again" /\ (shop.guard = "cookie" => ~jar)
  PROVE  SampleIsHonest' /\ visiting' = None
<1>0. PICK what : what = [asked |-> asked, got |-> got]
  OBVIOUS
<1>1. /\ visits' \in Seq(Visits) /\ Len(visits') = Len(visits) + 1 /\ visits'[Len(visits')] = what
      /\ \A i \in 1..Len(visits) : visits'[i] = visits[i]
      /\ DOMAIN visits = 1..Len(visits) /\ DOMAIN visits' = 1..Len(visits')
      /\ Range(visits') = Range(visits) \cup {what} /\ what.asked = asked /\ what.got = got
  <2>1. what \in Visits /\ visits \in Seq(Visits) /\ Visit(what) /\ what.asked = asked /\ what.got = got
    BY <1>0 DEF Visits, PricesTyped
  <2> QED
    BY <2>1, Visited
<1>2. /\ ~measured'.available /\ measured'.value = 0 /\ measured'.status = status
      /\ (measured'.error <=> status \notin {"moved", "denied", "gone"}) /\ visiting' = None
  BY DEF Fails
<1>3. PriceIsTrue' /\ ChallengeIsWaitedOut'
  <2>1. ~(0 > 0)
    OBVIOUS
  <2> QED
    BY <1>2, <2>1 DEF PriceIsTrue, ChallengeIsWaitedOut
<1>4. ASSUME measured'.error
      PROVE  \/ visits'[Len(visits')].got \in {"lost", "broken", "cancelled"}
             \/ /\ Len(visits') >= maxFetchAttempts
                /\ \A i \in Len(visits') - maxFetchAttempts + 1..Len(visits') : visits'[i].got = "temporary"
  <2>1. got \in {"lost", "broken", "cancelled"} \/ (got = "temporary" /\ visiting.attempt = maxFetchAttempts)
    BY <1>2, <1>4
  <2>2. CASE got \in {"lost", "broken", "cancelled"}
    BY <1>1, <2>2
  <2>3. CASE got = "temporary" /\ visiting.attempt = maxFetchAttempts
    <3>1. PICK n : n = Len(visits)
      OBVIOUS
    <3>2. n \in Nat /\ maxFetchAttempts \in Nat /\ maxFetchAttempts - 1 <= n
      <4>1. visits \in Seq(Visits) /\ maxFetchAttempts - 1 <= Len(visits)
        BY <2>3 DEF PlainInv, PricesTyped
      <4> QED
        BY <3>1, <4>1, PricesAssumption
    <3>3. \A i \in n - maxFetchAttempts + 2..n : visits[i].got = "temporary"
      BY <2>3, <3>1 DEF PlainInv
    <3>4. \A i \in n + 1 - maxFetchAttempts + 1..n + 1 :
            i = n + 1 \/ (i \in n - maxFetchAttempts + 2..n /\ i \in 1..n)
      BY <3>2
    <3>5. Len(visits') = n + 1
      BY <1>1, <3>1
    <3>6. \A i \in n + 1 - maxFetchAttempts + 1..n + 1 : visits'[i].got = "temporary"
      BY <1>1, <2>3, <3>1, <3>3, <3>4, <3>5
    <3>7. n + 1 >= maxFetchAttempts
      BY <3>2
    <3>8. ASSUME NEW i \in Len(visits') - maxFetchAttempts + 1..Len(visits')
          PROVE  visits'[i].got = "temporary"
      <4>1. i \in n + 1 - maxFetchAttempts + 1..n + 1
        BY <3>2, <3>5
      <4> QED
        BY <3>6, <4>1
    <3>9. Len(visits') >= maxFetchAttempts
      BY <3>5, <3>7
    <3> QED
      BY <3>8, <3>9
  <2> QED
    BY <2>1, <2>2, <2>3
<1>5. ASSUME ~measured'.error
      PROVE  visits' # <<>> /\ visits'[Len(visits')].got = measured'.status
  <2>1. status = got
    BY <1>2, <1>5
  <2>2. visits' # <<>>
    <3>1. visits \in Seq(Visits)
      BY DEF PricesTyped
    <3> QED
      BY <1>1, <3>1
  <2> QED
    BY <1>1, <1>2, <2>1, <2>2
<1>6. ASSUME measured'.status = "denied"
      PROVE  /\ visits'[Len(visits')].asked = "again" /\ \E i \in DOMAIN visits' : visits'[i].asked = "root"
             /\ shop'.guard = "cookie" /\ [asked |-> "root", got |-> "ok"] \in Range(visits') => forgotten'
  <2>1. asked = "again" /\ got = "denied" /\ (shop.guard = "cookie" => ~jar)
    BY <1>2, <1>6
  <2>2. PICK i \in DOMAIN visits : visits[i].asked = "root"
    BY <2>1 DEF PlainInv, WarmedUp
  <2>3. i \in DOMAIN visits' /\ visits'[i].asked = "root"
    <3>1. PICK n : n = Len(visits)
      OBVIOUS
    <3>2. visits \in Seq(Visits)
      BY DEF PricesTyped
    <3>3. n \in Nat /\ i \in 1..n /\ i \in 1..n + 1
      BY <1>1, <2>2, <3>1, <3>2
    <3> QED
      BY <1>1, <2>2, <3>1, <3>3
  <2>4. PICK ok : ok = [asked |-> "root", got |-> "ok"]
    OBVIOUS
  <2>5. ok # what
    BY <1>1, <2>1, <2>4
  <2>6. shop'.guard = "cookie" /\ ok \in Range(visits') => forgotten'
    BY <1>1, <2>1, <2>4, <2>5 DEF PlainInv, Greeted
  <2> QED
    BY <1>1, <2>1, <2>3, <2>4, <2>6
<1>7. RefusalIsDue'
  BY <1>4, <1>5, <1>6 DEF RefusalIsDue
<1> QED
  BY <1>2, <1>3, <1>7 DEF SampleIsHonest

\* Shops change and forget, and samples begin.
LEMMA ShopChangesKeeps ==
  ASSUME PricesInv, ShopChanges
  PROVE  PricesInv'
<1>1. PICK page \in Pages : shop' = [shop EXCEPT !.page = page]
  BY DEF ShopChanges
<1>2. /\ UNCHANGED <<headless, jar, visiting, measured, visits, forgotten>>
      /\ shop \in [guard : Guards, page : Pages]
  BY DEF ShopChanges, PricesInv, PricesTyped
<1>3. shop'.guard = shop.guard /\ shop' \in [guard : Guards, page : Pages]
  BY <1>1, <1>2
<1>4. PricesTyped'
  BY <1>2, <1>3 DEF PricesInv, PricesTyped, Samples
<1>5. SampleInv'
  BY <1>2, <1>3 DEF PricesInv, SampleInv, UrlInv, PlainInv, TabInv, WarmedUp, Greeted
<1>6. SampleIsHonest'
  BY <1>2, <1>3, SaidAlready DEF PricesInv
<1> QED
  BY <1>4, <1>5, <1>6 DEF PricesInv

LEMMA CookieExpiresKeeps ==
  ASSUME PricesInv, CookieExpires
  PROVE  PricesInv'
<1>1. /\ jar' = FALSE /\ forgotten' = (forgotten \/ visiting # None)
      /\ UNCHANGED <<headless, shop, visiting, measured, visits>>
  BY DEF CookieExpires
<1>2. PricesTyped /\ SampleInv /\ SampleIsHonest
  BY DEF PricesInv
<1>3. PricesTyped'
  <2>1. jar' \in BOOLEAN /\ forgotten' \in BOOLEAN
    BY <1>1
  <2> QED
    BY <1>1, <1>2, <2>1 DEF PricesTyped, Samples
<1>4. SampleInv'
  <2>1. CASE visiting = None
    BY <1>1, <2>1 DEF SampleInv
  <2>2. CASE visiting # None
    <3>1. forgotten'
      BY <1>1, <2>2
    <3> QED
      BY <1>1, <1>2, <3>1 DEF SampleInv, UrlInv, PlainInv, TabInv, WarmedUp, Greeted
  <2> QED
    BY <2>1, <2>2
<1>5. SampleIsHonest'
  <2>1. CASE visiting # None
    BY <1>1, <1>2, <2>1, NothingIsSaid DEF PricesTyped
  <2>2. CASE visiting = None
    <3>1. forgotten' = forgotten
      BY <1>1, <1>2, <2>2 DEF PricesTyped
    <3> QED
      BY <1>1, <1>2, <3>1, SaidAlready
  <2> QED
    BY <2>1, <2>2
<1> QED
  BY <1>3, <1>4, <1>5 DEF PricesInv

LEMMA BeginSampleKeeps ==
  ASSUME PricesInv, BeginSample
  PROVE  PricesInv'
<1>1. /\ visiting' = [step |-> "url", attempt |-> 1, cancelled |-> FALSE, left |-> TabTimeout,
                      tab |-> None, cookie |-> FALSE, budget |-> 0]
      /\ measured' = None /\ visits' = <<>> /\ forgotten' = FALSE
      /\ UNCHANGED <<headless, shop, jar>>
  BY DEF BeginSample
<1>2. PricesTyped
  BY DEF PricesInv
<1>3. /\ visiting' \in Samples /\ visiting'.step = "url" /\ visiting'.attempt = 1
  <2>1. /\ 1 \in 1..maxFetchAttempts /\ TabTimeout \in 0..TabTimeout /\ 0 \in Int
        /\ "url" \in FetchSteps /\ FALSE \in BOOLEAN /\ None \in Pages \cup Challenges \cup {None}
    BY PricesAssumption DEF FetchSteps
  <2> QED
    BY <1>1, <2>1 DEF Samples
<1>4. PricesTyped'
  <2>1. <<>> \in Seq(Visits)
    OBVIOUS
  <2>2. visits' \in Seq(Visits) /\ forgotten' \in BOOLEAN
    BY <1>1, <2>1, Zenon
  <2> QED
    BY <1>1, <1>2, <1>3, <2>2 DEF PricesTyped
<1>5. SampleInv'
  BY <1>1, <1>3 DEF SampleInv, UrlInv
<1>6. SampleIsHonest'
  BY <1>1, NothingIsSaid
<1> QED
  BY <1>4, <1>5, <1>6 DEF PricesInv

\* When a sample has ended, its types and history are those before and it is honest.
LEMMA EndedKeeps ==
  ASSUME PricesTyped, UNCHANGED <<headless, shop, jar, forgotten>>, visits' \in Seq(Visits),
         visiting' = None, SampleIsHonest'
  PROVE  PricesInv'
BY DEF PricesInv, PricesTyped, SampleInv

\* The address is one of a shop, or the sample ends before anything is asked for.
LEMMA validateURLKeeps ==
  ASSUME PricesInv, validateURL
  PROVE  PricesInv'
<1>1. /\ visiting # None /\ visiting.step = "url" /\ UNCHANGED <<headless, shop, jar, visits, forgotten>>
      /\ PricesTyped /\ visiting \in Samples /\ measured = None /\ visiting.attempt = 1 /\ visits = <<>>
      /\ visits \in Seq(Visits)
  BY DEF validateURL, PricesInv, SampleInv, UrlInv, PricesTyped
<1>2. CASE visiting' = [visiting EXCEPT !.step = "page"] /\ UNCHANGED measured
  <2>1. visiting' \in Samples /\ visiting'.step = "page" /\ visiting'.attempt = 1
    <3>1. "page" \in FetchSteps
      BY DEF FetchSteps
    <3> QED
      BY <1>1, <1>2, <3>1 DEF Samples
  <2>2. PricesTyped'
    BY <1>1, <1>2, <2>1 DEF PricesTyped
  <2>3. visits' = <<>> /\ Len(visits') = 0 /\ Range(visits') = {}
    BY <1>1 DEF Range
  <2>4. PlainInv'
    BY <2>1, <2>3 DEF PlainInv, Greeted
  <2>5. TabInv'
    BY <2>1 DEF TabInv
  <2>6. SampleInv'
    BY <2>1, <2>4, <2>5 DEF SampleInv
  <2> QED
    BY <1>1, <1>2, <2>2, <2>6, NothingIsSaid DEF PricesInv
<1>3. CASE Ends(FALSE, 0, "none", None)
  <2>1. Fails("none")
    BY <1>3, EndsInFailure, Zenon
  <2>2. /\ ~measured'.available /\ measured'.value = 0 /\ measured'.status = "none" /\ visiting' = None
        /\ measured'.error
    BY <2>1 DEF Fails
  <2>3. PriceIsTrue' /\ ChallengeIsWaitedOut'
    <3>1. ~(0 > 0)
      OBVIOUS
    <3> QED
      BY <2>2, <3>1 DEF PriceIsTrue, ChallengeIsWaitedOut
  <2>4. RefusalIsDue'
    <3>1. visits' = <<>>
      BY <1>1
    <3> QED
      BY <2>2, <3>1 DEF RefusalIsDue
  <2> QED
    BY <1>1, <2>2, <2>3, <2>4, EndedKeeps DEF SampleIsHonest
<1> QED
  BY <1>2, <1>3, Zenon DEF validateURL

LEMMA CancelSampleKeeps ==
  ASSUME PricesInv, CancelSample
  PROVE  PricesInv'
<1>1. /\ visiting # None /\ visiting.step # "url" /\ ~headless
      /\ visiting' = [visiting EXCEPT !.cancelled = TRUE]
      /\ UNCHANGED <<headless, shop, jar, measured, visits, forgotten>>
      /\ PricesTyped /\ PlainInv /\ visiting \in Samples /\ measured = None
  BY DEF CancelSample, Plain, PricesInv, SampleInv, PricesTyped
<1>2. visiting' \in Samples /\ visiting'.step = visiting.step /\ visiting'.attempt = visiting.attempt
  BY <1>1 DEF Samples
<1>3. PricesTyped'
  BY <1>1, <1>2 DEF PricesTyped
<1>4. PlainInv'
  BY <1>1, <1>2 DEF PlainInv, WarmedUp, Greeted
<1>5. SampleInv'
  BY <1>1, <1>2, <1>4 DEF SampleInv
<1> QED
  BY <1>1, <1>3, <1>5, NothingIsSaid DEF PricesInv

\* What a visit asked for and met with.
LEMMA AVisit ==
  ASSUME NEW asked \in Words, NEW got \in Words, NEW what, what = [asked |-> asked, got |-> got]
  PROVE  what \in Visits /\ what.asked = asked /\ what.got = got
BY DEF Visits

\* A plain sample goes on after a visit.
LEMMA GoesOn ==
  ASSUME PricesTyped, visiting # None, ~headless, PlainInv, UNCHANGED <<headless, shop, measured, forgotten>>,
         jar' \in BOOLEAN, NEW what \in Visits, Visit(what),
         NEW step \in {"page", "root", "again"}, NEW attempt \in 1..maxFetchAttempts,
         visiting' = [visiting EXCEPT !.step = step, !.attempt = attempt],
         attempt = 1 \/ (attempt = visiting.attempt + 1 /\ what.got = "temporary"),
         step = "again" => visiting.step = "again" \/ what.asked = "root",
         jar => jar',
         shop.guard = "cookie" /\ what = [asked |-> "root", got |-> "ok"] => jar'
  PROVE  PricesInv'
<1>1. /\ visits' \in Seq(Visits) /\ Len(visits') = Len(visits) + 1 /\ visits'[Len(visits')] = what
      /\ \A i \in 1..Len(visits) : visits'[i] = visits[i]
      /\ DOMAIN visits = 1..Len(visits) /\ DOMAIN visits' = 1..Len(visits')
      /\ Range(visits') = Range(visits) \cup {what}
  BY Visited DEF PricesTyped
<1>2. visiting' \in Samples /\ visiting'.step = step /\ visiting'.attempt = attempt
  <2>1. visiting \in Samples /\ step \in FetchSteps
    BY DEF PricesTyped, FetchSteps
  <2> QED
    BY <2>1 DEF Samples
<1>3. PricesTyped'
  BY <1>1, <1>2 DEF PricesTyped
<1>4. PICK n : n = Len(visits)
  OBVIOUS
<1>5. n \in Nat
  BY <1>4 DEF PricesTyped
<1>6. Len(visits') = n + 1 /\ visits'[n + 1] = what /\ \A i \in 1..n : visits'[i] = visits[i]
  BY <1>1, <1>4
<1>7. attempt - 1 <= n + 1 /\ \A i \in n + 1 - attempt + 2..n + 1 : visits'[i].got = "temporary"
  <2>1. CASE attempt = 1
    BY <1>5, <2>1
  <2>2. CASE attempt = visiting.attempt + 1 /\ what.got = "temporary"
    <3>1. PICK k : k = visiting.attempt
      OBVIOUS
    <3>2. k \in Nat /\ k - 1 <= n /\ attempt = k + 1
      <4>1. visiting \in Samples /\ k - 1 <= n
        BY <1>4, <3>1 DEF PlainInv, PricesTyped
      <4>2. k \in 1..maxFetchAttempts
        BY <3>1, <4>1 DEF Samples
      <4> QED
        BY <2>2, <3>1, <4>1, <4>2, PricesAssumption
    <3>3. \A i \in n - k + 2..n : visits[i].got = "temporary"
      BY <1>4, <3>1 DEF PlainInv
    <3>4. \A i \in n + 1 - attempt + 2..n + 1 : i = n + 1 \/ (i \in n - k + 2..n /\ i \in 1..n)
      BY <1>5, <3>2
    <3>5. attempt - 1 <= n + 1
      BY <1>5, <3>2
    <3> QED
      BY <1>6, <2>2, <3>3, <3>4, <3>5
  <2> QED
    BY <2>1, <2>2
<1>8. step = "again" => WarmedUp'
  <2>1. SUFFICES ASSUME step = "again" PROVE \E i \in DOMAIN visits' : visits'[i].asked = "root"
    BY DEF WarmedUp
  <2>2. DOMAIN visits' = 1..n + 1 /\ DOMAIN visits = 1..n
    BY <1>1, <1>4, <1>6
  <2>3. CASE what.asked = "root"
    <3>1. n + 1 \in DOMAIN visits'
      BY <1>5, <2>2
    <3> QED
      BY <1>6, <2>3, <3>1
  <2>4. CASE visiting.step = "again"
    <3>1. PICK i \in DOMAIN visits : visits[i].asked = "root"
      BY <2>4 DEF PlainInv, WarmedUp
    <3>2. i \in 1..n /\ i \in 1..n + 1
      BY <1>5, <2>2, <3>1
    <3> QED
      BY <1>6, <2>2, <3>1, <3>2
  <2> QED
    BY <2>1, <2>3, <2>4
<1>9. shop'.guard = "cookie" /\ Greeted' => jar' \/ forgotten'
  BY <1>1 DEF PlainInv, Greeted
<1>10. PlainInv'
  <2>1. \A i \in Len(visits') - visiting'.attempt + 2..Len(visits') : visits'[i].got = "temporary"
    <3>1. SUFFICES ASSUME NEW i \in Len(visits') - visiting'.attempt + 2..Len(visits')
                   PROVE  visits'[i].got = "temporary"
      OBVIOUS
    <3>2. i \in n + 1 - attempt + 2..n + 1
      BY <1>2, <1>5, <1>6
    <3> QED
      BY <1>7, <3>2
  <2>2. visiting'.attempt - 1 <= Len(visits')
    BY <1>2, <1>6, <1>7
  <2> QED
    BY <1>2, <1>8, <1>9, <2>1, <2>2 DEF PlainInv
<1>11. SampleInv'
  BY <1>2, <1>10 DEF SampleInv
<1>12. SampleIsHonest'
  BY NothingIsSaid DEF PricesTyped
<1> QED
  BY <1>3, <1>11, <1>12 DEF PricesInv

LEMMA NetworkFailsKeeps ==
  ASSUME PricesInv, NetworkFails
  PROVE  PricesInv'
<1>1. /\ visiting # None /\ ~headless /\ UNCHANGED <<headless, shop, jar, forgotten>>
      /\ PricesTyped /\ PlainInv /\ visiting \in Samples /\ visits \in Seq(Visits)
  BY DEF NetworkFails, Plain, PricesInv, SampleInv, PricesTyped
<1>2. PICK asked : asked = visiting.step
  OBVIOUS
<1>3. asked \in {"page", "root", "again"}
  BY <1>1, <1>2 DEF PlainInv
<1>4. PICK got \in IF visiting.cancelled THEN {"cancelled"} ELSE {"temporary", "lost"} :
        /\ Visit([asked |-> visiting.step, got |-> got])
        /\ IF got = "temporary" /\ visiting.attempt < maxFetchAttempts
           THEN visiting' = [visiting EXCEPT !.attempt = @ + 1] /\ UNCHANGED measured
           ELSE IF visiting.step = "root"
                THEN visiting' = [visiting EXCEPT !.step = "again", !.attempt = 1] /\ UNCHANGED measured
                ELSE Ends(FALSE, 0, "none", None)
  BY Zenon DEF NetworkFails
<1>5. got \in {"temporary", "lost", "cancelled"}
  BY <1>4
<1>6. PICK what : what = [asked |-> asked, got |-> got]
  OBVIOUS
<1>7. what \in Visits /\ what.asked = asked /\ what.got = got /\ Visit(what) /\ got \in Words /\ asked \in Words
  <2>1. got \in Words /\ asked \in Words
    BY <1>3, <1>5, Zenon DEF Words
  <2>2. Visit(what)
    BY <1>2, <1>4, <1>6, Zenon
  <2> QED
    BY <1>6, <2>1, <2>2, AVisit
<1>8. CASE got = "temporary" /\ visiting.attempt < maxFetchAttempts
  <2>1. PICK attempt : attempt = visiting.attempt + 1
    OBVIOUS
  <2>2. attempt \in 1..maxFetchAttempts
    <3>1. visiting.attempt \in 1..maxFetchAttempts
      BY <1>1 DEF Samples
    <3> QED
      BY <1>8, <2>1, <3>1, PricesAssumption
  <2>3. visiting' = [visiting EXCEPT !.attempt = attempt] /\ UNCHANGED measured
    BY <1>4, <1>8, <2>1
  <2>4. visiting' = [visiting EXCEPT !.step = asked, !.attempt = attempt]
    BY <1>1, <1>2, <2>3 DEF Samples
  <2>5. got = "temporary" /\ what # [asked |-> "root", got |-> "ok"]
    BY <1>5, <1>6, <1>8
  <2> QED
    BY <1>1, <1>2, <1>3, <1>7, <2>1, <2>2, <2>3, <2>4, <2>5, GoesOn DEF PricesTyped
<1>9. CASE ~(got = "temporary" /\ visiting.attempt < maxFetchAttempts) /\ visiting.step = "root"
  <2>1. visiting' = [visiting EXCEPT !.step = "again", !.attempt = 1] /\ UNCHANGED measured
    BY <1>4, <1>9
  <2>2. 1 \in 1..maxFetchAttempts /\ "again" \in {"page", "root", "again"} /\ what.asked = "root"
    BY <1>2, <1>7, <1>9, PricesAssumption
  <2>3. what # [asked |-> "root", got |-> "ok"]
    BY <1>5, <1>7
  <2> QED
    BY <1>1, <1>7, <2>1, <2>2, <2>3, GoesOn DEF PricesTyped
<1>10. CASE ~(got = "temporary" /\ visiting.attempt < maxFetchAttempts) /\ visiting.step # "root"
  <2>1. Fails("none")
    BY <1>4, <1>10, EndsInFailure, Zenon
  <2>2. got \in {"lost", "cancelled"} \/ (got = "temporary" /\ visiting.attempt = maxFetchAttempts)
    <3>1. visiting.attempt \in 1..maxFetchAttempts
      BY <1>1 DEF Samples
    <3> QED
      BY <1>5, <1>10, <3>1, PricesAssumption
  <2>3. SampleIsHonest' /\ visiting' = None
    <3>1. Visit([asked |-> asked, got |-> got]) /\ "none" \in Words
      BY <1>6, <1>7, Zenon DEF Words
    <3> QED
      BY <1>1, <1>2, <1>7, <2>1, <2>2, <3>1, RefusedByVisit
  <2> QED
    BY <1>1, <1>7, <2>3, EndedKeeps, Visited
<1> QED
  BY <1>8, <1>9, <1>10

LEMMA warmSessionKeeps ==
  ASSUME PricesInv, warmSession
  PROVE  PricesInv'
<1>1. /\ visiting # None /\ ~headless /\ visiting.step = "root"
      /\ UNCHANGED <<headless, shop, measured, forgotten>>
      /\ visiting' = [visiting EXCEPT !.step = "again", !.attempt = 1]
      /\ PricesTyped /\ PlainInv
  BY DEF warmSession, Plain, PricesInv, SampleInv
<1>2. PICK greets \in BOOLEAN :
        /\ jar' = (jar \/ (greets /\ shop.guard = "cookie"))
        /\ Visit([asked |-> "root", got |-> IF greets THEN "ok" ELSE "broken"])
  BY DEF warmSession
<1>3. PICK got : got = IF greets THEN "ok" ELSE "broken"
  OBVIOUS
<1>4. PICK what : what = [asked |-> "root", got |-> got]
  OBVIOUS
<1>5. what \in Visits /\ what.asked = "root" /\ what.got = got /\ Visit(what)
  <2>1. got \in Words /\ "root" \in Words
    BY <1>3, Zenon DEF Words
  <2>2. Visit(what)
    BY <1>2, <1>3, <1>4, Zenon
  <2> QED
    BY <1>4, <2>1, <2>2, AVisit
<1>6. /\ jar' \in BOOLEAN /\ (jar => jar')
      /\ shop.guard = "cookie" /\ what = [asked |-> "root", got |-> "ok"] => jar'
  <2>1. what = [asked |-> "root", got |-> "ok"] => got = "ok"
    BY <1>5
  <2>2. got = "ok" => greets
    BY <1>3
  <2> QED
    BY <1>2, <2>1, <2>2
<1>7. 1 \in 1..maxFetchAttempts /\ "again" \in {"page", "root", "again"}
  BY PricesAssumption
<1> QED
  BY <1>1, <1>5, <1>6, <1>7, GoesOn

LEMMA fetchBodyKeeps ==
  ASSUME PricesInv, fetchBody
  PROVE  PricesInv'
<1>1. /\ visiting # None /\ ~headless /\ visiting.step \in {"page", "again"}
      /\ UNCHANGED <<headless, shop, jar, forgotten>>
      /\ PricesTyped /\ PlainInv /\ visits \in Seq(Visits)
  BY DEF fetchBody, Plain, PricesInv, SampleInv, PricesTyped
<1>2. PICK status \in statuses :
        /\ Visit([asked |-> visiting.step, got |-> status])
        /\ CASE status = "ok" -> Measured(shop.page)
             [] status = "denied" /\ visiting.step = "page" ->
                  visiting' = [visiting EXCEPT !.step = "root", !.attempt = 1] /\ UNCHANGED measured
             [] OTHER -> Ends(FALSE, 0, status, None)
  BY Zenon DEF fetchBody
<1>3. PICK asked : asked = visiting.step
  OBVIOUS
<1>4. PICK what : what = [asked |-> asked, got |-> status]
  OBVIOUS
<1>5. /\ status \in {"ok", "denied", "moved", "gone", "broken"}
      /\ status = "denied" /\ shop.guard = "cookie" => ~jar
  BY DEF statuses
<1>6. /\ what \in Visits /\ what.asked = asked /\ what.got = status /\ Visit(what)
      /\ asked \in Words /\ status \in Words
  <2>1. asked \in Words
    BY <1>1, <1>3, Zenon DEF Words
  <2>2. status \in Words
    BY <1>5, Zenon DEF Words
  <2>3. Visit(what)
    BY <1>2, <1>3, <1>4, Zenon
  <2> QED
    BY <1>4, <2>1, <2>2, <2>3, AVisit
<1>7. CASE status = "ok"
  <2>1. Measured(shop.page)
    BY <1>2, <1>7, Zenon
  <2>2. PICK page : page = shop.page
    OBVIOUS
  <2>3. page \notin Challenges
    <3>1. page \in Pages
      BY <1>1, <2>2 DEF PricesTyped
    <3> QED
      BY <3>1, PricesAssumption
  <2>4. SampleIsHonest' /\ visiting' = None
    BY <2>1, <2>2, <2>3, MeasuredIsTrue
  <2> QED
    BY <1>1, <1>6, <2>4, EndedKeeps, Visited
<1>8. CASE status = "denied" /\ asked = "page"
  <2>1. status # "ok"
    BY <1>8
  <2>2. visiting' = [visiting EXCEPT !.step = "root", !.attempt = 1] /\ UNCHANGED measured
    BY <1>2, <1>3, <1>8, <2>1, Zenon
  <2>3. 1 \in 1..maxFetchAttempts /\ "root" \in {"page", "root", "again"} /\ "root" # "again"
    BY PricesAssumption
  <2>4. what # [asked |-> "root", got |-> "ok"] /\ jar' \in BOOLEAN /\ (jar => jar')
    BY <1>1, <1>6, <1>8 DEF PricesTyped
  <2> QED
    BY <1>1, <1>6, <2>2, <2>3, <2>4, GoesOn
<1>9. CASE status # "ok" /\ ~(status = "denied" /\ asked = "page")
  <2>1. Ends(FALSE, 0, status, None)
    BY <1>2, <1>3, <1>9, Zenon
  <2>2. Fails(status)
    BY <2>1, EndsInFailure, Zenon
  <2>3. SampleIsHonest' /\ visiting' = None
    <3>1. status = "denied" => asked = "again"
      BY <1>1, <1>3, <1>9
    <3>2. Visit([asked |-> asked, got |-> status])
      BY <1>2, <1>3, Zenon
    <3> QED
      BY <1>1, <1>3, <1>5, <1>6, <1>9, <2>2, <3>1, <3>2, RefusedByVisit
  <2> QED
    BY <1>1, <1>6, <2>3, EndedKeeps, Visited
<1> QED
  BY <1>7, <1>8, <1>9, <1>3

\* A tab goes on: it keeps its types and what is known of its time.
LEMMA TabGoesOn ==
  ASSUME PricesTyped, headless, UNCHANGED <<headless, shop, jar, measured, visits, forgotten>>,
         visiting # None, visiting' \in Samples, TabInv'
  PROVE  PricesInv'
<1>1. visiting'.step # "url"
  BY DEF TabInv
<1>2. SampleInv'
  BY <1>1 DEF SampleInv
<1> QED
  BY <1>2, NothingIsSaid DEF PricesTyped, PricesInv

\* A tab on its way.
LEMMA TheTab ==
  ASSUME PricesInv, Tab
  PROVE  /\ PricesTyped /\ headless /\ visiting # None /\ visiting \in Samples /\ TabInv
         /\ visiting.left \in Nat /\ visiting.left <= TabTimeout /\ visiting.budget \in Int
         /\ shop.page \in Pages /\ Reserve \in Nat /\ TabTimeout \in Nat
<1>1. PricesTyped /\ headless /\ visiting # None /\ visiting \in Samples /\ TabInv
  BY DEF Tab, PricesInv, PricesTyped, SampleInv
<1>2. visiting.left \in 0..TabTimeout /\ visiting.budget \in Int
  BY <1>1 DEF Samples
<1>3. shop.page \in Pages
  BY <1>1 DEF PricesTyped
<1> QED
  BY <1>1, <1>2, <1>3, PricesAssumption

LEMMA NavigateKeeps ==
  ASSUME PricesInv, Navigate
  PROVE  PricesInv'
<1>1. Tab /\ UNCHANGED <<headless, shop, jar, measured, visits, forgotten>>
  BY DEF Navigate
<1>2. PICK shown \in (IF shop.guard = "challenge" THEN Challenges ELSE {shop.page}) :
        visiting' = [visiting EXCEPT !.step = "loaded", !.tab = shown]
  BY DEF Navigate
<1>3. shown \in Pages \cup Challenges \cup {None}
  BY <1>1, <1>2, TheTab
<1>4. visiting' \in Samples /\ visiting'.step = "loaded"
  <2>1. visiting \in Samples /\ "loaded" \in FetchSteps
    BY <1>1, TheTab DEF FetchSteps
  <2> QED
    BY <1>2, <1>3, <2>1 DEF Samples
<1>5. TabInv'
  BY <1>4 DEF TabInv
<1> QED
  BY <1>1, <1>4, <1>5, TheTab, TabGoesOn

LEMMA DetectChallengeKeeps ==
  ASSUME PricesInv, DetectChallenge
  PROVE  PricesInv'
<1>1. Tab /\ UNCHANGED <<headless, shop, jar, measured, visits, forgotten>> /\ visiting.step = "loaded"
  BY DEF DetectChallenge
<1>2. CASE visiting.tab \in Challenges /\ visiting' = [visiting EXCEPT !.step = "waiting",
                                             !.budget = Max({Reserve, visiting.left - Reserve})]
  <2>1. PICK left : left = visiting.left
    OBVIOUS
  <2>2. left \in Nat /\ Reserve \in Nat
    BY <1>1, <2>1, TheTab
  <2>3. PICK budget : budget = Max({Reserve, left - Reserve})
    OBVIOUS
  <2>4. \E x \in {Reserve, left - Reserve} : \A y \in {Reserve, left - Reserve} : x >= y
    BY <2>2
  <2>5. budget \in {Reserve, left - Reserve} /\ budget >= left - Reserve
    BY <2>3, <2>4 DEF Max
  <2>6. budget \in Int /\ left - budget <= Reserve
    BY <2>2, <2>5
  <2>7. visiting' \in Samples /\ visiting'.step = "waiting" /\ visiting'.budget = budget /\ visiting'.left = left
    <3>1. visiting \in Samples /\ "waiting" \in FetchSteps
      BY <1>1, TheTab DEF FetchSteps
    <3>2. visiting' = [visiting EXCEPT !.step = "waiting", !.budget = budget]
      BY <1>2, <2>1, <2>3
    <3> QED
      BY <2>1, <2>6, <3>1, <3>2 DEF Samples
  <2>8. TabInv'
    BY <2>6, <2>7 DEF TabInv
  <2> QED
    BY <1>1, <2>7, <2>8, TheTab, TabGoesOn
<1>3. CASE /\ visiting.tab \notin Challenges /\ visiting.left > 0
           /\ visiting' = [visiting EXCEPT !.step = "settled", !.left = @ - 1]
  <2>1. PICK left : left = visiting.left - 1
    OBVIOUS
  <2>2. left \in 0..TabTimeout
    BY <1>1, <1>3, <2>1, TheTab
  <2>3. visiting' \in Samples /\ visiting'.step = "settled" /\ visiting'.tab = visiting.tab
    <3>1. visiting \in Samples /\ "settled" \in FetchSteps
      BY <1>1, TheTab DEF FetchSteps
    <3>2. visiting' = [visiting EXCEPT !.step = "settled", !.left = left]
      BY <1>3, <2>1
    <3> QED
      BY <2>2, <3>1, <3>2 DEF Samples
  <2>4. TabInv'
    BY <1>3, <2>3 DEF TabInv
  <2> QED
    BY <1>1, <2>3, <2>4, TheTab, TabGoesOn
<1> QED
  BY <1>2, <1>3 DEF DetectChallenge

LEMMA ChallengeEndsKeeps ==
  ASSUME PricesInv, ChallengeEnds
  PROVE  PricesInv'
<1>1. Tab /\ UNCHANGED <<headless, shop, jar, measured, visits, forgotten>> /\ visiting.step = "waiting"
  BY DEF ChallengeEnds
<1>2. visiting \in Samples /\ visiting.left - visiting.budget <= Reserve
  BY <1>1, TheTab DEF TabInv
<1>3. CASE visiting' = [visiting EXCEPT !.step = "renewed", !.tab = shop.page]
  <2>1. PICK page : page = shop.page
    OBVIOUS
  <2>2. page \in Pages /\ page \notin Challenges
    <3>1. page \in Pages
      BY <1>1, <2>1, TheTab
    <3> QED
      BY <3>1, PricesAssumption
  <2>3. visiting' \in Samples /\ visiting'.step = "renewed" /\ visiting'.tab = page
    <3>1. "renewed" \in FetchSteps
      BY DEF FetchSteps
    <3> QED
      BY <1>2, <1>3, <2>1, <2>2, <3>1 DEF Samples
  <2>4. TabInv'
    BY <2>2, <2>3 DEF TabInv
  <2> QED
    BY <1>1, <2>3, <2>4, TheTab, TabGoesOn
<1>4. CASE visiting' = [visiting EXCEPT !.cookie = TRUE]
  <2>1. /\ visiting' \in Samples /\ visiting'.step = "waiting"
        /\ visiting'.left = visiting.left /\ visiting'.budget = visiting.budget
    BY <1>1, <1>2, <1>4 DEF Samples
  <2>2. TabInv'
    BY <1>2, <2>1 DEF TabInv
  <2> QED
    BY <1>1, <2>1, <2>2, TheTab, TabGoesOn
<1>5. CASE visiting.budget = 0 /\ visiting' = [visiting EXCEPT !.step = "renewed"]
  <2>1. visiting' \in Samples /\ visiting'.step = "renewed" /\ visiting'.left = visiting.left
    <3>1. "renewed" \in FetchSteps
      BY DEF FetchSteps
    <3> QED
      BY <1>2, <1>5, <3>1 DEF Samples
  <2>2. visiting.left <= Reserve
    BY <1>1, <1>2, <1>5, TheTab
  <2>3. TabInv'
    BY <2>1, <2>2 DEF TabInv
  <2> QED
    BY <1>1, <2>1, <2>3, TheTab, TabGoesOn
<1> QED
  BY <1>3, <1>4, <1>5 DEF ChallengeEnds

LEMMA NavigateAgainKeeps ==
  ASSUME PricesInv, NavigateAgain
  PROVE  PricesInv'
<1>1. /\ Tab /\ UNCHANGED <<headless, shop, jar, measured, visits, forgotten>> /\ visiting.step = "renewed"
      /\ visiting' = [visiting EXCEPT !.step = "settled",
                        !.tab = IF @ = "servicepipe" /\ visiting.cookie THEN shop.page ELSE @]
  BY DEF NavigateAgain
<1>2. PICK tab : tab = IF visiting.tab = "servicepipe" /\ visiting.cookie THEN shop.page ELSE visiting.tab
  OBVIOUS
<1>3. visiting' = [visiting EXCEPT !.step = "settled", !.tab = tab]
  BY <1>1, <1>2, Zenon
<1>4. shop.page \in Pages /\ shop.page \notin Challenges
  <2>1. shop.page \in Pages
    BY <1>1, TheTab
  <2> QED
    BY <2>1, PricesAssumption
<1>5. tab \in Pages \cup Challenges \cup {None} /\ (tab \in Challenges => tab = visiting.tab)
  <2>1. visiting.tab \in Pages \cup Challenges \cup {None}
    BY <1>1, TheTab DEF Samples
  <2> QED
    BY <1>2, <1>4, <2>1
<1>6. /\ visiting' \in Samples /\ visiting'.step = "settled" /\ visiting'.tab = tab
      /\ visiting'.left = visiting.left
  <2>1. visiting \in Samples /\ "settled" \in FetchSteps
    BY <1>1, TheTab DEF FetchSteps
  <2> QED
    BY <1>3, <1>5, <2>1 DEF Samples
<1>7. TabInv'
  <2>1. visiting.tab \in Challenges => visiting.left <= Reserve
    BY <1>1, TheTab DEF TabInv
  <2> QED
    BY <1>5, <1>6, <2>1 DEF TabInv
<1> QED
  BY <1>1, <1>6, <1>7, TheTab, TabGoesOn

LEMMA ReadTabKeeps ==
  ASSUME PricesInv, ReadTab
  PROVE  PricesInv'
<1>1. /\ Tab /\ visiting.step = "settled" /\ Measured(visiting.tab)
      /\ UNCHANGED <<headless, shop, jar, visits, forgotten>>
  BY DEF ReadTab
<1>2. PICK tab : tab = visiting.tab
  OBVIOUS
<1>3. tab \in Challenges => visiting.left <= Reserve
  BY <1>1, <1>2, TheTab DEF TabInv
<1>4. SampleIsHonest' /\ visiting' = None
  BY <1>1, <1>2, <1>3, MeasuredIsTrue
<1>5. visits' \in Seq(Visits) /\ PricesTyped
  BY <1>1, TheTab DEF PricesTyped
<1> QED
  BY <1>1, <1>4, <1>5, EndedKeeps

LEMMA TabTimeKeeps ==
  ASSUME PricesInv, TabTime
  PROVE  PricesInv'
<1>1. Tab /\ UNCHANGED <<headless, shop, jar, visits, forgotten>>
  BY DEF TabTime
<1>2. CASE /\ visiting.left > 0
           /\ visiting' = [visiting EXCEPT !.left = @ - 1,
                             !.budget = IF visiting.step = "waiting" THEN @ - 1 ELSE @]
           /\ UNCHANGED measured
  <2>1. PICK left : left = visiting.left - 1
    OBVIOUS
  <2>2. PICK budget : budget = IF visiting.step = "waiting" THEN visiting.budget - 1 ELSE visiting.budget
    OBVIOUS
  <2>3. /\ left \in 0..TabTimeout /\ budget \in Int /\ Reserve \in Nat
        /\ visiting.left \in Nat /\ visiting.budget \in Int
    BY <1>1, <1>2, <2>1, <2>2, TheTab
  <2>4. visiting' = [visiting EXCEPT !.left = left, !.budget = budget]
    BY <1>2, <2>1, <2>2, Zenon
  <2>5. /\ visiting' \in Samples /\ visiting'.step = visiting.step /\ visiting'.tab = visiting.tab
        /\ visiting'.left = left /\ visiting'.budget = budget
    <3>1. visiting \in Samples
      BY <1>1, TheTab
    <3> QED
      BY <2>3, <2>4, <3>1 DEF Samples
  <2>6. /\ visiting.step \in {"page", "loaded", "waiting", "renewed", "settled"}
        /\ visiting.step = "waiting" => visiting.left - visiting.budget <= Reserve
        /\ visiting.step \in {"renewed", "settled"} /\ visiting.tab \in Challenges => visiting.left <= Reserve
    BY <1>1, TheTab DEF TabInv
  <2>7. left <= visiting.left /\ (visiting.step = "waiting" => left - budget = visiting.left - visiting.budget)
    BY <2>1, <2>2, <2>3
  <2>8. visiting.left <= Reserve => left <= Reserve
    BY <2>3, <2>7
  <2>9. TabInv'
    BY <2>5, <2>6, <2>7, <2>8 DEF TabInv
  <2> QED
    BY <1>1, <1>2, <2>5, <2>9, TheTab, TabGoesOn
<1>3. CASE Ends(FALSE, 0, "none", None)
  <2>1. Fails("none")
    BY <1>3, EndsInFailure, Zenon
  <2>2. headless /\ PricesTyped /\ visits' \in Seq(Visits)
    BY <1>1, TheTab DEF PricesTyped
  <2>3. SampleIsHonest' /\ visiting' = None
    BY <1>1, <2>1, <2>2, FailedTabIsHonest
  <2> QED
    BY <1>1, <2>2, <2>3, EndedKeeps
<1> QED
  BY <1>2, <1>3, Zenon DEF TabTime

LEMMA PricesStutters ==
  ASSUME PricesInv, UNCHANGED priceVars
  PROVE  PricesInv'
BY DEF priceVars, PricesInv, PricesTyped, SampleInv, UrlInv, PlainInv, TabInv, WarmedUp, Greeted, SampleIsHonest, PriceIsTrue,
       RefusalIsDue, ChallengeIsWaitedOut, Samples

LEMMA PricesBegin ==
  ASSUME PricesInit
  PROVE  PricesInv
<1>1. /\ headless \in Headless /\ headless \in BOOLEAN /\ shop \in [guard : Guards, page : Pages]
      /\ jar = FALSE /\ visiting = None /\ measured = None /\ visits = <<>> /\ forgotten = FALSE
  BY PricesAssumption DEF PricesInit
<1>2. <<>> \in Seq(Visits)
  OBVIOUS
<1>3. PricesTyped
  BY <1>1, <1>2 DEF PricesTyped
<1> QED
  BY <1>1, <1>3 DEF PricesInv, SampleInv, SampleIsHonest, PriceIsTrue, RefusalIsDue, ChallengeIsWaitedOut

LEMMA PricesStep ==
  ASSUME PricesInv, [PricesNext]_priceVars
  PROVE  PricesInv'
BY ShopChangesKeeps, BeginSampleKeeps, validateURLKeeps, CancelSampleKeeps, NetworkFailsKeeps, warmSessionKeeps, fetchBodyKeeps, CookieExpiresKeeps,
   NavigateKeeps, DetectChallengeKeeps, ChallengeEndsKeeps, NavigateAgainKeeps, ReadTabKeeps, TabTimeKeeps,
   PricesStutters, Zenon DEF PricesNext

LEMMA PricesAlways == PricesSpec => []PricesInv
<1>1. PricesInit => PricesInv
  BY PricesBegin
<1>2. PricesInv /\ [PricesNext]_priceVars => PricesInv'
  BY PricesStep
<1> QED
  BY <1>1, <1>2, PTL DEF PricesSpec

\* For every shop, guard and pages: a reported price is printed by a page this sample
\* was shown, as a price of its product, in the first place that prints one; a refusal
\* is due; and a challenge is read as a page only when the time for it is over
\* (provider.go's extractPrice, validateURL, fetchBody, fetchHeadless).
THEOREM SamplesAreHonest == PricesSpec => []SampleIsHonest
<1>1. PricesInv => SampleIsHonest
  BY DEF PricesInv
<1> QED
  BY <1>1, PricesAlways, PTL

\* A sample is in one of the steps of the fetch, never tries more often than it may
\* and never has more time than the tab.
THEOREM SamplesAreTyped == PricesSpec => []PricesTypeOK
<1>1. PricesInv => PricesTypeOK
  <2>1. SUFFICES ASSUME PricesTyped PROVE PricesTypeOK
    BY DEF PricesInv
  <2>2. shop.guard \in Guards /\ shop.page \in Pages
    BY <2>1 DEF PricesTyped
  <2>3. visiting # None => visiting.step \in FetchSteps /\ visiting.attempt \in 1..maxFetchAttempts
                           /\ visiting.left \in 0..TabTimeout
    BY <2>1 DEF PricesTyped, Samples
  <2> QED
    BY <2>1, <2>2, <2>3 DEF PricesTyped, PricesTypeOK
<1> QED
  BY <1>1, PricesAlways, PTL
=============================================================================
