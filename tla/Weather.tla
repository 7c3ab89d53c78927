------------------------------ MODULE Weather ------------------------------
(***************************************************************************)
(* The weather provider: a place is looked up once and remembered, then the *)
(* forecast is asked for as many days as the query needs, and read.  The    *)
(* clock is read anew before the request, when the day is chosen and when   *)
(* the hours still ahead are, so midnight or the end of a night may fall    *)
(* between any two of them.  Time is what the clock of the place shows, in  *)
(* half-hours; the forecast has a temperature for each full hour it shows.  *)
(* A day on which that clock is put forward is an hour shorter, and one on  *)
(* which it is put back an hour longer.                                     *)
(***************************************************************************)
EXTENDS Nothing, Integers, FiniteSets, Sequences, FiniteSetsExt

CONSTANTS
  DayHours, NightEnds,    \* 24 and 6 in the code, where a night's hours are 0..5
  Places, Known,           \* names the bot is asked about, those the geocoder knows
  Unhyphenated,           \* the fallback of a name, None when it has no hyphen
  maxCachedLocations, MaxForecastDays,
  ShortDays, LongDays,    \* of 23 and of 25 hours
  RainyDays, Temperature, \* the weather that comes: days, and a function of hours
  WeatherQueries,         \* [name, kind, day, date, condition, period]
  MaxHalfHour

dayOf(t) == t \div (2 * DayHours)
hourOf(t) == (t % (2 * DayHours)) \div 2
FullHour(day, hour) == 2 * (day * DayHours + hour)
\* What a forecast may have to tell: as far as the service offers from the last day.
Offered == {FullHour(d, h) : d \in 0..dayOf(MaxHalfHour) + MaxForecastDays, h \in 0..DayHours - 1}

ASSUME WeatherAssumption ==
  /\ DayHours \in Nat /\ NightEnds \in 1..DayHours
  /\ maxCachedLocations \in Nat \ {0} /\ MaxForecastDays \in Nat \ {0, 1} /\ MaxHalfHour \in Nat
  /\ ShortDays \subseteq Int /\ LongDays \subseteq Int
  /\ \A h \in Offered : Temperature[h] \in Int
  /\ None \notin Int
  /\ WeatherQueries \subseteq
       [name : Places, kind : {"metric", "event"}, day : {"today", "tomorrow", "next_night", "date"},
        date : Int, condition : {"", "rain"}, period : {"", "night"}]

VARIABLES
  time,
  locations,              \* names whose place is remembered
  request,                \* the query on its way, or None
  forecast                \* what the last request came to, or None

weatherVars == <<time, locations, request, forecast>>

Stages == {"place", "forecast", "reply", "day", "value"}

WeatherTypeOK ==
  /\ time \in 0..MaxHalfHour
  /\ locations \subseteq Places /\ Cardinality(locations) <= maxCachedLocations
  /\ request # None => request.query \in WeatherQueries /\ request.step \in Stages /\ request.since <= time

WeatherInit ==
  /\ time = 0 /\ locations = {} /\ request = None /\ forecast = None

BeginRequest ==
  /\ request = None
  /\ \E q \in WeatherQueries :
       request' = [query |-> q, step |-> "place", since |-> time, days |-> 0, from |-> 0, day |-> 0]
  /\ forecast' = None
  /\ UNCHANGED <<time, locations>>

Fail(why) ==
  /\ forecast' = [ok |-> FALSE, why |-> why, query |-> request.query, since |-> request.since, at |-> time]
  /\ request' = None

Forecast(value, events) ==
  /\ forecast' = [ok |-> TRUE, query |-> request.query, since |-> request.since, at |-> time,
                  day |-> request.day, value |-> value, events |-> events]
  /\ request' = None

\* The name as it is and, when that finds nothing, without its hyphens.
geocoded(name) == name \in Known \/ (Unhyphenated[name] # None /\ Unhyphenated[name] \in Known)

\* Mutant: the cache is never emptied.
rememberedAlways(name) == locations \cup {name}
\* A full cache is emptied before the name goes in.
remembered(name) ==
  (IF Cardinality(locations) >= maxCachedLocations THEN {} ELSE locations) \cup {name}

resolveLocation ==
  /\ request # None /\ request.step = "place"
  /\ LET name == request.query.name IN
     \/ /\ name \in locations
        /\ request' = [request EXCEPT !.step = "forecast"] /\ UNCHANGED <<locations, forecast>>
     \/ /\ name \notin locations /\ geocoded(name)
        /\ locations' = remembered(name)
        /\ request' = [request EXCEPT !.step = "forecast"] /\ UNCHANGED forecast
     \/ /\ name \notin locations /\ ~geocoded(name)
        /\ Fail("place") /\ UNCHANGED locations
  /\ UNCHANGED time

targetDate(q) ==
  CASE q.day = "today" -> dayOf(time)
    [] q.day = "tomorrow" -> dayOf(time) + 1
    [] q.day = "next_night" -> IF hourOf(time) >= NightEnds THEN dayOf(time) + 1 ELSE dayOf(time)
    [] q.day = "date" -> q.date

\* The hours that pass from the beginning of one day to that of another.
Passes(from, to) ==
  LET between == from..to - 1
  IN (to - from) * DayHours + Cardinality(LongDays \cap between) - Cardinality(ShortDays \cap between)

\* From today to the day asked for, within what the service offers: whole days of
\* 24 hours that pass until it begins, so one too few when one of them is short.
forecastDays(q) ==
  LET days == Passes(dayOf(time), targetDate(q)) \div DayHours + 1
  IN Min({MaxForecastDays, Max({1, days})})

fetchForecast ==
  /\ request # None /\ request.step = "forecast"
  /\ request' = [request EXCEPT !.step = "reply", !.days = forecastDays(request.query)]
  /\ UNCHANGED <<time, locations, forecast>>

\* The service counts the days from its own today.
ForecastReply ==
  /\ request # None /\ request.step = "reply"
  /\ request' = [request EXCEPT !.step = "day", !.from = dayOf(time)]
  /\ UNCHANGED <<time, locations, forecast>>

\* Either service answers with an error, too much, or nothing that can be read.
ServiceFails ==
  /\ request # None
  /\ request.step = "reply" \/ (request.step = "place" /\ request.query.name \notin locations)
  /\ Fail("service")
  /\ UNCHANGED <<time, locations>>

ChooseDay ==
  /\ request # None /\ request.step = "day"
  /\ request' = [request EXCEPT !.step = "value", !.day = targetDate(request.query)]
  /\ UNCHANGED <<time, locations, forecast>>

Covered == request.day \in request.from..request.from + request.days - 1

DailyMin(day) == Min({Temperature[FullHour(day, h)] : h \in 0..DayHours - 1})

\* Mutant: the hours that are over count too.
nightWhole == {h \in 0..NightEnds - 1 : Covered}
\* Of a night, only the hours of the chosen day that are not over when this is read.
nightAhead == {h \in 0..NightEnds - 1 : Covered /\ FullHour(request.day, h) >= time}

temperatureForPeriod ==
  IF request.query.period = "night"
  THEN IF nightAhead = {} THEN None
       ELSE Min({Temperature[FullHour(request.day, h)] : h \in nightAhead})
  ELSE IF Covered THEN DailyMin(request.day) ELSE None

Sample ==
  /\ request # None /\ request.step = "value" /\ request.query.kind = "metric"
  /\ IF temperatureForPeriod = None THEN Fail("unavailable") ELSE Forecast(temperatureForPeriod, {})
  /\ UNCHANGED <<time, locations>>

\* One event of the day, none when rain was asked about and none is forecast.
LookupEvent ==
  /\ request # None /\ request.step = "value" /\ request.query.kind = "event"
  /\ IF ~Covered THEN Fail("unavailable")
     ELSE Forecast(None, IF request.query.condition = "rain" /\ request.day \notin RainyDays
                         THEN {} ELSE {request.day})
  /\ UNCHANGED <<time, locations>>

\* One half-hour may pass at any point of a request, which its timeout ends before two.
WeatherPass ==
  /\ time < MaxHalfHour
  /\ request # None => time = request.since
  /\ time' = time + 1
  /\ UNCHANGED <<locations, request, forecast>>

WeatherNext ==
  \/ BeginRequest \/ resolveLocation \/ fetchForecast \/ ForecastReply \/ ServiceFails
  \/ ChooseDay \/ Sample \/ LookupEvent \/ WeatherPass

WeatherSpec == WeatherInit /\ [][WeatherNext]_weatherVars

Nights == {FullHour(d, h) : d \in 0..(MaxHalfHour \div (2 * DayHours)) + 1, h \in 0..NightEnds - 1}

\* An alert about the coming night is judged by the coldest of the hours of the
\* nearest night that are still ahead, whatever boundary passes during the request.
NightIsAhead ==
  forecast # None /\ forecast.ok /\ forecast.query.kind = "metric"
  /\ forecast.query.period = "night" /\ forecast.query.day = "next_night" =>
    LET nearest == Min({h \in Nights : h >= forecast.at})
        ahead == {h \in Nights : h >= forecast.at /\ dayOf(h) = dayOf(nearest)}
    IN forecast.value = Min({Temperature[h] : h \in ahead})

\* A forecast for a known place is refused only when a service failed, a boundary
\* passed during the request, the day asked for is none the service offers or
\* comes after one of 23 hours that is not over, or in the rest of a night's last
\* hour, when it has no full hour left.
ForecastIsThere ==
  forecast # None /\ ~forecast.ok /\ forecast.why = "unavailable" =>
    \/ dayOf(forecast.since) # dayOf(forecast.at)
    \/ hourOf(forecast.since) < NightEnds /\ hourOf(forecast.at) >= NightEnds
    \/ forecast.query.day = "date" /\ forecast.query.date - dayOf(forecast.at) \notin 0..MaxForecastDays - 1
    \/ dayOf(forecast.at) \in ShortDays /\ forecast.query.day = "tomorrow"
    \/ /\ dayOf(forecast.at) \in ShortDays
       /\ forecast.query.day = "next_night" /\ hourOf(forecast.at) >= NightEnds
    \/ /\ forecast.query.day = "date"
       /\ ShortDays \cap dayOf(forecast.at)..forecast.query.date - 1 # {}
    \/ /\ forecast.query.period = "night" /\ forecast.query.day # "tomorrow"
       /\ forecast.query.day = "date" => forecast.query.date = dayOf(forecast.at)
       /\ \A h \in 0..NightEnds - 1 : FullHour(dayOf(forecast.at), h) < forecast.at
       /\ forecast.query.day = "next_night" => hourOf(forecast.at) < NightEnds

\* A forecast that is given is of the day the words meant while it was asked for,
\* and speaks of rain exactly when it will rain.
DayIsMeant ==
  forecast # None /\ forecast.ok /\ forecast.query.kind = "event" =>
    /\ forecast.events \subseteq {forecast.day}
    /\ forecast.events = {} <=> forecast.query.condition = "rain" /\ forecast.day \notin RainyDays
    /\ forecast.query.day = "today" => forecast.day \in {dayOf(forecast.since), dayOf(forecast.at)}
    /\ forecast.query.day = "tomorrow" => forecast.day - 1 \in {dayOf(forecast.since), dayOf(forecast.at)}

ForecastFits == NightIsAhead /\ ForecastIsThere /\ DayIsMeant
=============================================================================
