------------------------------ MODULE Outside ------------------------------
(***************************************************************************)
(* What the bot reads from outside, each by a part that shares no variable  *)
(* with another; a behavior is one of the part it starts with.              *)
(***************************************************************************)
EXTENDS ProgrammeGuide, LanguageModel, Rates, Requests, TvGuide, Weather, Prices, NewsFeed

VARIABLE part

outsideVars ==
  <<part, guideVars, callVars, requestVars, tvVars, rateVars, weatherVars, priceVars, newsVars>>

\* A text that no pattern finds anything in.
PlainText ==
  [rate |-> None, words |-> {}, limit |-> None, city |-> None, urls |-> <<>>, time |-> None, count |-> 0,
   every |-> None, onceIn |-> None, show |-> None, repeat |-> None, price |-> None, once |-> None]
Parts == {"guide", "model", "requests", "tv", "rates", "weather", "prices", "news"}

OutsideInit ==
  /\ part \in Parts
  /\ GuideInit /\ CallInit /\ TvInit /\ RatesInit /\ WeatherInit
  /\ IF part = "requests" THEN RequestInit
     ELSE /\ text = PlainText /\ hour = 0 /\ turn = 1 /\ best = Empty /\ parsed = None
  /\ PricesInit /\ (part = "prices" \/ (~headless /\ shop = [guard |-> "open", page |-> "product"]))
  /\ NewsInit /\ (part = "news" \/ ~ranker)

OutsideNext ==
  \/ part = "guide" /\ GuideNext
     /\ UNCHANGED <<part, callVars, requestVars, tvVars, rateVars, weatherVars, priceVars, newsVars>>
  \/ part = "model" /\ CallNext
     /\ UNCHANGED <<part, guideVars, requestVars, tvVars, rateVars, weatherVars, priceVars, newsVars>>
  \/ part = "requests" /\ RequestNext
     /\ UNCHANGED <<part, guideVars, callVars, tvVars, rateVars, weatherVars, priceVars, newsVars>>
  \/ part = "tv" /\ TvNext
     /\ UNCHANGED <<part, guideVars, callVars, requestVars, rateVars, weatherVars, priceVars, newsVars>>
  \/ part = "rates" /\ RatesNext
     /\ UNCHANGED <<part, guideVars, callVars, requestVars, tvVars, weatherVars, priceVars, newsVars>>
  \/ part = "weather" /\ WeatherNext
     /\ UNCHANGED <<part, guideVars, callVars, requestVars, tvVars, rateVars, priceVars, newsVars>>
  \/ part = "prices" /\ PricesNext
     /\ UNCHANGED <<part, guideVars, callVars, requestVars, tvVars, rateVars, weatherVars, newsVars>>
  \/ part = "news" /\ NewsNext
     /\ UNCHANGED <<part, guideVars, callVars, requestVars, tvVars, rateVars, weatherVars, priceVars>>

OutsideSpec == OutsideInit /\ [][OutsideNext]_outsideVars

\* Every variable of every part has its type.
OutsideTypeOK ==
  /\ GuideTypeOK /\ CallTypeOK /\ RequestTypeOK /\ TvTypeOK /\ RatesTypeOK
  /\ WeatherTypeOK /\ PricesTypeOK /\ NewsTypeOK
=============================================================================
