------------------------------- MODULE Rates -------------------------------
(***************************************************************************)
(* The exchange-rate provider that a process shares between the watcher's   *)
(* goroutines: answers are kept for the TTL of their kind, and whoever      *)
(* finds none asks the source, two at a time too.  A source's rate is known *)
(* by the moment it is of; the source may answer with anything.             *)
(***************************************************************************)
EXTENDS Integers

CONSTANTS
  NoRate,
  Askers,
  Queries,           \* [asset, base, quote, metric]
  CurrencyCodes, CoinIDs,
  fiatCacheTTL, cryptoCacheTTL, RequestTimeout, MaxMoment

\* An hour, twenty seconds, and the client's timeout: an answer that is stored
\* is kept for a while.
ASSUME RatesAssumption ==
  /\ {fiatCacheTTL, cryptoCacheTTL} \subseteq Nat \ {0}
  /\ {RequestTimeout, MaxMoment} \subseteq Nat

VARIABLES
  moment,
  cache,             \* for each query: [asOf, expiresAt], or NoRate
  asking,            \* for each asker: [query, since], or NoRate
  sampled            \* the last answer: [query, asOf, at], or "error", or NoRate

rateVars == <<moment, cache, asking, sampled>>

RatesTypeOK ==
  /\ moment \in 0..MaxMoment
  /\ \A q \in Queries : cache[q] # NoRate => cache[q].asOf <= moment
  /\ \A a \in Askers : asking[a] # NoRate => asking[a].query \in Queries /\ asking[a].since <= moment

RatesInit ==
  /\ moment = 0 /\ cache = [q \in Queries |-> NoRate]
  /\ asking = [a \in Askers |-> NoRate] /\ sampled = NoRate

TTL(q) == IF q.asset = "fiat" THEN fiatCacheTTL ELSE cryptoCacheTTL

\* A query that names no kind, metric or pair there is gets no request.
supported(q) ==
  \/ /\ q.asset = "fiat" /\ q.metric = "rate"
     /\ {q.base, q.quote} \subseteq CurrencyCodes /\ q.base # q.quote
  \/ /\ q.asset = "crypto" /\ q.metric \in {"rate", "change_24h"}
     /\ q.base \in CoinIDs /\ q.quote \in CurrencyCodes

\* Mutant: an answer is still good at its expiry.
keptAtExpiry(q) == cache[q] # NoRate /\ moment <= cache[q].expiresAt
\* An answer is good up to, not at, its expiry.
kept(q) == cache[q] # NoRate /\ moment < cache[q].expiresAt

Cached ==
  /\ \E a \in Askers, q \in Queries :
       /\ asking[a] = NoRate /\ kept(q)
       /\ sampled' = [query |-> q, asOf |-> cache[q].asOf, at |-> moment]
  /\ UNCHANGED <<moment, cache, asking>>

\* An expired answer is dropped by the one that finds it.
Ask ==
  /\ \E a \in Askers, q \in Queries :
       /\ asking[a] = NoRate /\ ~kept(q)
       /\ cache' = [cache EXCEPT ![q] = NoRate]
       /\ IF supported(q) THEN asking' = [asking EXCEPT ![a] = [query |-> q, since |-> moment]] /\ UNCHANGED sampled
          ELSE sampled' = [error |-> TRUE] /\ UNCHANGED asking
  /\ UNCHANGED moment

storeCached(q, asOf) ==
  cache' = [cache EXCEPT ![q] = [asOf |-> asOf, expiresAt |-> moment + TTL(q)]]

\* The rate is of a moment while the request was under way; it is stored whatever
\* another asker has stored since.
Reply ==
  /\ \E a \in Askers :
       /\ asking[a] # NoRate /\ moment <= asking[a].since + RequestTimeout
       /\ \E asOf \in asking[a].since..moment :
            /\ storeCached(asking[a].query, asOf)
            /\ sampled' = [query |-> asking[a].query, asOf |-> asOf, at |-> moment]
       /\ asking' = [asking EXCEPT ![a] = NoRate]
  /\ UNCHANGED moment

\* No reply, another status, an unreadable one, a pair or metric it lacks, a rate
\* that is not positive or does not fit: nothing is stored.
ReplyFails ==
  /\ \E a \in Askers :
       asking[a] # NoRate /\ asking' = [asking EXCEPT ![a] = NoRate]
  /\ sampled' = [error |-> TRUE]
  /\ UNCHANGED <<moment, cache>>

RatesPass ==
  /\ moment < MaxMoment
  /\ \A a \in Askers : asking[a] # NoRate => moment < asking[a].since + RequestTimeout
  /\ moment' = moment + 1
  /\ UNCHANGED <<cache, asking, sampled>>

RatesNext == Cached \/ Ask \/ Reply \/ ReplyFails \/ RatesPass
RatesSpec == RatesInit /\ [][RatesNext]_rateVars

\* No threshold is judged by a rate older than its TTL and a request, however the
\* askers' replies overlap, and only by one of the pair that was asked for.
RateIsRecent ==
  sampled # NoRate /\ "query" \in DOMAIN sampled =>
    /\ supported(sampled.query)
    /\ sampled.at - sampled.asOf < TTL(sampled.query) + RequestTimeout
=============================================================================
