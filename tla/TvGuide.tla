------------------------------ MODULE TvGuide ------------------------------
(***************************************************************************)
(* The EPG Service provider, used when no guide file is configured: every   *)
(* lookup asks the service for the weeks its window touches, with a channel *)
(* list that is kept for channelIndexTTL.  The service publishes its weeks  *)
(* one by one; a week that is missing is no error, any other failure is.    *)
(* Week boundaries are the service's: its clock is Zone ahead of ours.      *)
(***************************************************************************)
EXTENDS Nothing, Integers, Sequences, FiniteSets, SequencesExt

CONSTANTS
  Broadcasts,        \* of the channel: [at, title]
  Wanted,            \* titles that match the query
  Week, Zone, Lookahead, channelIndexTTL,
  ListedFrom,        \* when the channel enters the service's index
  MaxClock

\* Lookup returns before it asks for anything when its window is empty.
ASSUME TvAssumption ==
  /\ IsFiniteSet(Broadcasts) /\ \A b \in Broadcasts : b.at \in Int
  /\ Week \in Nat \ {0} /\ Zone \in Nat /\ Lookahead \in Nat \ {0}
  /\ channelIndexTTL \in Nat /\ ListedFrom \in Nat /\ MaxClock \in Nat

VARIABLES
  clock,
  published,         \* when each week was, None if not yet
  index,             \* when the kept channel list was fetched, None at first
  lookup,            \* [from, to, todo, result, resolved], or None
  answer             \* of the last lookup: [ok, from, to, events]

tvVars == <<clock, published, index, lookup, answer>>

serviceWeek(at) == (at + Zone) \div Week
Weeks == {serviceWeek(b.at) : b \in Broadcasts}
\* The file of a week carries what runs over its end, with the next one.
Schedule(week) == {b \in Broadcasts : week \in {serviceWeek(b.at), serviceWeek(b.at - 1)}}

TvTypeOK ==
  /\ clock \in 0..MaxClock
  /\ published \in [Weeks -> {None} \cup 0..clock]
  /\ index \in {None} \cup 0..clock
  /\ lookup # None => lookup.from \in 0..clock /\ lookup.result \subseteq Broadcasts

TvInit ==
  /\ clock = 0 /\ published = [w \in Weeks |-> None]
  /\ index = None /\ lookup = None /\ answer = None

Publish ==
  /\ \E w \in Weeks : published[w] = None /\ published' = [published EXCEPT ![w] = clock]
  /\ UNCHANGED <<clock, index, lookup, answer>>

\* Mutant: the window's first week only.
weekOfStart(from, to) == <<from \div Week>>
weeksInRange(from, to) ==
  LET first == from \div Week
      count == ((to - 1) \div Week) - first + 1
  IN [i \in 1..count |-> first + i - 1]

BeginLookup ==
  /\ lookup = None
  /\ lookup' = [from |-> clock, to |-> clock + Lookahead, resolved |-> FALSE, result |-> {},
                todo |-> weeksInRange(clock, clock + Lookahead)]
  /\ answer' = None
  /\ UNCHANGED <<clock, published, index>>

End(ok, events) ==
  /\ answer' = [ok |-> ok, from |-> lookup.from, to |-> lookup.to, events |-> events]
  /\ lookup' = None

\* channelIndex: the list that is kept, while it is young, or the service's.
youngIndex == index # None /\ clock - index < channelIndexTTL
resolveChannel ==
  /\ lookup # None /\ ~lookup.resolved
  /\ \E asOf \in IF youngIndex THEN {index} ELSE {clock} :
       /\ index' = asOf
       /\ IF asOf >= ListedFrom THEN lookup' = [lookup EXCEPT !.resolved = TRUE] /\ UNCHANGED answer
          ELSE End(TRUE, <<>>)
  /\ UNCHANGED <<clock, published>>

Asking == lookup # None /\ lookup.resolved /\ lookup.todo # <<>>

\* Of a week those that match and are in the window; seen leaves one of each identity
\* (channel, time and title).
Matching(broadcasts) ==
  {b \in broadcasts : b.title \in Wanted /\ lookup.from <= b.at /\ b.at < lookup.to}

\* A week not published yet is a 404.
FetchWeek ==
  /\ Asking
  /\ LET w == Head(lookup.todo)
         there == w \in Weeks /\ published[w] # None
     IN lookup' = [lookup EXCEPT !.todo = Tail(@),
                     !.result = @ \cup (IF there THEN Matching(Schedule(w)) ELSE {})]
  /\ UNCHANGED <<clock, published, index, answer>>

\* The index or a week cannot be fetched or decoded: all of the lookup fails.
RequestFails ==
  /\ lookup # None /\ (Asking \/ (~lookup.resolved /\ ~youngIndex))
  /\ End(FALSE, <<>>)
  /\ UNCHANGED <<clock, published, index>>

\* sort.Slice is not stable: those that begin together come in any order.
inOrder(broadcasts) ==
  {events \in SetToSeqs(broadcasts) :
     \A i, j \in DOMAIN events : i < j => events[i].at <= events[j].at}
Finish ==
  /\ lookup # None /\ lookup.resolved /\ lookup.todo = <<>>
  /\ \E events \in inOrder(lookup.result) : End(TRUE, events)
  /\ UNCHANGED <<clock, published, index>>

TvPass ==
  /\ clock < MaxClock /\ clock' = clock + 1
  /\ UNCHANGED <<published, index, lookup, answer>>

TvNext ==
  \/ Publish \/ BeginLookup \/ resolveChannel \/ FetchWeek \/ RequestFails \/ Finish \/ TvPass

TvSpec == TvInit /\ [][TvNext]_tvVars

\* A lookup that succeeds has every broadcast it was asked for, once and in order,
\* whose week the service had by then; only what the service dates into the week
\* after the window's last may be missing, for the next lookup to find.
PublishedBefore(b, time) ==
  LET w == serviceWeek(b.at) IN published[w] # None /\ published[w] < time
WindowIsComplete ==
  answer # None /\ answer.ok =>
    LET got == Range(answer.events)
        asked == {b \in Broadcasts : b.title \in Wanted /\ answer.from <= b.at /\ b.at < answer.to}
    IN /\ got \subseteq asked /\ IsInjective(answer.events)
       /\ \A i, j \in DOMAIN answer.events : i < j => answer.events[i].at <= answer.events[j].at
       /\ answer.from >= ListedFrom + channelIndexTTL =>
            \A b \in asked : PublishedBefore(b, answer.from) /\ b.at < answer.to - Zone => b \in got
=============================================================================
