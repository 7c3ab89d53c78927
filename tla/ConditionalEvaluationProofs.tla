-------------------- MODULE ConditionalEvaluationProofs --------------------
(***************************************************************************)
(* For every set of reminder specifications, any number of watchers, runs  *)
(* and failures: the types and all the safety properties of                *)
(* ConditionalEvaluation.                                                  *)
(***************************************************************************)
EXTENDS ConditionalEvaluation, FiniteSetTheorems, SequenceTheorems, TLAPS

-----------------------------------------------------------------------------
(***************************************************************************)
(* The inductive invariant.                                                *)
(***************************************************************************)

Entries(s) == {s[i] : i \in DOMAIN s}
Carried(p) == Entries(plan[p])
InFlight(p) == pc[p] \in {"last", "save"}

\* Every variable has its type, and only who announces has a plan.
ClockTyped ==
  /\ now \in Times /\ spec \in Specs
  /\ due \in Nat /\ lockedBy \in Watchers \cup {NoOne}
  /\ runs \in 0..MaxRuns /\ faults \in 0..MaxFaults

RecordsTyped ==
  /\ observations \subseteq Observation /\ \A o \in observations : o.at <= now
  /\ queue \subseteq Notification /\ told \subseteq Notification /\ lost \subseteq Notification
  /\ samples \in Seq(SavedSample)
  /\ expected \subseteq Times

WorkTyped ==
  /\ pc \in [Evaluators -> Stages]
  /\ sample \in [Evaluators -> Sample \cup {NoObservation}]
  /\ \A p \in Evaluators : InFlight(p) => sample[p] \in Sample
  /\ plan \in [Evaluators -> Seq(Notification)]
  /\ \A p \in Evaluators : pc[p] # "announce" => plan[p] = <<>>
  /\ failed \in [Evaluators -> BOOLEAN]

Typed == ClockTyped /\ RecordsTyped /\ WorkTyped

\* Observations are told apart by their times, those still to be stored too,
\* and one of them is the newest.
TimesDiffer ==
  /\ \A o, x \in observations : o.at = x.at => o = x
  /\ \A p \in Evaluators : InFlight(p) =>
       /\ 0 < sample[p].at /\ sample[p].at <= now
       /\ \A o \in observations : o.at # sample[p].at
       /\ \A q \in Evaluators \ {p} : InFlight(q) => sample[q].at # sample[p].at
  /\ observations = {} \/ \E o \in observations : \A x \in observations : x.at <= o.at

\* Without an overlap, the one sample under comparison was taken last, and is
\* compared with the newest observation.
SampleIsFresh ==
  /\ \A p \in Evaluators : InFlight(p) => spec.trigger = "threshold" /\ ValidSpec(spec)
  /\ ~overlapped =>
       /\ \A p, q \in Evaluators : InFlight(p) /\ InFlight(q) => p = q
       /\ \A t \in expected : t <= now
       /\ \A p \in Evaluators : InFlight(p) =>
            /\ sample[p].at = now
            /\ \A t \in expected : t < now
            /\ pc[p] = "save" => sample[p].prev = Newest

\* Without an overlap, the newest observation holds all that the rules ask of
\* the samples and notifications so far: the last value, whether the
\* condition held, and the last notification.
StateIsEnough ==
  spec.trigger = "threshold" /\ ValidSpec(spec) /\ ~overlapped =>
    LET n == Len(samples)
        last == lastTriggered(Newest)
    IN
    /\ observations = {} <=> n = 0
    /\ n > 0 =>
         /\ Newest.at = samples[n].at /\ Newest.value = samples[n].value
         /\ ~eventLike(Cond) => (previousMatched(Cond, Newest) <=> Holds(samples, n))
    /\ IF expected = {} THEN last = NoTime
       ELSE last \in expected /\ \A t \in expected : t <= last

\* Without an overlap, what a threshold announces, has announced or lost is
\* what was to be announced; a notification's key tells its time.
Known == queue \cup told \cup lost \cup UNION {Carried(p) : p \in Evaluators}

AllIsAccounted ==
  /\ \A n \in Known : n.key[1] = "condition" => n.key = ConditionKey(n.at)
  /\ spec.trigger = "threshold" /\ ~overlapped => expected = Of("condition", Known)

\* A message of a news digest belongs to an edition, and its key to its place
\* in it; what is queued was planned by a watcher.
NewsHasEdition(n, e) == n.at = e.at /\ n.key = NewsKey(e.at, n.part - 1)

NewsIsOfEditions ==
  /\ \A e \in editions : e.at \in Times /\ e.size \in Nat /\ e.by \in Evaluators
  /\ \A w \in Watchers : \A n \in queue \cup Carried(w) :
       n.key[1] = "rss_digest" \/ n.part # 0 =>
         n.part \in Nat /\ \E e \in editions : e.by # Bot /\ NewsHasEdition(n, e)

\* A travel digest is queued once for each of its times: before it is queued
\* the due time stands for it, afterwards for the next one.
Digests == Of("digest", queue)
Queued(w) == pc[w] = "announce" /\ plan[w] = <<>> /\ ~failed[w]

DigestsAreCounted ==
  spec.trigger = "digest" =>
    /\ IsFiniteSet(Digests)
    /\ \A w \in Watchers : Len(plan[w]) <= 1
    /\ ~disturbed =>
         /\ \A v, w \in Watchers : ~At(v, "idle") /\ ~At(w, "idle") => v = w
         /\ \A w \in Watchers :
              /\ ~At(w, "idle") => due <= now
              /\ plan[w] # <<>> => ~failed[w]
         /\ due \div spec.period <= now \div spec.period + 1
         /\ Cardinality(Digests) <=
              due \div spec.period + IF \E w \in Watchers : Queued(w) THEN 1 ELSE 0

ConditionInv ==
  /\ Typed
  /\ TimesDiffer
  /\ SampleIsFresh
  /\ StateIsEnough
  /\ AllIsAccounted
  /\ NewsIsOfEditions
  /\ NewsIsWhole
  /\ DigestsAreCounted

-----------------------------------------------------------------------------
(***************************************************************************)
(* Lemmas about time, plans and observations.                              *)
(***************************************************************************)

\* Division by the length of a period or a day (NextCron, Day).
LEMMA DivisionFacts ==
  ASSUME NEW p \in Nat \ {0}, NEW a \in Nat
  PROVE  /\ a \div p \in Nat
         /\ a * p \in Nat
         /\ (a * p) \div p = a
         /\ \A b \in Nat : a <= b => a \div p <= b \div p
<1>1. a \div p \in Nat
  OBVIOUS
<1>2. a * p \in Nat
  OBVIOUS
<1>3. (a * p) \div p = a
  OBVIOUS
<1>4. ASSUME NEW b \in Nat, a <= b
      PROVE  a \div p <= b \div p
  BY <1>4
<1> QED
  BY <1>1, <1>2, <1>3, <1>4

\* Constants and evaluators.
LEMMA Facts ==
  /\ Watchers \subseteq Evaluators /\ Bot \in Evaluators /\ Bot \notin Watchers
  /\ \A t \in Times : t \in Nat
  /\ \A s \in Specs : s.period \in Nat \ {0}
  /\ DayLength \in Nat \ {0} /\ Keep \in Nat \ {0}
  /\ MaxTime \in Nat /\ MaxRuns \in Nat /\ MaxFaults \in Nat
  /\ Values \subseteq Int
BY EvaluationAssumption DEF Evaluators, Times, Values

\* Taking the head of a plan leaves the rest of what it carries.
LEMMA CarriedTail ==
  ASSUME NEW s \in Seq(Notification), s # <<>>
  PROVE  /\ Head(s) \in Notification /\ Tail(s) \in Seq(Notification)
         /\ Len(s) \in Nat /\ Len(Tail(s)) = Len(s) - 1
         /\ Entries(s) = {Head(s)} \cup Entries(Tail(s))
<1>1. Len(s) \in Nat \ {0} /\ DOMAIN s = 1..Len(s) /\ Head(s) = s[1]
  OBVIOUS
<1>2. /\ Tail(s) \in Seq(Notification)
      /\ Len(Tail(s)) = Len(s) - 1 /\ DOMAIN Tail(s) = 1..(Len(s) - 1)
      /\ \A i \in 1..(Len(s) - 1) : Tail(s)[i] = s[i + 1]
  OBVIOUS
<1>3. Head(s) \in Notification
  BY <1>1
<1>4. ASSUME NEW i \in DOMAIN s
      PROVE  s[i] = Head(s) \/ \E j \in DOMAIN Tail(s) : s[i] = Tail(s)[j]
  <2>1. CASE i = 1
    BY <1>1, <2>1
  <2>2. CASE i # 1
    <3>1. i - 1 \in 1..(Len(s) - 1) /\ (i - 1) + 1 = i
      BY <1>1, <2>2
    <3> QED
      BY <1>2, <3>1
  <2> QED
    BY <2>1, <2>2
<1>5. ASSUME NEW j \in DOMAIN Tail(s)
      PROVE  \E i \in DOMAIN s : Tail(s)[j] = s[i]
  <2>1. j + 1 \in DOMAIN s
    BY <1>1, <1>2
  <2> QED
    BY <1>2, <2>1
<1>6. Entries(s) = {Head(s)} \cup Entries(Tail(s))
  <2>1. 1 \in DOMAIN s /\ Head(s) = s[1]
    BY <1>1
  <2>2. ASSUME NEW x \in Entries(s)
        PROVE  x \in {Head(s)} \cup Entries(Tail(s))
    BY <1>4 DEF Entries
  <2>3. ASSUME NEW x \in {Head(s)} \cup Entries(Tail(s))
        PROVE  x \in Entries(s)
    BY <1>5, <2>1 DEF Entries
  <2> QED
    BY <2>2, <2>3
<1> QED
  BY <1>1, <1>2, <1>3, <1>6

\* An empty plan carries nothing, a plan of one notification that one.
LEMMA CarriedShort ==
  /\ Entries(<<>>) = {}
  /\ \A n : Entries(<<n>>) = {n}
BY DEF Entries

\* The observation that no other is newer than is the newest.
LEMMA NewestFacts ==
  ASSUME NEW O, NEW o \in O, \A x \in O : x.at <= o.at,
         \A x, y \in O : x.at = y.at => x = y, \A x \in O : x.at \in Int
  PROVE  (CHOOSE y \in O : \A x \in O : x.at <= y.at) = o
<1> DEFINE c == CHOOSE y \in O : \A x \in O : x.at <= y.at
<1>1. c \in O /\ \A x \in O : x.at <= c.at
  OBVIOUS
<1> HIDE DEF c
<1>2. c.at <= o.at /\ o.at <= c.at /\ c.at \in Int /\ o.at \in Int
  BY <1>1
<1> QED
  BY <1>1, <1>2 DEF c

-----------------------------------------------------------------------------
(***************************************************************************)
(* Types.                                                                  *)
(***************************************************************************)

\* The newest observation is one that was stored.
LEMMA NewestIsStored ==
  ASSUME TimesDiffer
  PROVE  /\ observations # {} => /\ Newest \in observations
                                 /\ \A x \in observations : x.at <= Newest.at
         /\ observations = {} => Newest = NoObservation
BY DEF TimesDiffer, Newest

\* A row of a condition has its type (history.Save).
LEMMA ObservedTyped ==
  ASSUME NEW c, NEW v \in Values, NEW t \in Times,
         NEW p \in Observation \cup {NoObservation}
  PROVE  observed(c, v, p, t) \in Observation
<1>1. conditionMatches(c, v, p) \in BOOLEAN
  BY DEF conditionMatches, compareMetric, percentAtLeast
<1>2. lastTriggered(p) \in Times \cup {NoTime}
  BY DEF lastTriggered, Observation
<1> QED
  BY <1>1, <1>2 DEF observed, Observation

\* Reading the clock moves it (ReadClock).
LEMMA ClockRead ==
  ASSUME Typed, NEW p \in Evaluators, ReadClock(p), UNCHANGED <<spec, row, bounds>>
  PROVE  /\ now \in Nat /\ now' = now + 1 /\ now + 1 \in Times
         /\ pc[p] = "evaluate" /\ plan[p] = <<>>
         /\ ClockTyped'
BY Facts DEF Typed, ClockTyped, WorkTyped, ReadClock, row, bounds, Times, At

\* An evaluator that goes on without sample and plan.
LEMMA WorkMoves ==
  ASSUME Typed, NEW p \in Evaluators, NEW stage \in Stages \ {"last", "save"},
         Goto(p, stage), UNCHANGED <<plan, failed>>,
         plan[p] = <<>>,
         sample' = sample \/ sample' = [sample EXCEPT ![p] = NoObservation]
  PROVE  WorkTyped'
BY DEF Typed, WorkTyped, Goto, InFlight

\* An evaluator that has planned.
LEMMA WorkPlanned ==
  ASSUME Typed, NEW p \in Evaluators, NEW notifications \in Seq(Notification),
         Planned(p, notifications),
         sample' = sample \/ sample' = [sample EXCEPT ![p] = NoObservation]
  PROVE  WorkTyped'
<1>1. pc' = [pc EXCEPT ![p] = "announce"] /\ "announce" \in Stages
  BY DEF Planned, Goto, Stages
<1>2. plan' = [plan EXCEPT ![p] = notifications] /\ failed' = [failed EXCEPT ![p] = FALSE]
  BY DEF Planned
<1> QED
  BY <1>1, <1>2 DEF Typed, WorkTyped, InFlight

\* What an evaluation plans is a sequence of notifications.
LEMMA PlansTyped ==
  ASSUME NEW t \in Times
  PROVE  /\ <<>> \in Seq(Notification)
         /\ <<[key |-> ConditionKey(t), at |-> t, part |-> 0]>> \in Seq(Notification)
         /\ <<[key |-> UnavailableKey(t), at |-> t, part |-> 0]>> \in Seq(Notification)
         /\ <<[key |-> DigestKey(t), at |-> t, part |-> 0]>> \in Seq(Notification)
         /\ \A n \in Sizes :
              [i \in 1..n |-> [key |-> NewsKey(t, i - 1), at |-> t, part |-> i]] \in Seq(Notification)
<1>1. Day(t) \in Times
  BY Facts DEF Day, Times
<1>2. /\ [key |-> ConditionKey(t), at |-> t, part |-> 0] \in Notification
      /\ [key |-> UnavailableKey(t), at |-> t, part |-> 0] \in Notification
      /\ [key |-> DigestKey(t), at |-> t, part |-> 0] \in Notification
  BY <1>1 DEF Notification, Key, ConditionKey, UnavailableKey, DigestKey
<1>3. ASSUME NEW n \in Sizes
      PROVE  [i \in 1..n |-> [key |-> NewsKey(t, i - 1), at |-> t, part |-> i]] \in Seq(Notification)
  <2>1. n \in Nat
    BY EvaluationAssumption
  <2>2. \A i \in 1..n : [key |-> NewsKey(t, i - 1), at |-> t, part |-> i] \in Notification
    BY <1>1, <2>1 DEF Notification, Key, NewsKey
  <2> QED
    BY <2>1, <2>2
<1> QED
  BY <1>2, <1>3

\* What a digest stores is an observation of the time it read.
LEMMA StoredIsTyped ==
  ASSUME Typed, now \in Nat, now' = now + 1, now + 1 \in Times, observations' = observations \/ StoreDigest
  PROVE  observations' \subseteq Observation /\ \A x \in observations' : x.at <= now'
<1> DEFINE o == [at |-> now + 1, value |-> 0, hasState |-> FALSE, matched |-> FALSE, last |-> NoTime]
<1>1. o \in Observation /\ o.at = now + 1
  BY DEF Observation, Values
<1>2. observations' \in {observations, observations \cup {o}}
  BY DEF StoreDigest
<1> HIDE DEF o
<1> QED
  BY <1>1, <1>2, Facts DEF Typed, RecordsTyped, Observation

\* The steps of an evaluation keep the types.
LEMMA EvaluatorStepTyped ==
  ASSUME Typed, TimesDiffer, NEW p \in Evaluators, EvaluatorStep(p)
  PROVE  Typed'
<1> USE DEF row, series, history, bounds
<1>1. CASE evaluateInvalid(p)
  <2> USE <1>1 DEF evaluateInvalid
  <2>1. ClockTyped' /\ now' = now + 1 /\ now \in Nat /\ plan[p] = <<>>
    BY ClockRead
  <2>2. WorkTyped'
    BY <2>1, WorkMoves DEF Errs, Stages
  <2>3. RecordsTyped'
    BY <2>1, Facts DEF Typed, RecordsTyped, Observation
  <2> QED
    BY <2>1, <2>2, <2>3 DEF Typed
<1>2. CASE evaluateThreshold(p)
  <2> USE <1>2 DEF evaluateThreshold
  <2>1. ClockTyped' /\ now' = now + 1 /\ now \in Nat /\ now + 1 \in Times /\ plan[p] = <<>>
    BY ClockRead
  <2>2. PICK m \in Sample : sample' = [sample EXCEPT ![p] = m]
    <3>1. spec.reads \subseteq Values
      BY DEF Values, Typed, ClockTyped
    <3> QED
      BY <2>1, <3>1 DEF Sample
  <2>3. WorkTyped'
    BY <2>1, <2>2 DEF Typed, WorkTyped, Goto, Stages, InFlight
  <2>4. RecordsTyped'
    BY <2>1, Facts DEF Typed, RecordsTyped, Observation
  <2> QED
    BY <2>1, <2>3, <2>4 DEF Typed
<1>3. CASE metricUnavailable(p)
  <2> USE <1>3 DEF metricUnavailable
  <2>1. ClockTyped' /\ now' = now + 1 /\ now \in Nat /\ now + 1 \in Times
    BY ClockRead
  <2>2. WorkTyped'
    BY <2>1, WorkPlanned, PlansTyped
  <2>3. RecordsTyped'
    BY <2>1, Facts DEF Typed, RecordsTyped, Observation
  <2> QED
    BY <2>1, <2>2, <2>3 DEF Typed
<1>4. CASE ReadLast(p)
  <2> USE <1>4 DEF ReadLast, At
  <2>1. Newest \in Observation \cup {NoObservation}
    BY NewestIsStored DEF Typed, RecordsTyped
  <2>2. [sample[p] EXCEPT !.prev = Newest] \in Sample
    BY <2>1 DEF Typed, WorkTyped, InFlight, Sample
  <2>3. WorkTyped'
    BY <2>2 DEF Typed, WorkTyped, Goto, Stages, InFlight
  <2>4. ClockTyped' /\ RecordsTyped'
    BY DEF Typed, ClockTyped, RecordsTyped
  <2> QED
    BY <2>3, <2>4 DEF Typed
<1>5. CASE SaveObservation(p)
  <2> DEFINE m == sample[p]
             o == observed(reminderCondition(spec), m.value, m.prev, m.at)
  <2> USE <1>5 DEF SaveObservation, At
  <2>1. m \in Sample /\ m.at \in Times /\ m.value \in Values /\ m.prev \in Observation \cup {NoObservation}
    BY DEF Typed, WorkTyped, InFlight, Sample
  <2>2. WorkTyped'
    BY <2>1, WorkPlanned, PlansTyped
  <2>3. ClockTyped'
    BY DEF Typed, ClockTyped
  <2>4. o \in Observation /\ o.at = m.at
    BY <2>1, ObservedTyped DEF observed
  <2>5. m.at <= now
    BY DEF TimesDiffer, InFlight
  <2>6. RecordsTyped'
    <3>1. samples' \in Seq(SavedSample)
      BY <2>1 DEF Typed, RecordsTyped, SavedSample
    <3>2. expected' \subseteq Times
      BY <2>1 DEF Typed, RecordsTyped
    <3>3. observations' = observations \cup {o} /\ UNCHANGED <<now, queue, told, lost>>
      OBVIOUS
    <3> HIDE DEF o, m
    <3> QED
      BY <2>4, <2>5, <3>1, <3>2, <3>3 DEF Typed, RecordsTyped
  <2> QED
    BY <2>2, <2>3, <2>6 DEF Typed
<1>6. CASE HistoryFails(p)
  <2> USE <1>6 DEF HistoryFails
  <2>1. ClockTyped'
    BY Facts DEF Typed, ClockTyped, Fault
  <2>2. plan[p] = <<>>
    BY DEF Typed, WorkTyped
  <2>3. WorkTyped'
    BY <2>2, WorkMoves DEF Errs, Stages
  <2>4. RecordsTyped'
    BY DEF Typed, RecordsTyped
  <2> QED
    BY <2>1, <2>3, <2>4 DEF Typed
<1>7. CASE evaluateDigest(p)
  <2> USE <1>7 DEF evaluateDigest
  <2>1. ClockTyped' /\ now' = now + 1 /\ now \in Nat /\ now + 1 \in Times /\ plan[p] = <<>>
    BY ClockRead
  <2>2. WorkTyped'
    <3>1. CASE \E notifications \in Seq(Notification) : Planned(p, notifications)
      BY <3>1, WorkPlanned
    <3>2. CASE Errs(p) /\ UNCHANGED <<plan, failed>>
      BY <2>1, <3>2, WorkMoves DEF Errs, Stages
    <3> QED
      BY <2>1, <3>1, <3>2, PlansTyped
  <2>3. RecordsTyped'
    BY <2>1, StoredIsTyped DEF Typed, RecordsTyped
  <2> QED
    BY <2>1, <2>2, <2>3 DEF Typed
<1>8. CASE evaluateNewsDigest(p)
  <2> USE <1>8 DEF evaluateNewsDigest
  <2>1. ClockTyped' /\ now' = now + 1 /\ now \in Nat /\ now + 1 \in Times /\ plan[p] = <<>>
    BY ClockRead
  <2>2. WorkTyped'
    <3>1. CASE \E notifications \in Seq(Notification) : Planned(p, notifications)
      BY <3>1, WorkPlanned
    <3>2. CASE Errs(p) /\ UNCHANGED <<plan, failed>>
      BY <2>1, <3>2, WorkMoves DEF Errs, Stages
    <3> QED
      BY <2>1, <3>1, <3>2, PlansTyped
  <2>3. RecordsTyped'
    BY <2>1, StoredIsTyped DEF Typed, RecordsTyped
  <2> QED
    BY <2>1, <2>2, <2>3 DEF Typed
<1> QED
  BY <1>1, <1>2, <1>3, <1>4, <1>5, <1>6, <1>7, <1>8 DEF EvaluatorStep

\* The steps of a watcher around its evaluations keep them.
LEMMA WatcherStepTyped ==
  ASSUME Typed, NEW w \in Watchers, WatcherStep(w)
  PROVE  Typed'
<1> USE Facts DEF Typed, row, evaluation, series, history, bounds, At, Goto
<1>1. CASE LeaseDue(w)
  BY <1>1 DEF LeaseDue, ClockTyped, RecordsTyped, WorkTyped, InFlight, Stages
<1>2. CASE Enqueue(w) \/ EnqueueFails(w)
  <2>1. pc[w] = "announce" /\ plan[w] # <<>> /\ plan' = [plan EXCEPT ![w] = Tail(@)]
    BY <1>2 DEF Enqueue, EnqueueFails
  <2>2. plan[w] \in Seq(Notification) /\ Tail(plan[w]) \in Seq(Notification) /\ Head(plan[w]) \in Notification
    BY <2>1, CarriedTail DEF WorkTyped
  <2>3. WorkTyped'
    <3>1. failed' \in [Evaluators -> BOOLEAN]
      <4>1. failed' \in {failed, [failed EXCEPT ![w] = TRUE]}
        BY <1>2 DEF Enqueue, EnqueueFails
      <4> QED
        BY <4>1 DEF WorkTyped
    <3>2. pc' = pc /\ sample' = sample
      BY <1>2 DEF Enqueue, EnqueueFails
    <3> QED
      BY <2>1, <2>2, <3>1, <3>2 DEF WorkTyped, InFlight
  <2>4. RecordsTyped'
    <3>1. CASE Enqueue(w)
      BY <2>2, <3>1 DEF Enqueue, Inserted, RecordsTyped
    <3>2. CASE EnqueueFails(w)
      BY <2>2, <3>2 DEF EnqueueFails, RecordsTyped
    <3> QED
      BY <1>2, <3>1, <3>2
  <2>5. ClockTyped'
    BY <1>2 DEF Enqueue, EnqueueFails, Fault, ClockTyped
  <2> QED
    BY <2>3, <2>4, <2>5
<1>3. CASE Advance(w) \/ scheduleRetry(w)
  <2>1. PICK t \in {now, NextCron(now)} : Reschedule(w, t)
    BY <1>3 DEF Advance, scheduleRetry
  <2>2. t \in Nat
    <3>1. now \in Nat /\ spec.period \in Nat \ {0}
      BY DEF ClockTyped
    <3>2. now \div spec.period \in Nat
      BY <3>1, DivisionFacts
    <3>3. now \div spec.period + 1 \in Nat
      BY <3>2
    <3>4. NextCron(now) \in Nat
      BY <3>1, <3>3, DivisionFacts DEF NextCron
    <3> QED
      BY <3>1, <3>4
  <2>3. plan[w] = <<>>
    BY <1>3 DEF Advance, scheduleRetry, WorkTyped
  <2>4. WorkTyped'
    BY <2>1, <2>3, WorkMoves DEF Reschedule, Stages
  <2> QED
    BY <2>1, <2>2, <2>4 DEF Reschedule, ClockTyped, RecordsTyped
<1>4. CASE RescheduleFails(w)
  <2> USE <1>4 DEF RescheduleFails
  <2>1. plan[w] = <<>>
    BY DEF WorkTyped
  <2>2. WorkTyped'
    BY <2>1, WorkMoves DEF Stages
  <2>3. ClockTyped' /\ RecordsTyped'
    BY DEF ClockTyped, RecordsTyped, Fault
  <2> QED
    BY <2>2, <2>3
<1>5. CASE Restart(w)
  <2> USE <1>5 DEF Restart
  <2>1. ClockTyped'
    BY DEF ClockTyped, Fault, MarkedDue
  <2>2. RecordsTyped'
    <3>1. \A i \in DOMAIN plan[w] : plan[w][i] \in Notification
      BY DEF WorkTyped
    <3> QED
      BY <3>1 DEF RecordsTyped
  <2>3. WorkTyped'
    BY DEF WorkTyped, InFlight, Stages
  <2> QED
    BY <2>1, <2>2, <2>3
<1> QED
  BY <1>1, <1>2, <1>3, <1>4, <1>5 DEF WatcherStep

\* So does everything else.
LEMMA OtherStepTyped ==
  ASSUME Typed, Tick \/ LeaseLapses \/ PruneObservations \/ runNow \/ Tell \/ UNCHANGED vars
  PROVE  Typed'
<1> USE Facts DEF Typed, row, evaluation, series, history, bounds, At, Goto
<1>1. CASE Tick \/ UNCHANGED vars
  <2>1. now \in Nat /\ now' \in Times /\ now <= now'
    BY <1>1 DEF Tick, vars, ClockTyped, Times
  <2>2. UNCHANGED <<spec, row, observations, queue, pc, evaluation, history, bounds>>
    BY <1>1 DEF Tick, vars
  <2>3. RecordsTyped'
    <3>1. \A o \in observations : o.at \in Nat
      BY DEF RecordsTyped, Observation
    <3> QED
      BY <2>1, <2>2, <3>1 DEF RecordsTyped
  <2> QED
    BY <2>1, <2>2, <2>3 DEF ClockTyped, WorkTyped, InFlight
<1>2. CASE LeaseLapses
  BY <1>2 DEF LeaseLapses, Fault, ClockTyped, RecordsTyped, WorkTyped, InFlight
<1>3. CASE PruneObservations
  BY <1>3 DEF PruneObservations, ClockTyped, RecordsTyped, WorkTyped, InFlight
<1>4. CASE runNow
  BY <1>4 DEF runNow, ClockTyped, RecordsTyped, WorkTyped, InFlight, Stages
<1>5. CASE Tell
  <2> USE <1>5 DEF Tell
  <2>1. ClockTyped'
    BY DEF ClockTyped, Fault
  <2>2. RecordsTyped'
    <3>1. \A i \in DOMAIN plan[Bot] : plan[Bot][i] \in Notification
      BY DEF WorkTyped
    <3> QED
      BY <3>1 DEF RecordsTyped
  <2>3. WorkTyped'
    BY DEF WorkTyped, InFlight, Stages
  <2> QED
    BY <2>1, <2>2, <2>3
<1> QED
  BY <1>1, <1>2, <1>3, <1>4, <1>5

-----------------------------------------------------------------------------
(***************************************************************************)
(* The times of the observations.                                          *)
(***************************************************************************)

\* The janitor keeps the newest observation (PruneObservations).
LEMMA NewestIsKept ==
  ASSUME Typed, TimesDiffer, PruneObservations
  PROVE  /\ observations # {} /\ observations' \subseteq observations
         /\ Newest \in observations' /\ Newest' = Newest
<1>1. observations # {} /\ observations' = {o \in observations : ~Prunable(o)}
  BY DEF PruneObservations
<1>2. Newest \in observations /\ \A x \in observations : x.at <= Newest.at
  BY <1>1, NewestIsStored
<1>3. \A x \in observations : x.at \in Int
  BY Facts DEF Typed, RecordsTyped, Observation
<1>4. ~Prunable(Newest)
  <2>1. {x \in observations : x.at > Newest.at} = {}
    BY <1>2, <1>3
  <2>2. Cardinality({x \in observations : x.at > Newest.at}) = 0
    BY <2>1, FS_EmptySet
  <2> QED
    BY <2>2, Facts DEF Prunable
<1>5. Newest \in observations'
  BY <1>1, <1>2, <1>4
<1>6. Newest' = CHOOSE y \in observations' : \A x \in observations' : x.at <= y.at
  BY <1>5 DEF Newest
<1>7. (CHOOSE y \in observations' : \A x \in observations' : x.at <= y.at) = Newest
  <2>1. \A x \in observations' : x.at <= Newest.at
    BY <1>1, <1>2
  <2>2. \A x, y \in observations' : x.at = y.at => x = y
    BY <1>1 DEF TimesDiffer
  <2>3. \A x \in observations' : x.at \in Int
    BY <1>1, <1>3
  <2> QED
    BY <1>5, <2>1, <2>2, <2>3, NewestFacts
<1> QED
  BY <1>1, <1>5, <1>6, <1>7

\* A step that stores nothing and takes no sample leaves the times apart.
LEMMA TimesStay ==
  ASSUME Typed, TimesDiffer, now \in Int, now' \in Int, now <= now', observations' = observations,
         \A q \in Evaluators : InFlight(q)' => InFlight(q) /\ sample'[q].at = sample[q].at
  PROVE  TimesDiffer'
<1>1. \A q \in Evaluators : InFlight(q)' => 0 < sample'[q].at /\ sample'[q].at <= now'
  <2>1. \A q \in Evaluators : InFlight(q) => sample[q].at \in Int /\ 0 < sample[q].at /\ sample[q].at <= now
    BY Facts DEF Typed, WorkTyped, TimesDiffer, Sample
  <2> QED
    BY <2>1
<1>2. \A q \in Evaluators : InFlight(q)' =>
        /\ \A o \in observations : o.at # sample'[q].at
        /\ \A r \in Evaluators \ {q} : InFlight(r)' => sample'[r].at # sample'[q].at
  BY DEF TimesDiffer
<1> QED
  BY <1>1, <1>2 DEF TimesDiffer

\* The steps of an evaluation keep the times apart.
LEMMA EvaluatorStepTimes ==
  ASSUME Typed, TimesDiffer, Typed', NEW p \in Evaluators, EvaluatorStep(p)
  PROVE  TimesDiffer'
<1> USE DEF row, series, history, bounds
<1>a. /\ now \in Nat /\ now' \in Nat
      /\ \A o \in observations : o.at \in Nat /\ o.at <= now
      /\ \A q \in Evaluators : InFlight(q) => sample[q].at \in Nat /\ sample[q].at <= now
  BY Facts DEF Typed, ClockTyped, RecordsTyped, WorkTyped, Observation, Sample, TimesDiffer
<1>1. CASE evaluateInvalid(p) \/ metricUnavailable(p)
  <2>1. now' = now + 1 /\ observations' = observations /\ sample' = sample
    BY <1>1 DEF evaluateInvalid, metricUnavailable, ReadClock
  <2>2. \E stage \in {"announce", "idle", "retry"} : Goto(p, stage)
    BY <1>1 DEF evaluateInvalid, metricUnavailable, Errs, Planned
  <2>3. \A q \in Evaluators : InFlight(q)' => InFlight(q)
    BY <2>2 DEF Goto, InFlight, Typed, WorkTyped
  <2> QED
    BY <1>a, <2>1, <2>3, TimesStay
<1>2. CASE evaluateThreshold(p)
  <2>1. now' = now + 1 /\ observations' = observations /\ pc' = [pc EXCEPT ![p] = "last"]
    BY <1>2 DEF evaluateThreshold, ReadClock, Goto
  <2>2. PICK v \in spec.reads :
          sample' = [sample EXCEPT ![p] = [at |-> now + 1, value |-> v, prev |-> NoObservation]]
    BY <1>2 DEF evaluateThreshold
  <2>3. \A q \in Evaluators \ {p} : /\ InFlight(q)' <=> InFlight(q)
                                    /\ sample'[q] = sample[q]
    BY <2>1, <2>2 DEF InFlight, Typed, WorkTyped
  <2>4. sample'[p].at = now + 1
    BY <2>2 DEF Typed, WorkTyped
  <2>5. \A q \in Evaluators : InFlight(q)' =>
          /\ 0 < sample'[q].at /\ sample'[q].at <= now'
          /\ \A o \in observations : o.at # sample'[q].at
    BY <1>a, <2>1, <2>3, <2>4 DEF TimesDiffer
  <2>6. \A q, r \in Evaluators : InFlight(q)' /\ InFlight(r)' /\ q # r => sample'[q].at # sample'[r].at
    BY <1>a, <2>3, <2>4 DEF TimesDiffer
  <2> QED
    BY <2>1, <2>5, <2>6 DEF TimesDiffer
<1>3. CASE ReadLast(p)
  <2>1. now' = now /\ observations' = observations
    BY <1>3 DEF ReadLast
  <2>2. \A q \in Evaluators : sample'[q].at = sample[q].at
    <3>1. sample[p] \in Sample
      BY <1>3 DEF ReadLast, At, InFlight, Typed, WorkTyped
    <3> QED
      BY <1>3, <3>1 DEF ReadLast, Typed, WorkTyped, Sample
  <2>3. \A q \in Evaluators : InFlight(q)' => InFlight(q)
    BY <1>3 DEF ReadLast, Goto, At, InFlight, Typed, WorkTyped
  <2> QED
    BY <1>a, <2>1, <2>2, <2>3, TimesStay
<1>4. CASE SaveObservation(p)
  <2> DEFINE m == sample[p]
             o == observed(reminderCondition(spec), m.value, m.prev, m.at)
  <2>1. /\ now' = now /\ observations' = observations \cup {o}
        /\ pc[p] = "save" /\ pc' = [pc EXCEPT ![p] = "announce"]
        /\ sample' = [sample EXCEPT ![p] = NoObservation]
    BY <1>4 DEF SaveObservation, Planned, Goto, At
  <2>2. o.at = m.at
    BY DEF observed
  <2>3. InFlight(p) /\ ~InFlight(p)'
        /\ \A q \in Evaluators \ {p} : /\ InFlight(q)' <=> InFlight(q)
                                       /\ sample'[q] = sample[q]
    BY <2>1 DEF InFlight, Typed, WorkTyped
  <2> HIDE DEF o
  <2>4. \A x, y \in observations' : x.at = y.at => x = y
    BY <2>1, <2>2, <2>3 DEF TimesDiffer
  <2>5. \A q \in Evaluators : InFlight(q)' =>
          /\ 0 < sample'[q].at /\ sample'[q].at <= now'
          /\ \A x \in observations' : x.at # sample'[q].at
          /\ \A r \in Evaluators \ {q} : InFlight(r)' => sample'[r].at # sample'[q].at
    BY <2>1, <2>2, <2>3 DEF TimesDiffer
  <2>6. \E y \in observations' : \A x \in observations' : x.at <= y.at
    <3>1. m.at \in Nat
      BY <1>a, <2>3
    <3>2. CASE observations = {} \/ \A x \in observations : x.at <= m.at
      BY <2>1, <2>2, <3>1, <3>2
    <3>3. CASE observations # {} /\ \E x \in observations : m.at < x.at
      <4>1. PICK y \in observations : \A x \in observations : x.at <= y.at
        BY <3>3 DEF TimesDiffer
      <4>2. o.at <= y.at
        BY <1>a, <2>2, <3>1, <3>3, <4>1
      <4> QED
        BY <2>1, <4>1, <4>2
    <3> QED
      BY <1>a, <3>1, <3>2, <3>3
  <2> QED
    BY <2>4, <2>5, <2>6 DEF TimesDiffer
<1>5. CASE HistoryFails(p)
  <2>1. now' = now /\ observations' = observations
        /\ sample' = [sample EXCEPT ![p] = NoObservation]
        /\ \E stage \in {"idle", "retry"} : Goto(p, stage)
    BY <1>5 DEF HistoryFails, Errs
  <2>2. \A q \in Evaluators : InFlight(q)' => InFlight(q) /\ sample'[q] = sample[q]
    BY <2>1 DEF Goto, InFlight, Typed, WorkTyped
  <2> QED
    BY <1>a, <2>1, <2>2, TimesStay
<1>6. CASE evaluateDigest(p) \/ evaluateNewsDigest(p)
  <2> DEFINE o == [at |-> now + 1, value |-> 0, hasState |-> FALSE, matched |-> FALSE, last |-> NoTime]
  <2>1. /\ now' = now + 1 /\ sample' = sample
        /\ observations' \in {observations, observations \cup {o}}
        /\ \E stage \in {"announce", "idle", "retry"} : Goto(p, stage)
    BY <1>6 DEF evaluateDigest, evaluateNewsDigest, StoreDigest, ReadClock, Errs, Planned
  <2>2. \A q \in Evaluators : InFlight(q)' => InFlight(q)
    BY <2>1 DEF Goto, InFlight, Typed, WorkTyped
  <2>3. o.at = now + 1
    OBVIOUS
  <2> HIDE DEF o
  <2>4. CASE observations' = observations
    BY <1>a, <2>1, <2>2, <2>4, TimesStay
  <2>5. CASE observations' = observations \cup {o}
    <3>1. \A x, y \in observations' : x.at = y.at => x = y
      BY <1>a, <2>3, <2>5 DEF TimesDiffer
    <3>2. \A q \in Evaluators : InFlight(q)' =>
            /\ 0 < sample'[q].at /\ sample'[q].at <= now'
            /\ \A x \in observations' : x.at # sample'[q].at
            /\ \A r \in Evaluators \ {q} : InFlight(r)' => sample'[r].at # sample'[q].at
      BY <1>a, <2>1, <2>2, <2>3, <2>5 DEF TimesDiffer
    <3>3. \A x \in observations' : x.at <= o.at
      BY <1>a, <2>3, <2>5
    <3> QED
      BY <2>5, <3>1, <3>2, <3>3 DEF TimesDiffer
  <2> QED
    BY <2>1, <2>4, <2>5
<1> QED
  BY <1>1, <1>2, <1>3, <1>4, <1>5, <1>6 DEF EvaluatorStep

\* Everything that is not a step of an evaluation (OtherStep).
OtherStep ==
  \/ Tick \/ LeaseLapses \/ PruneObservations \/ runNow \/ Tell \/ UNCHANGED vars
  \/ \E w \in Watchers : WatcherStep(w)

\* The other steps take no sample, and store none.
LEMMA OtherStepFrame ==
  ASSUME Typed, OtherStep
  PROVE  /\ UNCHANGED <<spec, samples, expected, editions, overlapped>>
         /\ PruneObservations \/ observations' = observations
         /\ now \in Nat /\ now' \in {now, now + 1}
         /\ now' # now => \A q \in Evaluators : ~InFlight(q)
         /\ \A q \in Evaluators : InFlight(q)' => /\ InFlight(q) /\ pc'[q] = pc[q]
                                                 /\ sample'[q] = sample[q]
<1> USE DEF row, evaluation, series, history, bounds, At, Goto
<1> USE DEF Tick, LeaseLapses, runNow, Tell, vars, WatcherStep, LeaseDue, Enqueue, EnqueueFails,
            Advance, scheduleRetry, Reschedule, RescheduleFails, Restart, OtherStep
<1>1. UNCHANGED <<spec, samples, expected, editions, overlapped>>
  BY DEF PruneObservations
<1>2. PruneObservations \/ observations' = observations
  OBVIOUS
<1>3. now \in Nat
  BY Facts DEF Typed, ClockTyped
<1>4. Tick \/ now' = now
  BY DEF PruneObservations
<1>5. \A q \in Evaluators : InFlight(q)' => InFlight(q) /\ pc'[q] = pc[q] /\ sample'[q] = sample[q]
  <2>1. CASE Tick \/ LeaseLapses \/ PruneObservations \/ UNCHANGED vars
    BY <2>1 DEF PruneObservations, InFlight
  <2>2. CASE runNow \/ Tell
    BY <2>2 DEF InFlight, Typed, WorkTyped
  <2>3. ASSUME NEW w \in Watchers, WatcherStep(w)
        PROVE  \A q \in Evaluators : InFlight(q)' => /\ InFlight(q) /\ pc'[q] = pc[q]
                                                    /\ sample'[q] = sample[q]
    <3>1. /\ pc' = pc \/ \E stage \in {"evaluate", "idle"} : pc' = [pc EXCEPT ![w] = stage]
          /\ sample' = sample \/ (sample' = [sample EXCEPT ![w] = NoObservation]
                                  /\ pc' = [pc EXCEPT ![w] = "idle"])
      BY <2>3
    <3> QED
      BY <3>1 DEF InFlight, Typed, WorkTyped
  <2> QED
    BY <2>1, <2>2, <2>3
<1> QED
  BY <1>1, <1>2, <1>3, <1>4, <1>5 DEF InFlight

\* The other steps keep the times apart too.
LEMMA OtherStepTimes ==
  ASSUME Typed, TimesDiffer, OtherStep
  PROVE  TimesDiffer'
<1>1. CASE PruneObservations
  <2>1. UNCHANGED <<now, pc, sample>>
    BY <1>1 DEF PruneObservations, evaluation
  <2>2. /\ observations' \subseteq observations
        /\ Newest \in observations' /\ \A x \in observations' : x.at <= Newest.at
    BY <1>1, NewestIsKept, NewestIsStored
  <2>3. \A q \in Evaluators : InFlight(q)' => InFlight(q)
    BY <2>1 DEF InFlight
  <2> QED
    BY <2>1, <2>2, <2>3 DEF TimesDiffer
<1>2. CASE ~PruneObservations
  BY <1>2, OtherStepFrame, TimesStay
<1> QED
  BY <1>1, <1>2

-----------------------------------------------------------------------------
(***************************************************************************)
(* The sample under comparison.                                            *)
(***************************************************************************)

\* A step that takes no sample and stores none leaves it fresh.
LEMMA FreshStays ==
  ASSUME SampleIsFresh, UNCHANGED <<now, spec, expected, overlapped>>, Newest' = Newest,
         \A q \in Evaluators : InFlight(q)' => /\ InFlight(q) /\ pc'[q] = pc[q]
                                              /\ sample'[q] = sample[q]
  PROVE  SampleIsFresh'
<1>1. \A q \in Evaluators : InFlight(q)' => spec'.trigger = "threshold" /\ ValidSpec(spec)'
  BY DEF SampleIsFresh, ValidSpec
<1> QED
  BY <1>1 DEF SampleIsFresh

\* While the clock is read, an evaluation alone at work knows of nobody else.
LEMMA ReadAlone ==
  ASSUME Typed, SampleIsFresh, NEW p \in Evaluators, ReadClock(p), ~overlapped', expected' = expected
  PROVE  /\ ~overlapped /\ ~InFlight(p)
         /\ \A q \in Evaluators : ~InFlight(q)
         /\ \A t \in expected' : t <= now' /\ t < now'
<1>1. ~overlapped /\ \A q \in Evaluators : ~InFlight(q)
  BY DEF ReadClock, At, InFlight
<1>2. now \in Nat /\ now' = now + 1 /\ \A t \in expected : t \in Nat
  BY Facts DEF Typed, ClockTyped, RecordsTyped, ReadClock
<1>3. \A t \in expected : t <= now
  BY <1>1 DEF SampleIsFresh
<1> QED
  BY <1>1, <1>2, <1>3

\* The steps of an evaluation keep it fresh.
LEMMA EvaluatorStepFresh ==
  ASSUME Typed, TimesDiffer, SampleIsFresh, Typed', NEW p \in Evaluators, EvaluatorStep(p)
  PROVE  SampleIsFresh'
<1> USE DEF row, series, history, bounds
<1>1. CASE evaluateInvalid(p) \/ metricUnavailable(p) \/ evaluateNewsDigest(p) \/ evaluateDigest(p)
  <2>1. ReadClock(p) /\ UNCHANGED <<sample, spec, expected>>
    BY <1>1 DEF evaluateInvalid, metricUnavailable, evaluateNewsDigest, evaluateDigest
  <2>2. \E stage \in {"announce", "idle", "retry"} : Goto(p, stage)
    BY <1>1 DEF evaluateInvalid, metricUnavailable, evaluateNewsDigest, evaluateDigest, Errs, Planned
  <2>3. \A q \in Evaluators : InFlight(q)' => InFlight(q)
    BY <2>2 DEF Goto, InFlight, Typed, WorkTyped
  <2>4. \A q \in Evaluators : InFlight(q)' => spec'.trigger = "threshold" /\ ValidSpec(spec)'
    BY <2>1, <2>3 DEF SampleIsFresh, ValidSpec
  <2>5. ~overlapped' => /\ \A q \in Evaluators : ~InFlight(q)'
                        /\ \A t \in expected' : t <= now'
    BY <2>1, <2>3, ReadAlone
  <2> QED
    BY <2>4, <2>5 DEF SampleIsFresh
<1>2. CASE evaluateThreshold(p)
  <2>1. ReadClock(p) /\ UNCHANGED <<spec, expected>> /\ pc' = [pc EXCEPT ![p] = "last"]
        /\ spec.trigger = "threshold" /\ ValidSpec(spec)
    BY <1>2 DEF evaluateThreshold, Goto
  <2>2. PICK v \in spec.reads :
          sample' = [sample EXCEPT ![p] = [at |-> now + 1, value |-> v, prev |-> NoObservation]]
    BY <1>2 DEF evaluateThreshold
  <2>3. sample'[p].at = now' /\ pc'[p] = "last"
    BY <2>1, <2>2 DEF ReadClock, Typed, WorkTyped
  <2>4. \A q \in Evaluators \ {p} : InFlight(q)' => InFlight(q)
    BY <2>1 DEF InFlight, Typed, WorkTyped
  <2>5. spec'.trigger = "threshold" /\ ValidSpec(spec)'
    BY <2>1 DEF ValidSpec
  <2>6. ~overlapped' => /\ \A q \in Evaluators : InFlight(q)' => q = p
                        /\ \A t \in expected' : t <= now' /\ t < now'
    BY <2>1, <2>4, ReadAlone
  <2> QED
    BY <2>3, <2>5, <2>6 DEF SampleIsFresh
<1>3. CASE ReadLast(p)
  <2>1. /\ UNCHANGED <<now, spec, observations, expected, overlapped>>
        /\ pc[p] = "last" /\ pc' = [pc EXCEPT ![p] = "save"]
        /\ sample' = [sample EXCEPT ![p].prev = Newest]
    BY <1>3 DEF ReadLast, Goto, At
  <2>2. InFlight(p) /\ sample[p] \in Sample
    BY <2>1 DEF InFlight, Typed, WorkTyped
  <2>3. sample'[p].at = sample[p].at /\ sample'[p].prev = Newest
    BY <2>1, <2>2 DEF Typed, WorkTyped, Sample
  <2>4. \A q \in Evaluators : /\ InFlight(q)' => InFlight(q)
                              /\ q # p => pc'[q] = pc[q] /\ sample'[q] = sample[q]
    BY <2>1, <2>2 DEF InFlight, Typed, WorkTyped
  <2>5. Newest' = Newest
    BY <2>1 DEF Newest
  <2>6. spec'.trigger = "threshold" /\ ValidSpec(spec)'
    BY <2>1, <2>2 DEF ValidSpec, SampleIsFresh
  <2> QED
    BY <2>1, <2>2, <2>3, <2>4, <2>5, <2>6 DEF SampleIsFresh
<1>4. CASE SaveObservation(p)
  <2>1. /\ UNCHANGED <<now, spec, overlapped>>
        /\ pc[p] = "save" /\ pc' = [pc EXCEPT ![p] = "announce"]
        /\ expected' \in {expected, expected \cup {sample[p].at}}
    BY <1>4 DEF SaveObservation, Planned, Goto, At
  <2>2. InFlight(p) /\ \A q \in Evaluators : InFlight(q)' => InFlight(q) /\ q # p
    BY <2>1 DEF InFlight, Typed, WorkTyped
  <2>3. \A q \in Evaluators : InFlight(q)' => spec'.trigger = "threshold" /\ ValidSpec(spec)'
    BY <2>1, <2>2 DEF ValidSpec, SampleIsFresh
  <2>4. ~overlapped => \A q \in Evaluators : ~InFlight(q)'
    BY <2>2 DEF SampleIsFresh
  <2>5. ~overlapped => \A t \in expected' : t <= now
    BY <2>1, <2>2 DEF SampleIsFresh, TimesDiffer
  <2> QED
    BY <2>1, <2>3, <2>4, <2>5 DEF SampleIsFresh
<1>5. CASE HistoryFails(p)
  <2>1. /\ UNCHANGED <<now, spec, observations, expected, overlapped>>
        /\ sample' = [sample EXCEPT ![p] = NoObservation]
        /\ \E stage \in {"idle", "retry"} : pc' = [pc EXCEPT ![p] = stage]
    BY <1>5 DEF HistoryFails, Errs, Goto
  <2>2. \A q \in Evaluators : InFlight(q)' => InFlight(q) /\ pc'[q] = pc[q] /\ sample'[q] = sample[q]
    BY <2>1 DEF InFlight, Typed, WorkTyped
  <2>3. Newest' = Newest
    BY <2>1 DEF Newest
  <2> QED
    BY <2>1, <2>2, <2>3, FreshStays
<1> QED
  BY <1>1, <1>2, <1>3, <1>4, <1>5 DEF EvaluatorStep

\* Only the janitor touches the observations in the other steps, and not the
\* newest.
LEMMA OtherStepNewest ==
  ASSUME Typed, TimesDiffer, OtherStep
  PROVE  Newest' = Newest /\ (observations' = {} <=> observations = {})
<1>1. CASE PruneObservations
  BY <1>1, NewestIsKept
<1>2. CASE observations' = observations
  BY <1>2 DEF Newest
<1> QED
  BY <1>1, <1>2, OtherStepFrame

\* The other steps keep the sample fresh.
LEMMA OtherStepFresh ==
  ASSUME Typed, TimesDiffer, SampleIsFresh, OtherStep
  PROVE  SampleIsFresh'
<1>1. CASE now' = now
  BY <1>1, OtherStepFrame, OtherStepNewest, FreshStays
<1>2. CASE now' # now
  <2>1. \A q \in Evaluators : ~InFlight(q)'
    BY <1>2, OtherStepFrame
  <2>2. now \in Nat /\ now' = now + 1 /\ UNCHANGED <<expected, overlapped>>
    BY <1>2, OtherStepFrame
  <2>3. \A t \in expected : t \in Nat
    BY Facts DEF Typed, RecordsTyped
  <2>4. ~overlapped' => \A t \in expected' : t <= now'
    BY <2>2, <2>3 DEF SampleIsFresh
  <2> QED
    BY <2>1, <2>4 DEF SampleIsFresh
<1> QED
  BY <1>1, <1>2

-----------------------------------------------------------------------------
(***************************************************************************)
(* What the newest observation holds.                                      *)
(***************************************************************************)

\* Of what was read before, a comparison asks whether it is there and its value.
LEMMA SameMatch ==
  ASSUME NEW c, NEW v, NEW p, NEW q,
         p = NoObservation <=> q = NoObservation,
         p # NoObservation => p.value = q.value
  PROVE  conditionMatches(c, v, p) <=> conditionMatches(c, v, q)
BY DEF conditionMatches

\* A later sample changes nothing about the earlier ones.
LEMMA PastHolds ==
  ASSUME samples \in Seq(SavedSample), NEW x \in SavedSample, NEW i \in 1..Len(samples)
  PROVE  /\ Append(samples, x)[i] = samples[i]
         /\ Holds(Append(samples, x), i) <=> Holds(samples, i)
<1>1. Append(samples, x)[i] = samples[i]
  OBVIOUS
<1>2. i # 1 => i - 1 \in 1..Len(samples)
  OBVIOUS
<1>3. i # 1 => Append(samples, x)[i - 1] = samples[i - 1]
  BY <1>2
<1> QED
  BY <1>1, <1>3 DEF Holds

\* The condition of a valid threshold has a cooldown.
LEMMA CooldownFacts ==
  ASSUME spec \in Specs, spec.trigger = "threshold", ValidSpec(spec)
  PROVE  Cond.cooldown \in Nat
<1>1. CASE spec.legacy
  BY <1>1 DEF Cond, reminderCondition
<1>2. CASE ~spec.legacy
  <2>1. Cond = spec.condition /\ spec.condition.cooldown \in Int /\ spec.condition.cooldown >= 0
    BY <1>2, EvaluationAssumption DEF Cond, reminderCondition, ValidSpec
  <2> QED
    BY <2>1
<1> QED
  BY <1>1, <1>2

\* The last notification is enough to know the cooldown of all of them.
LEMMA CooldownIsOfLast ==
  ASSUME NEW c, c.cooldown \in Nat, NEW t \in Times, NEW last, expected \subseteq Times,
         \A s \in expected : s < t,
         IF expected = {} THEN last = NoTime
         ELSE last \in expected /\ \A s \in expected : s <= last
  PROVE  cooldownElapsed(last, c, t) <=> \A s \in expected : t - s >= c.cooldown
<1>1. t \in Nat /\ \A s \in expected : s \in Nat
  BY Facts
<1>2. CASE expected = {}
  BY <1>2 DEF cooldownElapsed
<1>3. CASE expected # {}
  <2>1. last \in expected /\ \A s \in expected : s <= last
    BY <1>3
  <2>2. last # NoTime /\ last \in Nat /\ last < t
    BY <1>1, <2>1, EvaluationAssumption
  <2>3. cooldownElapsed(last, c, t) <=> c.cooldown = 0 \/ t >= last + c.cooldown
    BY <2>2 DEF cooldownElapsed
  <2>4. ASSUME c.cooldown = 0 \/ t >= last + c.cooldown, NEW s \in expected
        PROVE  t - s >= c.cooldown
    BY <1>1, <2>1, <2>2, <2>4
  <2>5. ASSUME \A s \in expected : t - s >= c.cooldown
        PROVE  t >= last + c.cooldown
    <3>1. t - last >= c.cooldown
      BY <2>1, <2>5
    <3> QED
      BY <1>1, <2>2, <3>1
  <2> QED
    BY <2>3, <2>4, <2>5
<1> QED
  BY <1>2, <1>3

\* What a comparison with the newest observation finds is what a comparison
\* with all samples so far would (evaluateThreshold).
LEMMA ComparesAlike ==
  ASSUME Typed, TimesDiffer, StateIsEnough, spec.trigger = "threshold", ValidSpec(spec), ~overlapped,
         NEW m \in Sample, m.prev = Newest, 0 < m.at, \A s \in expected : s < m.at
  PROVE  LET all == Append(samples, [at |-> m.at, value |-> m.value]) IN
         /\ Len(all) = Len(samples) + 1 /\ all[Len(all)] = [at |-> m.at, value |-> m.value]
         /\ all \in Seq(SavedSample)
         /\ Holds(all, Len(all)) <=> conditionMatches(Cond, m.value, m.prev)
         /\ notifies(Cond, m.value, m.prev, m.at) <=> Expects(all, expected)
<1> DEFINE x == [at |-> m.at, value |-> m.value]
           n == Len(samples)
           all == Append(samples, x)
<1>1. m.at \in Times /\ m.value \in Values /\ x \in SavedSample
  BY DEF Sample, SavedSample
<1>2. samples \in Seq(SavedSample) /\ n \in Nat
  BY DEF Typed, RecordsTyped
<1>3. Len(all) = n + 1 /\ all[n + 1] = x /\ all \in Seq(SavedSample)
  BY <1>1, <1>2
<1>4. n > 0 => /\ all[n] = samples[n] /\ samples[n] \in SavedSample
               /\ (Holds(all, n) <=> Holds(samples, n))
  BY <1>1, <1>2, PastHolds
<1>5. observations = {} <=> n = 0
  BY DEF StateIsEnough
<1>6. /\ n = 0 => m.prev = NoObservation
      /\ n > 0 => m.prev # NoObservation /\ m.prev.value = samples[n].value
  <2>1. n = 0 => m.prev = NoObservation
    BY <1>5, NewestIsStored
  <2>2. n > 0 => Newest \in Observation
    BY <1>5, NewestIsStored DEF Typed, RecordsTyped
  <2>3. n > 0 => Newest.value = samples[n].value
    BY DEF StateIsEnough
  <2> QED
    BY <2>1, <2>2, <2>3, ObservationAssumption
<1> HIDE DEF all
<1>7. Holds(all, n + 1) <=> conditionMatches(Cond, m.value, m.prev)
  <2> DEFINE q == IF n + 1 = 1 THEN NoObservation ELSE all[n]
  <2>1. /\ m.prev = NoObservation <=> q = NoObservation
        /\ m.prev # NoObservation => m.prev.value = q.value
    <3>1. CASE n = 0
      BY <1>6, <3>1
    <3>2. CASE n > 0
      BY <1>2, <1>4, <1>6, <3>2, ObservationAssumption DEF SavedSample
    <3> QED
      BY <1>2, <3>1, <3>2
  <2> HIDE DEF q
  <2>2. conditionMatches(Cond, m.value, m.prev) <=> conditionMatches(Cond, m.value, q)
    BY <2>1, SameMatch
  <2>3. Holds(all, n + 1) <=> conditionMatches(Cond, m.value, q)
    <3>1. all[n + 1].value = m.value /\ (n + 1) - 1 = n
      BY <1>2, <1>3
    <3> QED
      BY <3>1 DEF Holds, q
  <2> QED
    BY <2>2, <2>3
<1>8. ~eventLike(Cond) => (~previousMatched(Cond, m.prev) <=> n = 0 \/ ~Holds(all, n))
  <2>1. n > 0 /\ ~eventLike(Cond) => (previousMatched(Cond, m.prev) <=> Holds(samples, n))
    BY DEF StateIsEnough
  <2>2. n = 0 => ~previousMatched(Cond, m.prev)
    BY <1>6 DEF previousMatched
  <2> QED
    BY <1>2, <1>4, <2>1, <2>2
<1>9. cooldownElapsed(lastTriggered(m.prev), Cond, m.at) <=> \A s \in expected : m.at - s >= Cond.cooldown
  <2> DEFINE last == lastTriggered(m.prev)
  <2>1. Cond.cooldown \in Nat
    BY CooldownFacts DEF Typed, ClockTyped
  <2>2. IF expected = {} THEN last = NoTime
        ELSE last \in expected /\ \A s \in expected : s <= last
    BY DEF StateIsEnough
  <2>3. expected \subseteq Times
    BY DEF Typed, RecordsTyped
  <2> HIDE DEF last
  <2>4. cooldownElapsed(last, Cond, m.at) <=> \A s \in expected : m.at - s >= Cond.cooldown
    BY <1>1, <2>1, <2>2, <2>3, CooldownIsOfLast
  <2> QED
    BY <2>4 DEF last
<1>10. Deserves(all, n + 1) <=>
         /\ conditionMatches(Cond, m.value, m.prev)
         /\ eventLike(Cond) \/ ~Cond.edge \/ (m.prev # NoObservation /\ ~previousMatched(Cond, m.prev))
  <2>1. all[n + 1].at > 0
    BY <1>1, <1>3, Facts
  <2>2. n + 1 > 1 <=> m.prev # NoObservation
    BY <1>2, <1>6
  <2>3. (n + 1) - 1 = n
    BY <1>2
  <2> QED
    BY <1>2, <1>6, <1>7, <1>8, <2>1, <2>2, <2>3 DEF Deserves
<1>11. notifies(Cond, m.value, m.prev, m.at) <=> Expects(all, expected)
  <2>1. Expects(all, expected) <=> Deserves(all, n + 1) /\ \A s \in expected : m.at - s >= Cond.cooldown
    BY <1>3 DEF Expects
  <2>2. notifies(Cond, m.value, m.prev, m.at) <=>
          /\ conditionMatches(Cond, m.value, m.prev)
          /\ eventLike(Cond) \/ ~Cond.edge \/ (m.prev # NoObservation /\ ~previousMatched(Cond, m.prev))
          /\ cooldownElapsed(lastTriggered(m.prev), Cond, m.at)
    BY DEF notifies
  <2> QED
    BY <1>9, <1>10, <2>1, <2>2
<1> QED
  BY <1>3, <1>7, <1>11 DEF all

\* A step that stores no sample leaves it enough.
LEMMA EnoughStays ==
  ASSUME StateIsEnough, UNCHANGED <<spec, samples, expected>>, Newest' = Newest,
         observations' = {} <=> observations = {}, ~overlapped' => ~overlapped
  PROVE  StateIsEnough'
<1>1. Cond' = Cond /\ (ValidSpec(spec)' <=> ValidSpec(spec))
  BY DEF Cond, ValidSpec
<1>2. \A n \in Int : Holds(samples, n)' <=> Holds(samples, n)
  BY <1>1 DEF Holds
<1> QED
  BY <1>1, <1>2 DEF StateIsEnough, Holds

\* Storing a sample keeps it enough (SaveObservation).
LEMMA SaveKeepsEnough ==
  ASSUME Typed, TimesDiffer, SampleIsFresh, StateIsEnough, NEW p \in Evaluators, SaveObservation(p)
  PROVE  /\ StateIsEnough'
         /\ ~overlapped => (notifies(Cond, sample[p].value, sample[p].prev, sample[p].at)
                              <=> Expects(samples', expected))
<1> DEFINE m == sample[p]
           o == observed(Cond, m.value, m.prev, m.at)
           n == Len(samples)
<1>1. /\ observations' = observations \cup {o}
      /\ samples' = Append(samples, [at |-> m.at, value |-> m.value])
      /\ expected' = IF Expects(samples', expected) THEN expected \cup {m.at} ELSE expected
      /\ UNCHANGED <<now, spec, overlapped>>
      /\ pc[p] = "save"
  BY DEF SaveObservation, Cond, At
<1>2. /\ InFlight(p) /\ m \in Sample /\ 0 < m.at
      /\ \A x \in observations : x.at # m.at
      /\ spec.trigger = "threshold" /\ ValidSpec(spec)
  BY <1>1 DEF InFlight, Typed, WorkTyped, TimesDiffer, SampleIsFresh
<1>3. ASSUME ~overlapped
      PROVE  m.at = now /\ m.prev = Newest /\ \A s \in expected : s < m.at
  BY <1>1, <1>2, <1>3 DEF SampleIsFresh
<1>4. ASSUME ~overlapped
      PROVE  /\ Len(samples') = n + 1 /\ samples'[n + 1] = [at |-> m.at, value |-> m.value]
             /\ Holds(samples', n + 1) <=> conditionMatches(Cond, m.value, m.prev)
             /\ notifies(Cond, m.value, m.prev, m.at) <=> Expects(samples', expected)
  <2> HIDE DEF m
  <2>1. LET all == Append(samples, [at |-> m.at, value |-> m.value]) IN
         /\ Len(all) = Len(samples) + 1 /\ all[Len(all)] = [at |-> m.at, value |-> m.value]
         /\ all \in Seq(SavedSample)
         /\ Holds(all, Len(all)) <=> conditionMatches(Cond, m.value, m.prev)
         /\ notifies(Cond, m.value, m.prev, m.at) <=> Expects(all, expected)
    BY <1>2, <1>3, <1>4, ComparesAlike
  <2> QED
    BY <1>1, <2>1
<1>5. ASSUME ~overlapped
      PROVE  Newest' = o /\ observations' # {}
  <2>1. o.at = m.at
    BY DEF observed
  <2> HIDE DEF o
  <2>2. \A x \in observations' : x.at <= o.at
    BY <1>1, <1>2, <1>3, <1>5, <2>1, Facts DEF Typed, RecordsTyped, Sample
  <2>3. \A x, y \in observations' : x.at = y.at => x = y
    BY <1>1, <1>2, <2>1 DEF TimesDiffer
  <2>4. \A x \in observations' : x.at \in Int
    BY <1>1, <1>2, <2>1, Facts DEF Typed, RecordsTyped, Observation, Sample
  <2>5. (CHOOSE y \in observations' : \A x \in observations' : x.at <= y.at) = o
    BY <1>1, <2>2, <2>3, <2>4, NewestFacts
  <2> QED
    BY <1>1, <2>5 DEF Newest
<1>6. o # NoObservation
  <2>1. m.value \in Values /\ m.at \in Times /\ m.prev \in Observation \cup {NoObservation}
    BY <1>2 DEF Sample
  <2> QED
    BY <2>1, ObservedTyped, ObservationAssumption
<1>7. ASSUME ~overlapped
      PROVE  ~eventLike(Cond) => (previousMatched(Cond, o) <=> Holds(samples', n + 1))
  BY <1>4, <1>6, <1>7 DEF previousMatched, observed
<1>8. ASSUME ~overlapped
      PROVE  LET last == lastTriggered(o) IN
             IF expected' = {} THEN last = NoTime
             ELSE last \in expected' /\ \A t \in expected' : t <= last
  <2>1. lastTriggered(o) = IF Expects(samples', expected) THEN m.at ELSE lastTriggered(Newest)
    BY <1>3, <1>4, <1>6, <1>8 DEF lastTriggered, observed
  <2>2. LET last == lastTriggered(Newest) IN
        IF expected = {} THEN last = NoTime
        ELSE last \in expected /\ \A t \in expected : t <= last
    BY <1>2, <1>8 DEF StateIsEnough
  <2>3. m.at \in Nat /\ \A t \in expected : t \in Nat
    BY <1>2, Facts DEF Typed, RecordsTyped, Sample
  <2> HIDE DEF o, m
  <2>4. CASE Expects(samples', expected)
    BY <1>1, <1>3, <1>8, <2>1, <2>3, <2>4
  <2>5. CASE ~Expects(samples', expected)
    BY <1>1, <2>1, <2>2, <2>5
  <2> QED
    BY <2>4, <2>5
<1>9. o.at = m.at /\ o.value = m.value
  BY DEF observed
<1>10. n \in Nat
  BY DEF Typed, RecordsTyped
<1>11. Cond' = Cond
  BY <1>1 DEF Cond
<1>12. ASSUME ~overlapped
       PROVE  StateIsEnough'
  <2> HIDE DEF o, m, n
  <2>1. Len(samples') = n + 1 /\ n + 1 > 0 /\ n + 1 # 0
    BY <1>4, <1>10, <1>12
  <2>2. Newest' = o /\ observations' # {}
    BY <1>5, <1>12
  <2>3. Newest'.at = samples'[n + 1].at /\ Newest'.value = samples'[n + 1].value
    BY <1>4, <1>9, <1>12, <2>2
  <2>4. ~eventLike(Cond)' => (previousMatched(Cond, Newest)' <=> Holds(samples, Len(samples))')
    <3>1. eventLike(Cond)' <=> eventLike(Cond)
      BY <1>11
    <3>2. previousMatched(Cond, Newest)' <=> previousMatched(Cond, o)
      BY <1>11, <2>2
    <3>3. Holds(samples, Len(samples))' <=> Holds(samples', n + 1)
      BY <1>11, <2>1 DEF Holds
    <3> QED
      BY <1>7, <1>12, <3>1, <3>2, <3>3
  <2> QED
    <3>1. /\ Newest'.at = samples'[Len(samples')].at
          /\ Newest'.value = samples'[Len(samples')].value
      BY <2>1, <2>3
    <3>2. LET last == lastTriggered(Newest') IN
          IF expected' = {} THEN last = NoTime
          ELSE last \in expected' /\ \A t \in expected' : t <= last
      BY <1>8, <1>12, <2>2
    <3> QED
      BY <2>1, <2>2, <2>4, <3>1, <3>2 DEF StateIsEnough
<1>13. overlapped => StateIsEnough'
  BY <1>1 DEF StateIsEnough
<1> QED
  BY <1>4, <1>12, <1>13

\* The steps of an evaluation keep it enough.
LEMMA EvaluatorStepEnough ==
  ASSUME Typed, TimesDiffer, SampleIsFresh, StateIsEnough, NEW p \in Evaluators, EvaluatorStep(p)
  PROVE  StateIsEnough'
<1> USE DEF row, series, history, bounds
<1>1. CASE SaveObservation(p)
  BY <1>1, SaveKeepsEnough
<1>2. CASE evaluateDigest(p) \/ evaluateNewsDigest(p)
  BY <1>2 DEF evaluateDigest, evaluateNewsDigest, StateIsEnough
<1>3. CASE \/ evaluateInvalid(p) \/ evaluateThreshold(p) \/ metricUnavailable(p)
           \/ ReadLast(p) \/ HistoryFails(p)
  <2>1. /\ UNCHANGED <<spec, observations, samples, expected>>
        /\ overlapped' = overlapped \/ ReadClock(p)
    BY <1>3 DEF evaluateInvalid, evaluateThreshold, metricUnavailable, ReadLast, HistoryFails
  <2>2. Newest' = Newest
    BY <2>1 DEF Newest
  <2>3. ~overlapped' => ~overlapped
    BY <2>1 DEF ReadClock
  <2> QED
    BY <2>1, <2>2, <2>3, EnoughStays
<1> QED
  BY <1>1, <1>2, <1>3 DEF EvaluatorStep

\* So do the other steps.
LEMMA OtherStepEnough ==
  ASSUME Typed, TimesDiffer, StateIsEnough, OtherStep
  PROVE  StateIsEnough'
BY OtherStepFrame, OtherStepNewest, EnoughStays

-----------------------------------------------------------------------------
(***************************************************************************)
(* What was to be announced.                                               *)
(***************************************************************************)

\* A new plan of one evaluator leaves what the others carry.
LEMMA PlanChanges ==
  ASSUME Typed, NEW p \in Evaluators, NEW s, plan' = [plan EXCEPT ![p] = s]
  PROVE  /\ Carried(p)' = Entries(s)
         /\ s = <<>> => Carried(p)' = {}
         /\ \A q \in Evaluators \ {p} : Carried(q)' = Carried(q)
<1>1. /\ Carried(p)' = Entries(s)
      /\ \A q \in Evaluators \ {p} : Carried(q)' = Carried(q)
  BY DEF Typed, WorkTyped, Carried
<1>2. s = <<>> => Entries(s) = {}
  BY CarriedShort
<1> QED
  BY <1>1, <1>2

\* An evaluation that plans adds its plan to what is known.
LEMMA PlanIsKnown ==
  ASSUME Typed, NEW p \in Evaluators, NEW s, plan' = [plan EXCEPT ![p] = s], plan[p] = <<>>,
         UNCHANGED <<queue, told, lost>>
  PROVE  /\ Known' = Known \cup Entries(s)
         /\ s = <<>> => Known' = Known
         /\ \A n : s = <<n>> => Known' = Known \cup {n}
<1>1. Carried(p) = {}
  BY CarriedShort DEF Carried
<1>2. Known' = Known \cup Entries(s)
  <2>1. Carried(p)' = Entries(s) /\ \A q \in Evaluators \ {p} : Carried(q)' = Carried(q)
    BY PlanChanges
  <2> QED
    BY <1>1, <2>1 DEF Known
<1>3. s = <<>> => Entries(s) = {}
  BY CarriedShort
<1>4. ASSUME NEW n, s = <<n>>
      PROVE  Entries(s) = {n}
  BY <1>4, CarriedShort
<1> QED
  BY <1>2, <1>3, <1>4

\* A step that plans no notification of a condition, and of those it drops
\* leaves one of the same time, accounts for all.
LEMMA AccountsStay ==
  ASSUME AllIsAccounted, UNCHANGED <<spec, expected>>, ~overlapped' => ~overlapped,
         \A n \in Known' : n \in Known \/ n.key[1] # "condition",
         \A n \in Known : n.key[1] = "condition" =>
           \E x \in Known' : x.key[1] = "condition" /\ x.at = n.at
  PROVE  AllIsAccounted'
<1>1. Of("condition", Known') = Of("condition", Known)
  BY DEF Of
<1>2. Of("condition", Known)' = Of("condition", Known')
  BY DEF Of
<1>3. \A n : (n.key = ConditionKey(n.at))' <=> n.key = ConditionKey(n.at)
  BY DEF ConditionKey
<1> QED
  BY <1>1, <1>2, <1>3 DEF AllIsAccounted, ConditionKey

\* The steps of an evaluation account for all.
LEMMA EvaluatorStepAccounts ==
  ASSUME Typed, TimesDiffer, SampleIsFresh, StateIsEnough, AllIsAccounted,
         NEW p \in Evaluators, EvaluatorStep(p)
  PROVE  AllIsAccounted'
<1> USE DEF row, series, history, bounds
<1>1. CASE evaluateInvalid(p) \/ evaluateThreshold(p) \/ ReadLast(p) \/ HistoryFails(p)
  <2>1. /\ UNCHANGED <<spec, expected, queue, told, lost, plan>>
        /\ overlapped' = overlapped \/ ReadClock(p)
    BY <1>1 DEF evaluateInvalid, evaluateThreshold, ReadLast, HistoryFails
  <2>2. Known' = Known
    BY <2>1 DEF Known, Carried
  <2>3. ~overlapped' => ~overlapped
    BY <2>1 DEF ReadClock
  <2> QED
    BY <2>1, <2>2, <2>3, AccountsStay
<1>2. CASE metricUnavailable(p) \/ evaluateDigest(p) \/ evaluateNewsDigest(p)
  <2>1. UNCHANGED <<spec, expected, queue, told, lost>> /\ (~overlapped' => ~overlapped)
        /\ pc[p] = "evaluate"
    BY <1>2 DEF metricUnavailable, evaluateDigest, evaluateNewsDigest, ReadClock, At
  <2>2. plan[p] = <<>>
    BY <2>1 DEF Typed, WorkTyped
  <2>3. \/ plan' = plan
        \/ plan' = [plan EXCEPT ![p] = <<>>]
        \/ plan' = [plan EXCEPT ![p] = <<[key |-> UnavailableKey(now + 1), at |-> now + 1, part |-> 0]>>]
        \/ plan' = [plan EXCEPT ![p] = <<[key |-> DigestKey(now + 1), at |-> now + 1, part |-> 0]>>]
        \/ \E n \in Sizes : plan' =
             [plan EXCEPT ![p] = [i \in 1..n |-> [key |-> NewsKey(now + 1, i - 1), at |-> now + 1, part |-> i]]]
    BY <1>2 DEF metricUnavailable, evaluateDigest, evaluateNewsDigest, Planned
  <2>4. \/ Known' = Known
        \/ \E s : /\ Known' = Known \cup Entries(s)
                  /\ \A x \in Entries(s) : x.key[1] # "condition"
    <3>1. CASE plan' = plan
      BY <2>1, <3>1 DEF Known, Carried
    <3>2. CASE plan' = [plan EXCEPT ![p] = <<>>]
      BY <2>1, <2>2, <3>2, PlanIsKnown
    <3>3. ASSUME NEW key, key[1] # "condition",
                 plan' = [plan EXCEPT ![p] = <<[key |-> key, at |-> now + 1, part |-> 0]>>]
          PROVE  \E s : /\ Known' = Known \cup Entries(s)
                        /\ \A x \in Entries(s) : x.key[1] # "condition"
      <4> DEFINE s == <<[key |-> key, at |-> now + 1, part |-> 0]>>
      <4>1. \A x \in Entries(s) : x.key[1] # "condition"
        BY <3>3 DEF Entries
      <4>2. plan' = [plan EXCEPT ![p] = s]
        BY <3>3
      <4> HIDE DEF s
      <4>3. Known' = Known \cup Entries(s)
        BY <2>1, <2>2, <4>2, PlanIsKnown
      <4> QED
        BY <4>1, <4>3
    <3>4. UnavailableKey(now + 1)[1] # "condition" /\ DigestKey(now + 1)[1] # "condition"
      BY DEF UnavailableKey, DigestKey
    <3>5. ASSUME NEW n \in Sizes,
                 plan' = [plan EXCEPT ![p] =
                   [i \in 1..n |-> [key |-> NewsKey(now + 1, i - 1), at |-> now + 1, part |-> i]]]
          PROVE  \E s : /\ Known' = Known \cup Entries(s)
                        /\ \A x \in Entries(s) : x.key[1] # "condition"
      <4> DEFINE s == [i \in 1..n |-> [key |-> NewsKey(now + 1, i - 1), at |-> now + 1, part |-> i]]
      <4>1. \A x \in Entries(s) : x.key[1] # "condition"
        BY DEF NewsKey, Entries
      <4>2. plan' = [plan EXCEPT ![p] = s]
        BY <3>5
      <4> HIDE DEF s
      <4>3. Known' = Known \cup Entries(s)
        BY <2>1, <2>2, <4>2, PlanIsKnown
      <4> QED
        BY <4>1, <4>3
    <3> QED
      BY <2>3, <3>1, <3>2, <3>3, <3>4, <3>5
  <2> QED
    BY <2>1, <2>4, AccountsStay
<1>3. CASE SaveObservation(p)
  <2> DEFINE m == sample[p]
             n == [key |-> ConditionKey(m.at), at |-> m.at, part |-> 0]
             tells == notifies(Cond, m.value, m.prev, m.at)
  <2>1. /\ UNCHANGED <<spec, queue, told, lost, overlapped>>
        /\ plan' = [plan EXCEPT ![p] = IF tells THEN <<n>> ELSE <<>>]
        /\ expected' = IF Expects(samples', expected) THEN expected \cup {m.at} ELSE expected
        /\ pc[p] = "save"
    BY <1>3 DEF SaveObservation, Planned, Cond, At
  <2>2. plan[p] = <<>>
    BY <2>1 DEF Typed, WorkTyped
  <2>3. Known' = IF tells THEN Known \cup {n} ELSE Known
    <3>1. CASE tells
      BY <2>1, <2>2, <3>1, PlanIsKnown
    <3>2. CASE ~tells
      BY <2>1, <2>2, <3>2, PlanIsKnown
    <3> QED
      BY <3>1, <3>2
  <2>4. n.key[1] = "condition" /\ n.key = ConditionKey(n.at) /\ n.at = m.at
    BY DEF ConditionKey
  <2>5. ~overlapped => (tells <=> Expects(samples', expected))
    BY <1>3, SaveKeepsEnough
  <2> HIDE DEF n, tells, m
  <2>6. Of("condition", Known') = IF tells THEN Of("condition", Known) \cup {m.at}
                                  ELSE Of("condition", Known)
    BY <2>3, <2>4 DEF Of
  <2>7. Of("condition", Known)' = Of("condition", Known')
    BY DEF Of
  <2>8. \A x \in Known' : x.key[1] = "condition" => x.key = ConditionKey(x.at)
    BY <2>3, <2>4 DEF AllIsAccounted
  <2>9. spec.trigger = "threshold" /\ ~overlapped => expected' = Of("condition", Known')
    BY <2>1, <2>5, <2>6 DEF AllIsAccounted
  <2> QED
    BY <2>1, <2>7, <2>8, <2>9 DEF AllIsAccounted, ConditionKey
<1> QED
  BY <1>1, <1>2, <1>3 DEF EvaluatorStep

\* The other steps account for all: a notification taken for a duplicate has
\* the key, and so the time, of the one it duplicates (ON CONFLICT DO NOTHING).
LEMMA OtherStepAccounts ==
  ASSUME Typed, AllIsAccounted, OtherStep
  PROVE  AllIsAccounted'
<1> USE DEF row, evaluation, series, history, bounds
<1>0. UNCHANGED <<spec, expected, overlapped>>
  BY OtherStepFrame
<1>1. CASE \/ Tick \/ LeaseLapses \/ PruneObservations \/ runNow \/ UNCHANGED vars
           \/ \E w \in Watchers : LeaseDue(w) \/ Advance(w) \/ scheduleRetry(w) \/ RescheduleFails(w)
  <2>1. UNCHANGED <<queue, told, lost, plan>>
    BY <1>1 DEF Tick, LeaseLapses, PruneObservations, runNow, vars, LeaseDue, Advance, scheduleRetry,
                Reschedule, RescheduleFails
  <2>2. Known' = Known
    BY <2>1 DEF Known, Carried
  <2> QED
    BY <1>0, <2>2, AccountsStay
<1>2. CASE Tell
  <2>1. /\ plan' = [plan EXCEPT ![Bot] = <<>>] /\ queue' = queue
        /\ \/ told' = told \cup Carried(Bot) /\ lost' = lost
           \/ lost' = lost \cup Carried(Bot) /\ told' = told
    BY <1>2 DEF Tell, Carried, Entries
  <2>2. Carried(Bot)' = {} /\ \A q \in Evaluators \ {Bot} : Carried(q)' = Carried(q)
    BY <2>1, Facts, PlanChanges
  <2>3. Known' = Known
    BY <2>1, <2>2, Facts DEF Known
  <2> QED
    BY <1>0, <2>3, AccountsStay
<1>3. ASSUME NEW w \in Watchers, Restart(w)
      PROVE  AllIsAccounted'
  <2>1. /\ plan' = [plan EXCEPT ![w] = <<>>] /\ UNCHANGED <<queue, told>>
        /\ lost' = lost \cup Carried(w)
    BY <1>3 DEF Restart, Carried, Entries
  <2>2. Carried(w)' = {} /\ \A q \in Evaluators \ {w} : Carried(q)' = Carried(q)
    BY <2>1, Facts, PlanChanges
  <2>3. Known' = Known
    BY <2>1, <2>2, Facts DEF Known
  <2> QED
    BY <1>0, <2>3, AccountsStay
<1>4. ASSUME NEW w \in Watchers, Enqueue(w) \/ EnqueueFails(w)
      PROVE  AllIsAccounted'
  <2> DEFINE h == Head(plan[w])
             rest == Tail(plan[w])
  <2>1. plan[w] # <<>> /\ plan' = [plan EXCEPT ![w] = rest] /\ told' = told
    BY <1>4 DEF Enqueue, EnqueueFails
  <2>2. Carried(w) = {h} \cup Entries(rest)
    BY <2>1, Facts, CarriedTail DEF Typed, WorkTyped, Carried
  <2> HIDE DEF h, rest
  <2>3. /\ Carried(w) = {h} \cup Carried(w)'
        /\ \A q \in Evaluators \ {w} : Carried(q)' = Carried(q)
    BY <2>1, <2>2, Facts, PlanChanges
  <2>4. h \in Known /\ \A n \in Known : n = h \/ n \in queue \cup told \cup lost
                                        \/ \E q \in Evaluators : n \in Carried(q)'
    BY <2>3, Facts DEF Known
  <2>5. CASE queue' = queue \cup {h} /\ lost' = lost
    <3>1. Known' = Known
      BY <2>1, <2>3, <2>4, <2>5, Facts DEF Known
    <3> QED
      BY <1>0, <3>1, AccountsStay
  <2>6. CASE lost' = lost \cup {h} /\ queue' = queue
    <3>1. Known' = Known
      BY <2>1, <2>3, <2>4, <2>6, Facts DEF Known
    <3> QED
      BY <1>0, <3>1, AccountsStay
  <2>7. CASE UNCHANGED <<queue, lost>> /\ \E x \in queue : x.key = h.key
    <3>1. Known' \subseteq Known /\ Known \subseteq Known' \cup {h}
      BY <2>1, <2>3, <2>4, <2>7, Facts DEF Known
    <3>2. PICK x \in queue : x.key = h.key
      BY <2>7
    <3>3. x \in Known /\ x \in Known'
      BY <2>7, <3>2 DEF Known
    <3>4. h.key[1] = "condition" => x.key[1] = "condition" /\ x.at = h.at
      BY <2>4, <3>2, <3>3 DEF AllIsAccounted, ConditionKey
    <3> QED
      BY <1>0, <3>1, <3>3, <3>4, AccountsStay
  <2> QED
    BY <1>4, <2>5, <2>6, <2>7 DEF Enqueue, EnqueueFails, Inserted, h
<1> QED
  BY <1>1, <1>2, <1>3, <1>4 DEF OtherStep, WatcherStep

\* So nothing is announced that was not to be, and nothing missed that no
\* failure lost.
LEMMA AccountsAreKept ==
  ASSUME AllIsAccounted
  PROVE  NothingExtra /\ NothingMissing
<1>1. Known = (queue \cup told) \cup lost \cup UNION {{plan[p][i] : i \in DOMAIN plan[p]} : p \in Evaluators}
  BY DEF Known, Carried, Entries
<1>2. Of("condition", Known) = Announced \cup Of("condition", lost) \cup Underway
  <2> DEFINE carried == UNION {{plan[p][i] : i \in DOMAIN plan[p]} : p \in Evaluators}
             sent == queue \cup told
  <2>1. Announced = Of("condition", sent) /\ Underway = Of("condition", carried)
    BY DEF Announced, Underway
  <2>2. Known = sent \cup lost \cup carried
    BY <1>1
  <2> HIDE DEF carried, sent
  <2> QED
    BY <2>1, <2>2 DEF Of
<1> QED
  BY <1>2 DEF AllIsAccounted, NothingExtra, NothingMissing

-----------------------------------------------------------------------------
(***************************************************************************)
(* News digests.                                                           *)
(***************************************************************************)

News == NewsIsOfEditions /\ NewsIsWhole

\* A step that renders no digest, drops no message that it does not record as
\* lost and plans no news keeps them whole.
LEMMA NewsStays ==
  ASSUME News, editions' = editions, queue \subseteq queue', lost \subseteq lost',
         \A w \in Watchers : lost' = {} => Carried(w) \subseteq queue' \cup Carried(w)',
         \A w \in Watchers : \A n \in queue' \cup Carried(w)' :
           n \in queue \cup Carried(w) \/ (n.key[1] # "rss_digest" /\ n.part = 0)
  PROVE  News'
<1>1. NewsIsOfEditions'
  BY DEF News, NewsIsOfEditions, NewsHasEdition
<1>2. ASSUME NEW e \in editions, e.by # Bot,
             \A f \in editions : f.by # Bot /\ Day(f.at) = Day(e.at) => f = e,
             lost' = {}, NEW i \in 1..e.size
      PROVE  \E n \in queue' \cup Carried(e.by)' : n.at = e.at /\ n.part = i
  <2>1. lost = {} /\ e.by \in Watchers
    BY <1>2 DEF News, NewsIsOfEditions, Evaluators
  <2>2. \E n \in queue \cup Carried(e.by) : n.at = e.at /\ n.part = i
    BY <1>2, <2>1 DEF News, NewsIsWhole, Carried, Entries
  <2> QED
    BY <1>2, <2>1, <2>2
<1>3. NewsIsWhole'
  BY <1>2 DEF NewsIsWhole, Carried, Entries, Day
<1> QED
  BY <1>1, <1>3 DEF News

\* The steps of an evaluation keep the news whole.
LEMMA EvaluatorStepNews ==
  ASSUME Typed, News, NEW p \in Evaluators, EvaluatorStep(p)
  PROVE  News'
<1> USE DEF row, series, history, bounds
<1>1. CASE evaluateInvalid(p) \/ evaluateThreshold(p) \/ ReadLast(p) \/ HistoryFails(p)
  <2>1. UNCHANGED <<editions, queue, lost, plan>>
    BY <1>1 DEF evaluateInvalid, evaluateThreshold, ReadLast, HistoryFails
  <2>2. \A w : Carried(w)' = Carried(w)
    BY <2>1 DEF Carried
  <2> QED
    BY <2>1, <2>2, NewsStays
<1>2. CASE metricUnavailable(p) \/ evaluateDigest(p) \/ SaveObservation(p)
  <2>1. UNCHANGED <<editions, queue, lost>> /\ pc[p] \in {"evaluate", "save"}
    BY <1>2 DEF metricUnavailable, evaluateDigest, SaveObservation, ReadClock, At
  <2>2. plan[p] = <<>> /\ Carried(p) = {}
    BY <2>1, CarriedShort DEF Typed, WorkTyped, Carried
  <2>3. \/ plan' = plan
        \/ plan' = [plan EXCEPT ![p] = <<>>]
        \/ \E key, at : /\ plan' = [plan EXCEPT ![p] = <<[key |-> key, at |-> at, part |-> 0]>>]
                        /\ key[1] # "rss_digest"
    <3>1. /\ \A t : UnavailableKey(t)[1] # "rss_digest"
          /\ \A t : DigestKey(t)[1] # "rss_digest"
          /\ \A t : ConditionKey(t)[1] # "rss_digest"
      BY DEF UnavailableKey, DigestKey, ConditionKey
    <3>2. CASE metricUnavailable(p)
      BY <3>1, <3>2 DEF metricUnavailable, Planned
    <3>3. CASE evaluateDigest(p)
      BY <3>1, <3>3 DEF evaluateDigest, Planned
    <3>4. CASE SaveObservation(p)
      BY <3>1, <3>4 DEF SaveObservation, Planned
    <3> QED
      BY <1>2, <3>2, <3>3, <3>4
  <2>4. \/ Carried(p)' = {}
        \/ \E n : Carried(p)' = {n} /\ n.key[1] # "rss_digest" /\ n.part = 0
    <3>1. CASE plan' = plan
      BY <2>2, <3>1 DEF Carried
    <3>2. CASE plan' = [plan EXCEPT ![p] = <<>>]
      BY <3>2, PlanChanges
    <3>3. ASSUME NEW key, NEW at, key[1] # "rss_digest",
                 plan' = [plan EXCEPT ![p] = <<[key |-> key, at |-> at, part |-> 0]>>]
          PROVE  \E n : Carried(p)' = {n} /\ n.key[1] # "rss_digest" /\ n.part = 0
      <4> DEFINE n == [key |-> key, at |-> at, part |-> 0]
      <4>1. n.key[1] # "rss_digest" /\ n.part = 0
        BY <3>3
      <4>2. Carried(p)' = {n}
        BY <3>3, PlanChanges, CarriedShort
      <4> HIDE DEF n
      <4> QED
        BY <4>1, <4>2
    <3> QED
      BY <2>3, <3>1, <3>2, <3>3
  <2>5. \A w \in Watchers \ {p} : Carried(w)' = Carried(w)
    <3>1. plan' = plan \/ \E s : plan' = [plan EXCEPT ![p] = s]
      BY <2>3
    <3> QED
      BY <3>1, PlanChanges, Facts DEF Carried
  <2> QED
    BY <2>1, <2>2, <2>4, <2>5, NewsStays
<1>3. CASE evaluateNewsDigest(p)
  <2>1. CASE UNCHANGED <<editions, queue, lost, plan>>
    <3>1. \A w : Carried(w)' = Carried(w)
      BY <2>1 DEF Carried
    <3> QED
      BY <2>1, <3>1, NewsStays
  <2>2. CASE ~UNCHANGED <<editions, queue, lost, plan>>
    <3>1. UNCHANGED <<queue, lost>> /\ pc[p] = "evaluate"
      BY <1>3 DEF evaluateNewsDigest, ReadClock, At
    <3>2. plan[p] = <<>> /\ Carried(p) = {}
      BY <3>1, CarriedShort DEF Typed, WorkTyped, Carried
    <3>3. now + 1 \in Times
      BY <1>3, Facts DEF evaluateNewsDigest, ReadClock, Typed, ClockTyped, Times
    <3>4. PICK size \in Sizes :
            /\ plan' = [plan EXCEPT ![p] =
                 [i \in 1..size |-> [key |-> NewsKey(now + 1, i - 1), at |-> now + 1, part |-> i]]]
            /\ editions' = editions \cup {[at |-> now + 1, size |-> size, by |-> p]}
      BY <1>3, <2>2, <3>1 DEF evaluateNewsDigest, Planned
    <3> DEFINE e == [at |-> now + 1, size |-> size, by |-> p]
               s == [i \in 1..size |-> [key |-> NewsKey(now + 1, i - 1), at |-> now + 1, part |-> i]]
    <3>5. /\ e.at = now + 1 /\ e.size = size /\ e.by = p /\ editions' = editions \cup {e}
          /\ size \in Nat
      BY <3>4, EvaluationAssumption
    <3>6. \A n \in Entries(s) : n.part \in Nat /\ NewsHasEdition(n, e)
      BY <3>5 DEF Entries, NewsHasEdition
    <3>7. ASSUME NEW i \in 1..size
          PROVE  \E n \in Entries(s) : n.at = now + 1 /\ n.part = i
      <4>1. i \in DOMAIN s /\ s[i].at = now + 1 /\ s[i].part = i
        OBVIOUS
      <4> HIDE DEF s
      <4> QED
        BY <4>1 DEF Entries
    <3>8. plan' = [plan EXCEPT ![p] = s]
      BY <3>4
    <3> HIDE DEF e, s
    <3>9. Carried(p)' = Entries(s) /\ \A w \in Evaluators \ {p} : Carried(w)' = Carried(w)
      BY <3>8, PlanChanges
    <3>10. NewsIsOfEditions'
      <4>1. \A f \in editions' : f.at \in Times /\ f.size \in Nat /\ f.by \in Evaluators
        BY <3>3, <3>5 DEF News, NewsIsOfEditions
      <4>2. ASSUME NEW w \in Watchers, NEW n \in queue' \cup Carried(w)',
                   n.key[1] = "rss_digest" \/ n.part # 0
            PROVE  n.part \in Nat /\ \E f \in editions' : f.by # Bot /\ NewsHasEdition(n, f)
        <5>1. CASE n \in queue \cup Carried(w)
          BY <3>5, <4>2, <5>1 DEF News, NewsIsOfEditions
        <5>2. CASE n \notin queue \cup Carried(w)
          <6>1. w = p /\ n \in Entries(s)
            BY <3>1, <3>9, <4>2, <5>2, Facts
          <6> QED
            BY <3>5, <3>6, <6>1, Facts
        <5> QED
          BY <5>1, <5>2
      <4> QED
        BY <4>1, <4>2 DEF NewsIsOfEditions, NewsHasEdition
    <3>11. ASSUME NEW f \in editions', f.by # Bot,
                  \A g \in editions' : g.by # Bot /\ Day(g.at) = Day(f.at) => g = f,
                  lost = {}, NEW i \in 1..f.size
           PROVE  \E n \in queue' \cup Carried(f.by)' : n.at = f.at /\ n.part = i
      <4>1. CASE f = e
        BY <3>5, <3>7, <3>9, <3>11, <4>1
      <4>2. CASE f \in editions
        <5>1. \E n \in queue \cup Carried(f.by) : n.at = f.at /\ n.part = i
          BY <3>5, <3>11, <4>2 DEF News, NewsIsWhole, Carried, Entries
        <5>2. f.by \in Evaluators
          BY <4>2 DEF News, NewsIsOfEditions
        <5> QED
          BY <3>1, <3>2, <3>9, <5>1, <5>2
      <4> QED
        BY <3>5, <4>1, <4>2
    <3>12. NewsIsWhole'
      BY <3>1, <3>11 DEF NewsIsWhole, Carried, Entries, Day
    <3> QED
      BY <3>10, <3>12 DEF News
  <2> QED
    BY <2>1, <2>2
<1> QED
  BY <1>1, <1>2, <1>3 DEF EvaluatorStep

\* The other steps keep the news whole: a message taken for a duplicate has the
\* key of a message of the same place in an edition of that day.
LEMMA OtherStepNews ==
  ASSUME Typed, News, OtherStep
  PROVE  News'
<1> USE DEF row, evaluation, series, history, bounds
<1>0. editions' = editions
  BY OtherStepFrame
<1>1. CASE \/ Tick \/ LeaseLapses \/ PruneObservations \/ runNow \/ UNCHANGED vars
           \/ \E w \in Watchers : LeaseDue(w) \/ Advance(w) \/ scheduleRetry(w) \/ RescheduleFails(w)
  <2>1. UNCHANGED <<queue, lost, plan>>
    BY <1>1 DEF Tick, LeaseLapses, PruneObservations, runNow, vars, LeaseDue, Advance, scheduleRetry,
                Reschedule, RescheduleFails
  <2>2. \A w : Carried(w)' = Carried(w)
    BY <2>1 DEF Carried
  <2> QED
    BY <1>0, <2>1, <2>2, NewsStays
<1>2. CASE Tell
  <2>1. /\ plan' = [plan EXCEPT ![Bot] = <<>>] /\ queue' = queue
        /\ lost \subseteq lost'
    BY <1>2 DEF Tell
  <2>2. \A w \in Watchers : Carried(w)' = Carried(w)
    BY <2>1, Facts, PlanChanges
  <2> QED
    BY <1>0, <2>1, <2>2, NewsStays
<1>3. ASSUME NEW w \in Watchers, Restart(w)
      PROVE  News'
  <2>1. /\ plan' = [plan EXCEPT ![w] = <<>>] /\ queue' = queue
        /\ lost' = lost \cup Carried(w)
    BY <1>3 DEF Restart, Carried, Entries
  <2>2. Carried(w)' = {} /\ \A q \in Watchers \ {w} : Carried(q)' = Carried(q)
    BY <2>1, Facts, PlanChanges
  <2> QED
    BY <1>0, <2>1, <2>2, NewsStays
<1>4. ASSUME NEW w \in Watchers, Enqueue(w) \/ EnqueueFails(w)
      PROVE  News'
  <2> DEFINE h == Head(plan[w])
             rest == Tail(plan[w])
  <2>1. plan[w] # <<>> /\ plan' = [plan EXCEPT ![w] = rest]
    BY <1>4 DEF Enqueue, EnqueueFails
  <2>2. Carried(w) = {h} \cup Entries(rest) /\ h \in Notification
    BY <2>1, Facts, CarriedTail DEF Typed, WorkTyped, Carried
  <2> HIDE DEF h, rest
  <2>3. /\ Carried(w) = {h} \cup Carried(w)'
        /\ \A q \in Watchers \ {w} : Carried(q)' = Carried(q)
    BY <2>1, <2>2, Facts, PlanChanges
  <2>4. CASE queue' = queue \cup {h} /\ lost' = lost
    <3>1. NewsIsOfEditions'
      <4>1. ASSUME NEW q \in Watchers, NEW n \in queue' \cup Carried(q)',
                   n.key[1] = "rss_digest" \/ n.part # 0
            PROVE  n.part \in Nat /\ \E e \in editions : e.by # Bot /\ NewsHasEdition(n, e)
        BY <2>3, <2>4, <4>1 DEF News, NewsIsOfEditions
      <4> QED
        BY <1>0, <4>1 DEF News, NewsIsOfEditions, NewsHasEdition
    <3>2. ASSUME NEW e \in editions, e.by # Bot,
                 \A f \in editions : f.by # Bot /\ Day(f.at) = Day(e.at) => f = e,
                 lost = {}, NEW i \in 1..e.size
          PROVE  \E n \in queue' \cup Carried(e.by)' : n.at = e.at /\ n.part = i
      <4>1. \E n \in queue \cup Carried(e.by) : n.at = e.at /\ n.part = i
        BY <3>2 DEF News, NewsIsWhole, Carried, Entries
      <4>2. e.by \in Watchers
        BY <3>2 DEF News, NewsIsOfEditions, Evaluators
      <4> QED
        BY <2>3, <2>4, <4>1, <4>2
    <3>3. NewsIsWhole'
      BY <1>0, <2>4, <3>2 DEF NewsIsWhole, Carried, Entries, Day
    <3> QED
      BY <3>1, <3>3 DEF News
  <2>5. CASE lost' = lost \cup {h} /\ queue' = queue
    BY <1>0, <2>3, <2>5, NewsStays
  <2>6. CASE UNCHANGED <<queue, lost>> /\ \E x \in queue : x.key = h.key
    <3>1. NewsIsOfEditions'
      BY <1>0, <2>3, <2>6 DEF News, NewsIsOfEditions, NewsHasEdition
    <3>2. ASSUME NEW e \in editions, e.by # Bot,
                 \A f \in editions : f.by # Bot /\ Day(f.at) = Day(e.at) => f = e,
                 lost = {}, NEW i \in 1..e.size
          PROVE  \E n \in queue' \cup Carried(e.by)' : n.at = e.at /\ n.part = i
      <4>1. PICK n \in queue \cup Carried(e.by) : n.at = e.at /\ n.part = i
        BY <3>2 DEF News, NewsIsWhole, Carried, Entries
      <4>2. e.by \in Watchers /\ i # 0
        BY <3>2 DEF News, NewsIsOfEditions, Evaluators
      <4>3. CASE n # h
        BY <2>3, <2>6, <4>1, <4>2, <4>3
      <4>4. CASE n = h
        <5>1. PICK x \in queue : x.key = h.key
          BY <2>6
        <5>2. PICK f \in editions : f.by # Bot /\ NewsHasEdition(h, f)
          BY <2>3, <4>1, <4>2, <4>4 DEF News, NewsIsOfEditions
        <5>3. h.part \in Nat /\ h.key[1] = "rss_digest"
          BY <2>3, <4>1, <4>2, <4>4, <5>2 DEF News, NewsIsOfEditions, NewsHasEdition, NewsKey
        <5>4. x.part \in Nat
          BY <5>1, <5>3 DEF News, NewsIsOfEditions
        <5>5. PICK g \in editions : g.by # Bot /\ NewsHasEdition(x, g)
          BY <5>1, <5>3 DEF News, NewsIsOfEditions
        <5>6. Day(g.at) = Day(e.at) /\ x.part - 1 = h.part - 1
          <6>1. <<"rss_digest", Day(g.at), x.part - 1>> = <<"rss_digest", Day(f.at), h.part - 1>>
            BY <5>1, <5>2, <5>5 DEF NewsHasEdition, NewsKey
          <6> QED
            BY <4>1, <4>4, <5>2, <6>1 DEF NewsHasEdition
        <5>7. g = e /\ x.part = h.part
          BY <3>2, <5>3, <5>4, <5>5, <5>6
        <5>8. x.at = e.at /\ x.part = i
          BY <4>1, <4>4, <5>5, <5>7 DEF NewsHasEdition
        <5> QED
          BY <2>6, <5>1, <5>8
      <4> QED
        BY <4>3, <4>4
    <3>3. NewsIsWhole'
      BY <1>0, <2>6, <3>2 DEF NewsIsWhole, Carried, Entries, Day
    <3> QED
      BY <3>1, <3>3 DEF News
  <2> QED
    BY <1>4, <2>4, <2>5, <2>6 DEF Enqueue, EnqueueFails, Inserted, h
<1> QED
  BY <1>1, <1>2, <1>3, <1>4 DEF OtherStep, WatcherStep

-----------------------------------------------------------------------------
(***************************************************************************)
(* Travel digests.                                                         *)
(***************************************************************************)

\* The periods of the due time and of the clock.
LEMMA PeriodFacts ==
  ASSUME Typed
  PROVE  /\ spec.period \in Nat \ {0} /\ now \in Nat /\ due \in Nat
         /\ due \div spec.period \in Nat /\ now \div spec.period \in Nat
         /\ due <= now => due \div spec.period <= now \div spec.period
         /\ NextCron(now) \div spec.period = now \div spec.period + 1
<1>1. spec.period \in Nat \ {0} /\ now \in Nat /\ due \in Nat
  BY Facts DEF Typed, ClockTyped
<1>2. due \div spec.period \in Nat /\ now \div spec.period \in Nat
  BY <1>1, DivisionFacts
<1>3. due <= now => due \div spec.period <= now \div spec.period
  BY <1>1, DivisionFacts
<1>4. now \div spec.period + 1 \in Nat
  BY <1>2
<1>5. NextCron(now) \div spec.period = now \div spec.period + 1
  BY <1>1, <1>4, DivisionFacts DEF NextCron
<1> QED
  BY <1>1, <1>2, <1>3, <1>5

\* A step that only lets time pass, or other processes work, keeps the count.
LEMMA DigestsStay ==
  ASSUME Typed, Typed', DigestsAreCounted, UNCHANGED <<spec, queue, due>>, now <= now',
         ~disturbed' => ~disturbed,
         \A w \in Watchers : pc'[w] = pc[w] /\ plan'[w] = plan[w] /\ failed'[w] = failed[w]
  PROVE  DigestsAreCounted'
<1>1. Digests' = Digests
  BY DEF Digests, Of
<1>2. \A w \in Watchers : /\ Queued(w)' <=> Queued(w)
                          /\ At(w, "idle")' <=> At(w, "idle")
  BY DEF Queued, At
<1>3. /\ now \in Nat /\ now' \in Nat /\ due \in Nat /\ spec.period \in Nat \ {0}
      /\ now \div spec.period \in Nat /\ due \div spec.period \in Nat
  BY PeriodFacts, Facts DEF Typed, ClockTyped
<1>4. now \div spec.period <= now' \div spec.period /\ now' \div spec.period \in Nat
  BY <1>3, DivisionFacts
<1>5. ASSUME spec.trigger = "digest", ~disturbed'
      PROVE  /\ \A v, w \in Watchers : ~At(v, "idle")' /\ ~At(w, "idle")' => v = w
             /\ \A w \in Watchers : /\ ~At(w, "idle")' => due <= now'
                                    /\ plan'[w] # <<>> => ~failed'[w]
             /\ due \div spec.period <= now' \div spec.period + 1
             /\ Cardinality(Digests) <=
                  due \div spec.period + IF \E w \in Watchers : Queued(w)' THEN 1 ELSE 0
  <2>1. \A w \in Watchers : ~At(w, "idle")' => due <= now'
    BY <1>2, <1>3, <1>5 DEF DigestsAreCounted
  <2>2. due \div spec.period <= now' \div spec.period + 1
    BY <1>3, <1>4, <1>5 DEF DigestsAreCounted
  <2> QED
    BY <1>2, <1>5, <2>1, <2>2 DEF DigestsAreCounted
<1> QED
  BY <1>1, <1>5 DEF DigestsAreCounted

\* An evaluation plans at most one digest, and is not yet done with it.
LEMMA EvaluatorStepDigests ==
  ASSUME Typed, Typed', SampleIsFresh, DigestsAreCounted, NEW p \in Evaluators, EvaluatorStep(p)
  PROVE  DigestsAreCounted'
<1> USE DEF row, series, history, bounds
<1>1. CASE ~evaluateDigest(p)
  <2>1. spec'.trigger # "digest"
    <3>1. InFlight(p) => spec.trigger = "threshold"
      BY DEF SampleIsFresh
    <3> QED
      BY <1>1, <3>1 DEF EvaluatorStep, evaluateInvalid, evaluateThreshold, metricUnavailable, ReadLast,
         SaveObservation, HistoryFails, evaluateNewsDigest, InFlight, At
  <2> QED
    BY <2>1 DEF DigestsAreCounted
<1>2. CASE evaluateDigest(p)
  <2>1. /\ UNCHANGED <<spec, queue, due, disturbed>> /\ now' = now + 1 /\ At(p, "evaluate")
        /\ spec.trigger = "digest"
    BY <1>2 DEF evaluateDigest, ReadClock
  <2>2. now \in Nat /\ plan[p] = <<>>
    BY <2>1, PeriodFacts DEF At, Typed, WorkTyped
  <2>3. /\ \A w \in Evaluators \ {p} : pc'[w] = pc[w] /\ plan'[w] = plan[w] /\ failed'[w] = failed[w]
        /\ Len(plan'[p]) <= 1 /\ (plan'[p] # <<>> => ~failed'[p])
    <3>1. \A w \in Evaluators \ {p} : pc'[w] = pc[w] /\ plan'[w] = plan[w] /\ failed'[w] = failed[w]
      BY <1>2 DEF evaluateDigest, Planned, Errs, Goto, Typed, WorkTyped
    <3>2. ASSUME UNCHANGED <<plan, failed>>
          PROVE  Len(plan'[p]) <= 1 /\ plan'[p] = <<>>
      BY <2>2, <3>2
    <3>3. ASSUME NEW s, Len(s) <= 1, Planned(p, s)
          PROVE  Len(plan'[p]) <= 1 /\ ~failed'[p]
      BY <3>3 DEF Planned, Typed, WorkTyped
    <3>4. /\ Len(<<>>) <= 1
          /\ Len(<<[key |-> DigestKey(now + 1), at |-> now + 1, part |-> 0]>>) <= 1
      OBVIOUS
    <3> QED
      BY <1>2, <3>1, <3>2, <3>3, <3>4 DEF evaluateDigest
  <2>4. CASE p \notin Watchers
    BY <2>1, <2>2, <2>3, <2>4, Facts, DigestsStay
  <2>5. CASE p \in Watchers
    <3>1. Digests' = Digests
      BY <2>1 DEF Digests, Of
    <3>2. \A w \in Watchers : Len(plan'[w]) <= 1
      BY <2>1, <2>3, Facts DEF DigestsAreCounted
    <3>3. ASSUME ~disturbed
          PROVE  /\ \A w \in Watchers \ {p} : At(w, "idle") /\ pc'[w] = pc[w]
                 /\ due <= now /\ Cardinality(Digests) <= due \div spec.period + 0
      <4>1. \A w \in Watchers \ {p} : At(w, "idle")
        BY <2>1, <2>5, <3>3 DEF DigestsAreCounted, At
      <4>2. \A w \in Watchers : ~Queued(w)
        BY <2>1, <4>1 DEF Queued, At
      <4> QED
        BY <2>1, <2>3, <2>5, <3>3, <4>1, <4>2, Facts DEF DigestsAreCounted, At
    <3>4. ASSUME ~disturbed
          PROVE  /\ \A v, w \in Watchers : ~At(v, "idle")' /\ ~At(w, "idle")' => v = w
                 /\ \A w \in Watchers : plan'[w] # <<>> => ~failed'[w]
                 /\ due <= now'
      BY <2>1, <2>2, <2>3, <3>3, <3>4, PeriodFacts, Facts DEF DigestsAreCounted, At
    <3>5. due <= now' => due \div spec.period <= now' \div spec.period
      BY <2>1, PeriodFacts, DivisionFacts, Facts DEF Typed, ClockTyped
    <3>6. due \div spec.period \in Nat /\ now' \div spec.period \in Nat
      <4>1. now' \in Nat
        BY <2>1, <2>2
      <4> QED
        BY <4>1, PeriodFacts, DivisionFacts
    <3>7. IsFiniteSet(Digests) /\ (~disturbed => Cardinality(Digests) \in Nat)
      BY <2>1, FS_CardinalityType DEF DigestsAreCounted
    <3>8. ASSUME ~disturbed
          PROVE  Cardinality(Digests) <=
                   due \div spec.period + IF \E w \in Watchers : Queued(w)' THEN 1 ELSE 0
      BY <3>3, <3>6, <3>7, <3>8
    <3>9. ASSUME ~disturbed
          PROVE  due \div spec.period <= now' \div spec.period + 1
      BY <3>4, <3>5, <3>6, <3>9
    <3> QED
      BY <2>1, <3>1, <3>2, <3>4, <3>7, <3>8, <3>9 DEF DigestsAreCounted
  <2> QED
    BY <2>4, <2>5
<1> QED
  BY <1>1, <1>2

\* A step of one watcher while the others sit idle.
LEMMA WatcherDigests ==
  ASSUME Typed, DigestsAreCounted, spec.trigger = "digest", NEW w \in Watchers, spec' = spec,
         IsFiniteSet(Digests'), \A v \in Watchers : Len(plan'[v]) <= 1,
         ~disturbed' => ~disturbed,
         ~disturbed' =>
           /\ \A v \in Watchers \ {w} : At(v, "idle") /\ pc'[v] = pc[v]
                                        /\ plan'[v] = plan[v] /\ failed'[v] = failed[v]
           /\ ~At(w, "idle")' => due' <= now'
           /\ plan'[w] # <<>> => ~failed'[w]
           /\ due' \div spec.period <= now' \div spec.period + 1
           /\ Cardinality(Digests') <= due' \div spec.period + IF Queued(w)' THEN 1 ELSE 0
  PROVE  DigestsAreCounted'
<1>1. ASSUME ~disturbed'
      PROVE  /\ \A u, v \in Watchers : ~At(u, "idle")' /\ ~At(v, "idle")' => u = v
             /\ \A v \in Watchers : /\ ~At(v, "idle")' => due' <= now'
                                    /\ plan'[v] # <<>> => ~failed'[v]
  BY <1>1 DEF DigestsAreCounted, At
<1>2. ASSUME ~disturbed'
      PROVE  (\E v \in Watchers : Queued(v)') <=> Queued(w)'
  BY <1>2 DEF Queued, At
<1>3. Digests' = Of("digest", queue)'
  BY DEF Digests
<1> QED
  BY <1>1, <1>2 DEF DigestsAreCounted

\* What a watcher does with the digest, or with the row, keeps the count.
LEMMA WatcherStepDigests ==
  ASSUME Typed, Typed', DigestsAreCounted, NEW w \in Watchers, WatcherStep(w)
  PROVE  DigestsAreCounted'
<1> USE DEF row, evaluation, series, history, bounds
<1> DEFINE d == due \div spec.period
           n == now \div spec.period
<1>0. spec' = spec
  BY OtherStepFrame DEF OtherStep
<1>1. CASE spec.trigger # "digest"
  BY <1>0, <1>1 DEF DigestsAreCounted
<1>2. CASE spec.trigger = "digest"
  <2> USE <1>2
  <2>1. /\ spec.period \in Nat \ {0} /\ now \in Nat /\ due \in Nat
        /\ d \in Nat /\ n \in Nat
        /\ due <= now => d <= n
        /\ NextCron(now) \div spec.period = n + 1
    BY PeriodFacts
  <2>2. /\ IsFiniteSet(Digests) /\ \A v \in Watchers : Len(plan[v]) <= 1
        /\ Cardinality(Digests) \in Nat
    BY FS_CardinalityType DEF DigestsAreCounted
  <2>3. ASSUME ~At(w, "idle"), ~disturbed
        PROVE  /\ \A v \in Watchers \ {w} : At(v, "idle") /\ ~Queued(v)
               /\ due <= now /\ (plan[w] # <<>> => ~failed[w])
               /\ Cardinality(Digests) <= d + IF Queued(w) THEN 1 ELSE 0
    <3>1. \A v \in Watchers \ {w} : At(v, "idle") /\ ~Queued(v)
      BY <2>3 DEF DigestsAreCounted, Queued, At
    <3>2. (\E v \in Watchers : Queued(v)) <=> Queued(w)
      BY <3>1
    <3> QED
      BY <2>3, <3>1, <3>2 DEF DigestsAreCounted
  <2>4. CASE LeaseDue(w)
    <3>1. /\ UNCHANGED <<now, due, queue, plan, failed>> /\ due <= now
          /\ pc' = [pc EXCEPT ![w] = "evaluate"] /\ At(w, "idle")
          /\ ~disturbed' => ~disturbed /\ \A v \in Watchers \ {w} : At(v, "idle")
      BY <2>4 DEF LeaseDue, Goto
    <3>2. Digests' = Digests
      BY <3>1 DEF Digests, Of
    <3>3. ASSUME ~disturbed'
          PROVE  Cardinality(Digests) <= d
      <4>1. \A v \in Watchers : ~Queued(v)
        BY <3>1, <3>3 DEF Queued, At
      <4> QED
        BY <2>1, <2>2, <3>1, <3>3, <4>1 DEF DigestsAreCounted
    <3>4. ~Queued(w)' /\ plan[w] = <<>> /\ \A v \in Watchers \ {w} : pc'[v] = pc[v]
      BY <3>1, Facts DEF Queued, Typed, WorkTyped, At
    <3>5. d <= n + 1
      BY <2>1, <3>1
    <3> HIDE DEF d, n
    <3>6. ASSUME ~disturbed'
          PROVE  Cardinality(Digests') <= d + IF Queued(w)' THEN 1 ELSE 0
      BY <2>1, <3>2, <3>3, <3>4, <3>6
    <3>7. due' \div spec.period = d /\ now' \div spec.period = n
      BY <3>1 DEF d, n
    <3> QED
      BY <1>0, <2>2, <3>1, <3>2, <3>4, <3>5, <3>6, <3>7, WatcherDigests
  <2>5. CASE Enqueue(w) \/ EnqueueFails(w)
    <3> DEFINE h == Head(plan[w])
    <3>1. /\ UNCHANGED <<now, due, pc, disturbed>> /\ pc[w] = "announce" /\ plan[w] # <<>>
          /\ plan' = [plan EXCEPT ![w] = Tail(@)]
          /\ \/ queue' = Inserted(h) /\ failed' = failed
             \/ queue' = queue /\ failed' = [failed EXCEPT ![w] = TRUE]
      BY <2>5 DEF Enqueue, EnqueueFails, At
    <3>2. Tail(plan[w]) = <<>>
      <4>1. plan[w] \in Seq(Notification) /\ Len(plan[w]) <= 1
        BY <2>2, Facts DEF Typed, WorkTyped
      <4> QED
        BY <3>1, <4>1
    <3>3. plan'[w] = <<>> /\ \A v \in Watchers \ {w} : plan'[v] = plan[v] /\ failed'[v] = failed[v]
      BY <3>1, <3>2, Facts DEF Typed, WorkTyped
    <3>4. \A v \in Watchers : Len(plan'[v]) <= 1
      BY <2>2, <3>3
    <3>5. ~At(w, "idle") /\ ~Queued(w)
      BY <3>1 DEF At, Queued
    <3>6. CASE queue' = Inserted(h) /\ failed' = failed
      <4>1. Digests' = Digests \/ Digests' = Digests \cup {h.at}
        BY <3>6 DEF Digests, Of, Inserted
      <4>2. IsFiniteSet(Digests') /\ Cardinality(Digests') <= Cardinality(Digests) + 1
        <5>1. CASE Digests' = Digests
          BY <2>2, <5>1
        <5>2. CASE Digests' = Digests \cup {h.at}
          <6> DEFINE t == h.at
          <6>1. Digests' = Digests \cup {t}
            BY <5>2
          <6> HIDE DEF t
          <6>2. /\ IsFiniteSet(Digests \cup {t})
                /\ Cardinality(Digests \cup {t}) =
                     IF t \in Digests THEN Cardinality(Digests) ELSE Cardinality(Digests) + 1
            BY <2>2, FS_AddElement
          <6> QED
            BY <2>2, <6>1, <6>2
        <5> QED
          BY <4>1, <5>1, <5>2
      <4>3. ~disturbed => Queued(w)'
        BY <2>3, <3>1, <3>3, <3>5, <3>6 DEF Queued
      <4>4. IsFiniteSet(Digests') /\ Cardinality(Digests') \in Nat
        BY <4>2, FS_CardinalityType
      <4> HIDE DEF d, n, h
      <4>5. ASSUME ~disturbed
            PROVE  Cardinality(Digests') <= d + IF Queued(w)' THEN 1 ELSE 0
        <5>1. Cardinality(Digests) <= d
          BY <2>1, <2>2, <2>3, <3>5, <4>5
        <5> QED
          BY <2>1, <2>2, <4>2, <4>3, <4>4, <4>5, <5>1
      <4>6. ~disturbed => due <= now /\ d <= n + 1
        BY <2>1, <2>3, <3>5
      <4>7. due' \div spec.period = d /\ now' \div spec.period = n
        BY <3>1 DEF d, n
      <4> QED
        BY <1>0, <2>2, <2>3, <3>1, <3>3, <3>4, <3>5, <4>2, <4>5, <4>6, <4>7, WatcherDigests
    <3>7. CASE queue' = queue /\ failed' = [failed EXCEPT ![w] = TRUE]
      <4>1. Digests' = Digests
        BY <3>7 DEF Digests, Of
      <4>2. ~Queued(w)'
        BY <3>7, Facts DEF Queued, Typed, WorkTyped
      <4> HIDE DEF d, n, h
      <4>3. ASSUME ~disturbed
            PROVE  Cardinality(Digests') <= d + IF Queued(w)' THEN 1 ELSE 0
        BY <2>1, <2>2, <2>3, <3>5, <4>1, <4>2, <4>3
      <4>4. ~disturbed => due <= now /\ d <= n + 1
        BY <2>1, <2>3, <3>5
      <4>5. due' \div spec.period = d /\ now' \div spec.period = n
        BY <3>1 DEF d, n
      <4> QED
        BY <1>0, <2>2, <2>3, <3>1, <3>3, <3>4, <3>5, <4>1, <4>3, <4>4, <4>5, WatcherDigests
    <3> QED
      BY <3>1, <3>6, <3>7
  <2>6. CASE Advance(w) \/ scheduleRetry(w)
    <3>1. /\ UNCHANGED <<now, queue, plan, failed, disturbed>> /\ ~At(w, "idle")
          /\ pc' = [pc EXCEPT ![w] = "idle"]
          /\ \/ due' = NextCron(now)
             \/ due' = now /\ ~Queued(w)
      BY <2>6 DEF Advance, scheduleRetry, Reschedule, Queued, At, Goto
    <3>2. Digests' = Digests
      BY <3>1 DEF Digests, Of
    <3>3. At(w, "idle")' /\ plan[w] = <<>> /\ \A v \in Watchers \ {w} : pc'[v] = pc[v]
      <4>1. plan[w] = <<>>
        BY <2>6, Facts DEF Advance, scheduleRetry, Typed, WorkTyped, At
      <4> QED
        BY <3>1, <4>1, Facts DEF At, Typed, WorkTyped
    <3>4. ~Queued(w)'
      BY <3>3 DEF Queued, At
    <3>5. due' \div spec.period \in {n, n + 1} /\ now' \div spec.period = n
      BY <2>1, <3>1
    <3>6. due' \div spec.period = n => ~Queued(w)
      BY <2>1, <3>1
    <3> HIDE DEF d, n
    <3>7. ASSUME ~disturbed
          PROVE  Cardinality(Digests') <= due' \div spec.period + IF Queued(w)' THEN 1 ELSE 0
      BY <2>1, <2>2, <2>3, <3>1, <3>2, <3>4, <3>5, <3>6, <3>7
    <3>8. due' \div spec.period <= now' \div spec.period + 1
      BY <2>1, <3>5
    <3> QED
      BY <1>0, <2>2, <2>3, <3>1, <3>2, <3>3, <3>7, <3>8, WatcherDigests
  <2>7. CASE RescheduleFails(w)
    <3>1. UNCHANGED <<queue, plan>> /\ disturbed'
      BY <2>7 DEF RescheduleFails
    <3>2. Digests' = Digests
      BY <3>1 DEF Digests, Of
    <3> QED
      BY <2>2, <3>1, <3>2 DEF DigestsAreCounted
  <2>8. CASE Restart(w)
    <3>1. /\ UNCHANGED <<now, queue, due, failed>> /\ plan' = [plan EXCEPT ![w] = <<>>]
          /\ pc' = [pc EXCEPT ![w] = "idle"]
          /\ ~disturbed' => ~disturbed /\ At(w, "idle")
          /\ ~At(w, "idle") => disturbed'
      BY <2>8 DEF Restart, MarkedDue, Goto
    <3>2. CASE At(w, "idle")
      <4>1. plan[w] = <<>>
        BY <3>2, Facts DEF At, Typed, WorkTyped
      <4>2. \A v \in Watchers : pc'[v] = pc[v] /\ plan'[v] = plan[v] /\ failed'[v] = failed[v]
        BY <3>1, <3>2, <4>1, Facts DEF At, Typed, WorkTyped
      <4> QED
        BY <1>0, <2>1, <3>1, <4>2, DigestsStay
    <3>3. CASE ~At(w, "idle")
      <4>1. Digests' = Digests
        BY <3>1 DEF Digests, Of
      <4>2. \A v \in Watchers : Len(plan'[v]) <= 1
        BY <2>2, <3>1, Facts DEF Typed, WorkTyped
      <4> QED
        BY <1>0, <2>2, <3>1, <3>3, <4>1, <4>2 DEF DigestsAreCounted
    <3> QED
      BY <3>2, <3>3
  <2> QED
    BY <2>4, <2>5, <2>6, <2>7, <2>8 DEF WatcherStep
<1> QED
  BY <1>1, <1>2

\* So does the rest.
LEMMA OtherStepDigests ==
  ASSUME Typed, Typed', DigestsAreCounted, OtherStep
  PROVE  DigestsAreCounted'
<1> USE DEF row, evaluation, series, history, bounds
<1>1. CASE Tick \/ LeaseLapses \/ PruneObservations \/ runNow \/ Tell \/ UNCHANGED vars
  <2>1. UNCHANGED <<spec, queue, due, disturbed>>
    BY <1>1 DEF Tick, LeaseLapses, PruneObservations, runNow, Tell, vars
  <2>2. \A w \in Watchers : pc'[w] = pc[w] /\ plan'[w] = plan[w] /\ failed'[w] = failed[w]
    BY <1>1, Facts DEF Tick, LeaseLapses, PruneObservations, runNow, Tell, vars, Goto, Typed, WorkTyped
  <2>3. now <= now'
    BY OtherStepFrame
  <2> QED
    BY <2>1, <2>2, <2>3, DigestsStay
<1> QED
  BY <1>1, WatcherStepDigests DEF OtherStep

\* The count is within what was due.
LEMMA DigestsAreFew ==
  ASSUME Typed, DigestsAreCounted
  PROVE  NoExtraDigest
<1>1. /\ due \div spec.period \in Nat /\ now \div spec.period \in Nat
      /\ due <= now => due \div spec.period <= now \div spec.period
  BY PeriodFacts
<1>2. CASE spec.trigger = "digest" /\ ~disturbed
  <2>1. Cardinality(Digests) \in Nat
    BY <1>2, FS_CardinalityType DEF DigestsAreCounted
  <2>2. (\E w \in Watchers : Queued(w)) => due <= now
    BY <1>2 DEF DigestsAreCounted, Queued, At
  <2>3. Cardinality(Digests) <= now \div spec.period + 1
    <3> DEFINE d == due \div spec.period
               n == now \div spec.period
               c == Cardinality(Digests)
    <3>1. /\ c <= d + IF \E w \in Watchers : Queued(w) THEN 1 ELSE 0
          /\ d <= n + 1
      BY <1>2 DEF DigestsAreCounted
    <3> HIDE DEF d, n, c
    <3>2. d \in Nat /\ n \in Nat /\ c \in Nat /\ ((\E w \in Watchers : Queued(w)) => d <= n)
      BY <1>1, <2>1, <2>2 DEF d, n, c
    <3>3. c <= n + 1
      BY <3>1, <3>2
    <3> QED
      BY <3>3 DEF n, c
  <2> QED
    BY <2>3 DEF NoExtraDigest, Digests
<1> QED
  BY <1>2 DEF NoExtraDigest

-----------------------------------------------------------------------------
(***************************************************************************)
(* The invariant, and what follows.                                        *)
(***************************************************************************)

\* A reminder just created, or taken over from an older version, is safe.
LEMMA InitIsSafe == Init => ConditionInv
<1> SUFFICES ASSUME Init PROVE ConditionInv
  OBVIOUS
<1> USE DEF Init
<1>1. /\ now = 0 /\ 0 \in Times /\ spec \in Specs /\ spec.reads \subseteq Values
      /\ \A p \in Evaluators : pc[p] = "idle" /\ plan[p] = <<>> /\ ~InFlight(p)
  BY Facts, EvaluationAssumption DEF Times, Values, InFlight
<1>2. \/ observations = {} /\ samples = <<>>
      \/ \E o \in Observation : /\ observations = {o} /\ o.at = 0 /\ ~o.hasState
                                /\ samples = <<[at |-> 0, value |-> Newest.value]>>
  <2>1. \A o \in Before(spec) : o \in Observation /\ o.at = 0 /\ ~o.hasState
    <3>1. ASSUME NEW v \in spec.reads
          PROVE  [at |-> 0, value |-> v, hasState |-> FALSE, matched |-> FALSE, last |-> NoTime] \in Observation
      BY <1>1, <3>1 DEF Observation
    <3> QED
      BY <3>1 DEF Before
  <2>2. CASE observations = {}
    BY <2>2
  <2>3. ASSUME NEW o \in Before(spec), observations = {o}
        PROVE  observations = {o} /\ samples = <<[at |-> 0, value |-> Newest.value]>>
    BY <2>3
  <2> QED
    BY <2>1, <2>2, <2>3
<1>3. \A o : observations = {o} => Newest = o
  BY DEF Newest
<1>4. samples \in Seq(SavedSample)
  <2>1. observations # {} => [at |-> 0, value |-> Newest.value] \in SavedSample
    BY <1>1, <1>2, <1>3 DEF SavedSample, Observation
  <2> HIDE DEF Init
  <2>2. \A x \in SavedSample : <<x>> \in Seq(SavedSample)
    OBVIOUS
  <2>3. <<>> \in Seq(SavedSample)
    OBVIOUS
  <2> QED
    BY <1>2, <2>1, <2>2, <2>3
<1>5. Typed
  <2>1. ClockTyped
    BY <1>1, Facts DEF ClockTyped
  <2>2. RecordsTyped
    <3>1. observations \subseteq Observation /\ \A o \in observations : o.at <= now
      BY <1>1, <1>2
    <3> QED
      BY <1>4, <3>1 DEF RecordsTyped
  <2>3. WorkTyped
    BY <1>1, PlansTyped DEF WorkTyped, Stages
  <2> QED
    BY <2>1, <2>2, <2>3 DEF Typed
<1>6. TimesDiffer
  BY <1>1, <1>2 DEF TimesDiffer
<1>7. SampleIsFresh
  BY <1>1 DEF SampleIsFresh
<1>8. StateIsEnough
  <2>1. CASE observations = {} /\ samples = <<>>
    <3>1. lastTriggered(Newest) = NoTime
      BY <2>1 DEF Newest, lastTriggered
    <3> QED
      BY <2>1, <3>1 DEF StateIsEnough
  <2>2. ASSUME NEW o \in Observation, observations = {o}, o.at = 0, ~o.hasState,
               samples = <<[at |-> 0, value |-> Newest.value]>>
        PROVE  StateIsEnough
    <3>1. Newest = o /\ o # NoObservation
      BY <1>3, <2>2, ObservationAssumption
    <3>2. Len(samples) = 1 /\ samples[1] = [at |-> 0, value |-> o.value]
      BY <2>2, <3>1
    <3>3. lastTriggered(Newest) = NoTime
      BY <2>2, <3>1 DEF lastTriggered
    <3>4. ~eventLike(Cond) => (previousMatched(Cond, Newest) <=> Holds(samples, 1))
      BY <2>2, <3>1, <3>2 DEF previousMatched, Holds, conditionMatches, eventLike
    <3> QED
      BY <2>2, <3>1, <3>2, <3>3, <3>4 DEF StateIsEnough
  <2> QED
    BY <1>2, <2>1, <2>2
<1>9. AllIsAccounted
  <2>1. Known = {}
    BY <1>1, CarriedShort DEF Known, Carried
  <2> QED
    BY <2>1 DEF AllIsAccounted, Of
<1>10. News
  BY <1>1, CarriedShort, Facts DEF News, NewsIsOfEditions, NewsIsWhole, Carried
<1>11. DigestsAreCounted
  <2>1. Digests = {}
    BY DEF Digests, Of
  <2>2. IsFiniteSet(Digests) /\ Cardinality(Digests) = 0
    BY <2>1, FS_EmptySet
  <2>3. spec.period \in Nat \ {0} /\ due \div spec.period = 0 /\ now \div spec.period = 0
    BY <1>1, Facts
  <2>4. \A w \in Watchers : Len(plan[w]) <= 1 /\ At(w, "idle") /\ ~Queued(w) /\ plan[w] = <<>>
    BY <1>1, Facts DEF At, Queued
  <2>5. due \div spec.period <= now \div spec.period + 1
    BY <2>3
  <2>6. Cardinality(Digests) <= due \div spec.period + IF \E w \in Watchers : Queued(w) THEN 1 ELSE 0
    BY <2>2, <2>3, <2>4
  <2> HIDE DEF Init
  <2> QED
    BY <2>2, <2>4, <2>5, <2>6 DEF DigestsAreCounted
<1> QED
  BY <1>5, <1>6, <1>7, <1>8, <1>9, <1>10, <1>11 DEF ConditionInv, News

\* Every step keeps it so.
LEMMA NextIsSafe == ConditionInv /\ [Next]_vars => ConditionInv'
<1> SUFFICES ASSUME ConditionInv, [Next]_vars PROVE ConditionInv'
  OBVIOUS
<1>1. CASE \E p \in Evaluators : EvaluatorStep(p)
  <2>1. PICK p \in Evaluators : EvaluatorStep(p)
    BY <1>1
  <2>2. Typed'
    BY <2>1, EvaluatorStepTyped DEF ConditionInv
  <2>3. TimesDiffer'
    BY <2>1, <2>2, EvaluatorStepTimes DEF ConditionInv
  <2>4. SampleIsFresh'
    BY <2>1, <2>2, EvaluatorStepFresh DEF ConditionInv
  <2>5. StateIsEnough'
    BY <2>1, EvaluatorStepEnough DEF ConditionInv
  <2>6. AllIsAccounted'
    BY <2>1, EvaluatorStepAccounts DEF ConditionInv
  <2>7. News'
    BY <2>1, EvaluatorStepNews DEF ConditionInv, News
  <2>8. DigestsAreCounted'
    BY <2>1, <2>2, EvaluatorStepDigests DEF ConditionInv
  <2> QED
    BY <2>2, <2>3, <2>4, <2>5, <2>6, <2>7, <2>8 DEF ConditionInv, News
<1>2. CASE OtherStep
  <2>1. Typed'
    BY <1>2, OtherStepTyped, WatcherStepTyped DEF ConditionInv, OtherStep
  <2>2. TimesDiffer'
    BY <1>2, OtherStepTimes DEF ConditionInv
  <2>3. SampleIsFresh'
    BY <1>2, OtherStepFresh DEF ConditionInv
  <2>4. StateIsEnough'
    BY <1>2, OtherStepEnough DEF ConditionInv
  <2>5. AllIsAccounted'
    BY <1>2, OtherStepAccounts DEF ConditionInv
  <2>6. News'
    BY <1>2, OtherStepNews DEF ConditionInv, News
  <2>7. DigestsAreCounted'
    BY <1>2, <2>1, OtherStepDigests DEF ConditionInv
  <2> QED
    BY <2>1, <2>2, <2>3, <2>4, <2>5, <2>6, <2>7 DEF ConditionInv, News
<1> QED
  BY <1>1, <1>2 DEF Next, OtherStep

\* In every run the state kept with the observations, the keys of the queue and
\* the due time stay as the evaluations rely on.
THEOREM ConditionIsSafe == Spec => []ConditionInv
BY InitIsSafe, NextIsSafe, PTL DEF Spec

\* The types of the state.
THEOREM ConditionIsTyped == Spec => []TypeOK
<1>1. ConditionInv => TypeOK
  <2> SUFFICES ASSUME ConditionInv PROVE TypeOK
    OBVIOUS
  <2>1. \A p \in Evaluators : pc[p] \in {"last", "save"} => sample[p] \in Sample
    BY DEF ConditionInv, Typed, WorkTyped, InFlight
  <2>2. \A p \in Evaluators : \A i \in 1..Len(plan[p]) : plan[p][i] \in Notification
    BY DEF ConditionInv, Typed, WorkTyped
  <2> QED
    BY <2>1, <2>2 DEF ConditionInv, Typed, ClockTyped, RecordsTyped, WorkTyped, TypeOK
<1> QED
  BY <1>1, ConditionIsSafe, PTL

\* A threshold announces nothing that the README's rules do not announce, as
\* long as no two evaluations overlap (evaluateThreshold).
THEOREM NothingIsExtra == Spec => []NothingExtra
<1>1. ConditionInv => NothingExtra
  BY AccountsAreKept DEF ConditionInv
<1> QED
  BY <1>1, ConditionIsSafe, PTL

\* It announces all that they do, failures apart (the order of Save and
\* Enqueue).
THEOREM NothingIsMissing == Spec => []NothingMissing
<1>1. ConditionInv => NothingMissing
  BY AccountsAreKept DEF ConditionInv
<1> QED
  BY <1>1, ConditionIsSafe, PTL

\* A news digest evaluated once on its day is delivered whole (the keys of
\* evaluateNewsDigest).
THEOREM NewsStaysWhole == Spec => []NewsIsWhole
<1>1. ConditionInv => NewsIsWhole
  BY DEF ConditionInv
<1> QED
  BY <1>1, ConditionIsSafe, PTL

\* A travel digest is queued at most once for each of its times
\* (MarkConditionalDue, UpdateNextEval).
THEOREM DigestsAreNotDoubled == Spec => []NoExtraDigest
<1>1. ConditionInv => NoExtraDigest
  BY DigestsAreFew DEF ConditionInv
<1> QED
  BY <1>1, ConditionIsSafe, PTL

\* The janitor never deletes the observation a threshold compares with
\* (PruneObservations).
THEOREM JanitorKeepsLast == Spec => PruneKeepsLast
<1>1. ConditionInv /\ [Next]_vars => [PruneObservations => Newest' = Newest]_vars
  BY NewestIsKept DEF ConditionInv
<1> QED
  BY <1>1, ConditionIsSafe, PTL DEF Spec, PruneKeepsLast
=============================================================================
