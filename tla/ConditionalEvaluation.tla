----------------------- MODULE ConditionalEvaluation -----------------------
(***************************************************************************)
(* One conditional reminder and everything that evaluates it: the watchers *)
(* of the worker processes and the bot's /run.  A threshold is compared    *)
(* with the stored observations, a digest is planned once a day, and what  *)
(* is planned is enqueued (watcher) or sent at once (/run).                *)
(*                                                                         *)
(* ReminderScheduler models the reminder's other columns and its leases;   *)
(* here the row is active and only its lock and due time are kept.         *)
(***************************************************************************)
EXTENDS Integers, Sequences, FiniteSets

CONSTANTS
  Watchers,    \* watchers, one per worker process
  Bot,         \* the process of the bot's /run
  NoOne,       \* the value of locked_by that stands for NULL
  NoTime,      \* no last trigger
  NoTarget,    \* a condition without a target
  NoObservation,
  Specs,       \* the reminder specifications to consider, each with what its
               \* metric may read
  Sizes,       \* how many messages a rendered news digest may need
  DayLength,   \* ticks of a day
  Keep,        \* observationsKeep
  MaxTime,     \* bound: readings of the clock
  MaxRuns,     \* bound: /run commands
  MaxFaults    \* bound: failures, restarts and overrun leases

Evaluators == Watchers \cup {Bot}
Times == 0..MaxTime
Day(t) == t \div DayLength
\* A digest's best price stands as 0.
Values == {0} \cup UNION {s.reads : s \in Specs}
Operators == {"lt", "lte", "gt", "gte", "changed", "changed_pct"}

ASSUME EvaluationAssumption ==
  /\ Bot \notin Watchers /\ NoOne \notin Watchers
  /\ NoTime \notin Times
  /\ NoTarget \notin Int
  /\ Sizes \subseteq Nat
  /\ {DayLength, Keep} \subseteq Nat \ {0}
  /\ {MaxTime, MaxRuns, MaxFaults} \subseteq Nat
  /\ \A s \in Specs :
       /\ s.reads \subseteq Int /\ s.period \in Nat \ {0}
       /\ s.trigger = "threshold" =>
            IF s.legacy THEN s.target \in Int \cup {NoTarget}
            ELSE /\ s.condition.target \in Int \cup {NoTarget}
                 /\ {s.condition.percent, s.condition.cooldown} \subseteq Int

VARIABLES
  now,          \* the clock: no two evaluations read the same time
  spec,         \* the reminder's specification
  due,          \* next_eval_at
  lockedBy,     \* locked_by
  observations, \* the table observations
  queue,        \* the notifications inserted so far
  pc,           \* where an evaluator is
  sample,       \* the sample it took, and the observation it read
  plan,         \* what it has still to enqueue or send
  failed,       \* an insert of its batch failed
  told,         \* history: what /run sent
  samples,      \* history: the samples saved
  expected,     \* history: when there was one to notify of
  editions,     \* history: the news digests rendered
  overlapped,   \* history: two evaluations ran at the same time
  lost,         \* history: planned notifications a failure lost
  disturbed,    \* history: an evaluation was cut short, not advanced or doubled
  runs, faults  \* so far

row == <<due, lockedBy>>
evaluation == <<sample, plan, failed>>
series == <<samples, expected>>
history == <<told, series, editions, overlapped, lost, disturbed>>
bounds == <<runs, faults>>
vars == <<now, spec, row, observations, queue, pc, evaluation, history, bounds>>

Observation == [at : Times, value : Values, hasState : BOOLEAN,
                matched : BOOLEAN, last : Times \cup {NoTime}]
SavedSample == [at : Times, value : Values]
Sample == [at : Times, value : Values, prev : Observation \cup {NoObservation}]

ASSUME ObservationAssumption == NoObservation \notin Observation \cup SavedSample

Key == {"condition", "metric_unavailable", "digest", "rss_digest"} \X Times \X Nat
Notification == [key : Key, at : Times, part : Nat]
Stages == {"idle", "evaluate", "last", "save", "announce", "retry"}

(***************************************************************************)
(* The decision.                                                           *)
(***************************************************************************)

\* A legacy specification keeps a direction; its condition is edge-triggered.
reminderCondition(s) ==
  IF ~s.legacy THEN s.condition
  ELSE [operator |-> IF s.direction \in {"above", "up"} THEN "gt" ELSE "lt",
        target |-> s.target, percent |-> 0, edge |-> TRUE, cooldown |-> 0]

\* What reminderCondition accepts.
ValidSpec(s) ==
  IF s.legacy THEN s.direction \in {"", "below", "down", "above", "up"}
  ELSE LET c == s.condition IN
    /\ c.operator \in Operators
    /\ c.operator = "changed_pct" => c.percent > 0
    /\ c.cooldown >= 0
    /\ c.edge \/ c.cooldown > 0

eventLike(c) == c.target = NoTarget \/ c.operator \in {"changed", "changed_pct"}

compareMetric(operator, v, reference) ==
  \/ operator = "lt"  /\ v < reference
  \/ operator = "lte" /\ v <= reference
  \/ operator = "gt"  /\ v > reference
  \/ operator = "gte" /\ v >= reference

Distance(a, b) == IF a < b THEN b - a ELSE a - b

\* Any change from zero is infinitely large.
percentAtLeast(before, v, percent) ==
  IF before = 0 THEN v # 0
  ELSE Distance(before, v) * 100 >= percent * Distance(before, 0)

conditionMatches(c, v, p) ==
  CASE c.operator = "changed" -> p # NoObservation /\ v # p.value
    [] c.operator = "changed_pct" ->
         p # NoObservation /\ percentAtLeast(p.value, v, c.percent)
    [] OTHER ->
         IF c.target # NoTarget THEN compareMetric(c.operator, v, c.target)
         ELSE p # NoObservation /\ compareMetric(c.operator, v, p.value)

cooldownElapsed(last, c, t) ==
  last = NoTime \/ c.cooldown = 0 \/ t >= last + c.cooldown

\* The state stored with an observation; one that predates the conditions
\* has none, and is compared anew.
previousMatched(c, p) ==
  /\ p # NoObservation
  /\ ~eventLike(c)
  /\ IF p.hasState THEN p.matched ELSE compareMetric(c.operator, p.value, c.target)

lastTriggered(p) ==
  IF p # NoObservation /\ p.hasState THEN p.last ELSE NoTime

\* Mutant: a new crossing is announced within the cooldown.
notifiesDespiteCooldown(c, v, p, t) ==
  /\ conditionMatches(c, v, p)
  /\ \/ eventLike(c)
     \/ ~c.edge /\ p = NoObservation
     \/ p # NoObservation /\ ~previousMatched(c, p)
     \/ cooldownElapsed(lastTriggered(p), c, t)

notifies(c, v, p, t) ==
  /\ conditionMatches(c, v, p)
  /\ \/ eventLike(c)
     \/ (c.edge /\ p # NoObservation /\ ~previousMatched(c, p))
     \/ ~c.edge /\ \/ p = NoObservation
                   \/ ~previousMatched(c, p)
                   \/ cooldownElapsed(lastTriggered(p), c, t)
  /\ cooldownElapsed(lastTriggered(p), c, t)

\* Mutant: what is stored is when the cooldown ends.
observedUntil(c, v, p, t) ==
  [at |-> t, value |-> v, hasState |-> TRUE,
   matched |-> conditionMatches(c, v, p),
   last |-> IF notifies(c, v, p, t) THEN t + c.cooldown ELSE lastTriggered(p)]

\* Mutant: every match restarts the cooldown.
observedOnMatch(c, v, p, t) ==
  [at |-> t, value |-> v, hasState |-> TRUE,
   matched |-> conditionMatches(c, v, p),
   last |-> IF conditionMatches(c, v, p) THEN t ELSE lastTriggered(p)]

\* The row history.Save inserts.
observed(c, v, p, t) ==
  [at |-> t, value |-> v, hasState |-> TRUE,
   matched |-> conditionMatches(c, v, p),
   last |-> IF notifies(c, v, p, t) THEN t ELSE lastTriggered(p)]

\* history.Last: the newest by observed_at, not the one inserted last.
Newest ==
  IF observations = {} THEN NoObservation
  ELSE CHOOSE o \in observations : \A x \in observations : x.at <= o.at

(***************************************************************************)
(* What the README promises of a condition, over the whole series of its   *)
(* samples.                                                                *)
(***************************************************************************)

Cond == reminderCondition(spec)
Holds(all, i) ==
  conditionMatches(Cond, all[i].value, IF i = 1 THEN NoObservation ELSE all[i - 1])

\* A sample worth a notification, the cooldown apart: every change, every
\* crossing from false to true, every sample of a level.  An observation of
\* an older version (at 0) was announced by it or not at all.
Deserves(all, i) ==
  /\ all[i].at > 0 /\ Holds(all, i)
  /\ eventLike(Cond) \/ ~Cond.edge \/ (i > 1 /\ ~Holds(all, i - 1))

\* The newest sample is one to notify of when it deserves it and is not within
\* the cooldown of one before.
Expects(all, sooner) ==
  /\ Deserves(all, Len(all))
  /\ \A t \in sooner : all[Len(all)].at - t >= Cond.cooldown

(***************************************************************************)
(* Keys and the queue.                                                     *)
(***************************************************************************)

ConditionKey(t) == <<"condition", t, 0>>
UnavailableKey(t) == <<"metric_unavailable", Day(t), 0>>
DigestKey(t) == <<"digest", Day(t), 0>>
\* Mutant: one key for all messages of a digest.
NewsKeyOfDay(t, i) == <<"rss_digest", Day(t), 0>>
NewsKey(t, i) == <<"rss_digest", Day(t), i>>

\* ON CONFLICT (idempotency_key) DO NOTHING
Inserted(n) == IF \E q \in queue : q.key = n.key THEN queue ELSE queue \cup {n}

\* The next time of the cron expression after t.
NextCron(t) == (t \div spec.period + 1) * spec.period

(***************************************************************************)
(* Types and initial state.                                                *)
(***************************************************************************)

\* Every variable has its type, and the clock is ahead of every evaluation.
TypeOK ==
  /\ now \in Times /\ spec \in Specs
  /\ due \in Nat /\ lockedBy \in Watchers \cup {NoOne}
  /\ \A o \in observations : o \in Observation /\ o.at <= now
  /\ \A n \in queue \cup told \cup lost : n \in Notification
  /\ pc \in [Evaluators -> Stages]
  /\ \A p \in Evaluators : pc[p] \in {"last", "save"} => sample[p] \in Sample
  /\ \A p \in Evaluators : \A i \in 1..Len(plan[p]) : plan[p][i] \in Notification
  /\ failed \in [Evaluators -> BOOLEAN]
  /\ runs \in 0..MaxRuns /\ faults \in 0..MaxFaults

Before(s) == {[at |-> 0, value |-> v, hasState |-> FALSE, matched |-> FALSE, last |-> NoTime] :
             v \in s.reads}

\* A reminder just created, or one whose observation an older version stored.
Init ==
  /\ now = 0 /\ spec \in Specs
  /\ due = 0 /\ lockedBy = NoOne
  /\ observations \in {{}} \cup {{o} : o \in Before(spec)}
  /\ queue = {} /\ told = {} /\ lost = {} /\ editions = {}
  /\ pc = [p \in Evaluators |-> "idle"]
  /\ sample = [p \in Evaluators |-> NoObservation]
  /\ plan = [p \in Evaluators |-> <<>>]
  /\ failed = [p \in Evaluators |-> FALSE]
  /\ samples = IF observations = {} THEN <<>>
               ELSE <<[at |-> 0, value |-> Newest.value]>>
  /\ expected = {}
  /\ overlapped = FALSE /\ disturbed = FALSE
  /\ runs = 0 /\ faults = 0
-----------------------------------------------------------------------------
(***************************************************************************)
(* The steps of an evaluation.                                             *)
(***************************************************************************)

Fault ==
  /\ faults < MaxFaults
  /\ faults' = faults + 1
  /\ UNCHANGED runs

\* Time passes while nobody is at work; a reading of the clock moves it too.
Tick ==
  /\ now < MaxTime /\ \A p \in Evaluators : pc[p] = "idle"
  /\ now' = now + 1
  /\ UNCHANGED <<spec, row, observations, queue, pc, evaluation, history, bounds>>

At(p, stage) == pc[p] = stage
Goto(p, stage) == pc' = [pc EXCEPT ![p] = stage]

\* A watcher leases the reminder when it is due.
LeaseDue(w) ==
  /\ At(w, "idle") /\ lockedBy = NoOne /\ due <= now
  /\ lockedBy' = w
  /\ Goto(w, "evaluate")
  /\ disturbed' = (disturbed \/ \E v \in Watchers \ {w} : ~At(v, "idle"))
  /\ UNCHANGED <<now, spec, due, observations, queue, evaluation, told, series,
                 editions, overlapped, lost, bounds>>

\* /run evaluates at once, whatever the lock and the due time are.
runNow ==
  /\ At(Bot, "idle") /\ runs < MaxRuns
  /\ runs' = runs + 1
  /\ Goto(Bot, "evaluate")
  /\ UNCHANGED <<now, spec, row, observations, queue, evaluation, history, faults>>

\* An evaluation starts by reading the clock.
ReadClock(p) ==
  /\ At(p, "evaluate") /\ now < MaxTime
  /\ now' = now + 1
  /\ overlapped' = (overlapped \/ \E q \in Evaluators \ {p} : pc[q] \in {"last", "save"})

Planned(p, notifications) ==
  /\ plan' = [plan EXCEPT ![p] = notifications]
  /\ failed' = [failed EXCEPT ![p] = FALSE]
  /\ Goto(p, "announce")

\* Evaluate returns an error: a watcher retries, /run reports it.
Errs(p) == Goto(p, IF p = Bot THEN "idle" ELSE "retry")

evaluateInvalid(p) ==
  /\ ReadClock(p)
  /\ spec.trigger = "threshold" /\ ~ValidSpec(spec)
  /\ Errs(p)
  /\ UNCHANGED <<spec, row, observations, queue, sample, plan, failed,
                 told, series, editions, lost, disturbed, bounds>>

\* The provider answers; a price of zero is no price.
evaluateThreshold(p) ==
  /\ ReadClock(p)
  /\ spec.trigger = "threshold" /\ ValidSpec(spec)
  /\ \E v \in spec.reads :
       /\ ~(spec.price /\ v <= 0)
       /\ sample' = [sample EXCEPT ![p] = [at |-> now + 1, value |-> v, prev |-> NoObservation]]
  /\ Goto(p, "last")
  /\ UNCHANGED <<spec, row, observations, queue, plan, failed,
                 told, series, editions, lost, disturbed, bounds>>

\* The provider fails or has no value: the user hears of it once a day.
metricUnavailable(p) ==
  /\ ReadClock(p)
  /\ spec.trigger = "threshold" /\ ValidSpec(spec)
  /\ Planned(p, <<[key |-> UnavailableKey(now + 1), at |-> now + 1, part |-> 0]>>)
  /\ UNCHANGED <<spec, row, observations, queue, sample,
                 told, series, editions, lost, disturbed, bounds>>

ReadLast(p) ==
  /\ At(p, "last")
  /\ sample' = [sample EXCEPT ![p].prev = Newest]
  /\ Goto(p, "save")
  /\ UNCHANGED <<now, spec, row, observations, queue, plan, failed, history, bounds>>

\* The observation is stored, and with it that the crossing was noticed,
\* before there is a notification of it.
SaveObservation(p) ==
  LET c == reminderCondition(spec)
      m == sample[p]
  IN
  /\ At(p, "save")
  /\ observations' = observations \cup {observed(c, m.value, m.prev, m.at)}
  /\ samples' = Append(samples, [at |-> m.at, value |-> m.value])
  /\ expected' = IF Expects(samples', expected) THEN expected \cup {m.at} ELSE expected
  /\ Planned(p, IF notifies(c, m.value, m.prev, m.at)
                THEN <<[key |-> ConditionKey(m.at), at |-> m.at, part |-> 0]>> ELSE <<>>)
  /\ sample' = [sample EXCEPT ![p] = NoObservation]
  /\ UNCHANGED <<now, spec, row, queue, told, editions,
                 overlapped, lost, disturbed, bounds>>

\* Reading or storing an observation fails.
HistoryFails(p) ==
  /\ pc[p] \in {"last", "save"} /\ Fault
  /\ Errs(p)
  /\ sample' = [sample EXCEPT ![p] = NoObservation]
  /\ UNCHANGED <<now, spec, row, observations, queue, plan, failed, history>>

\* What a digest found is stored too; that this fails is only logged.
StoreDigest ==
  observations' \in {observations,
                     observations \cup {[at |-> now + 1, value |-> 0, hasState |-> FALSE,
                                        matched |-> FALSE, last |-> NoTime]}}

\* Offers, the best price of which is stored, or none of them.
evaluateDigest(p) ==
  /\ ReadClock(p)
  /\ spec.trigger = "digest"
  /\ \/ /\ StoreDigest
        /\ Planned(p, <<[key |-> DigestKey(now + 1), at |-> now + 1, part |-> 0]>>)
     \/ Planned(p, <<>>) /\ UNCHANGED observations
     \/ Errs(p) /\ UNCHANGED <<observations, plan, failed>>
  /\ UNCHANGED <<spec, row, queue, sample,
                 told, series, editions, lost, disturbed, bounds>>

\* The feeds' items, rendered into as many messages as they need: none when
\* there are no items.
evaluateNewsDigest(p) ==
  /\ ReadClock(p)
  /\ spec.trigger = "rss"
  /\ \/ \E n \in Sizes :
          /\ Planned(p, [i \in 1..n |-> [key |-> NewsKey(now + 1, i - 1), at |-> now + 1, part |-> i]])
          /\ editions' = editions \cup {[at |-> now + 1, size |-> n, by |-> p]}
          /\ IF n = 0 THEN UNCHANGED observations ELSE StoreDigest
     \/ Errs(p) /\ UNCHANGED <<observations, editions, plan, failed>>
  /\ UNCHANGED <<spec, row, queue, sample,
                 told, series, lost, disturbed, bounds>>

(***************************************************************************)
(* What becomes of the plan.                                               *)
(***************************************************************************)

Enqueue(w) ==
  /\ At(w, "announce") /\ plan[w] # <<>>
  /\ queue' = Inserted(Head(plan[w]))
  /\ plan' = [plan EXCEPT ![w] = Tail(@)]
  /\ UNCHANGED <<now, spec, row, observations, pc, sample, failed, history, bounds>>

\* The rest of the batch is still inserted.
EnqueueFails(w) ==
  /\ At(w, "announce") /\ plan[w] # <<>> /\ Fault
  /\ failed' = [failed EXCEPT ![w] = TRUE]
  /\ lost' = lost \cup {Head(plan[w])}
  /\ plan' = [plan EXCEPT ![w] = Tail(@)]
  /\ UNCHANGED <<now, spec, row, observations, queue, pc, sample,
                 told, series, editions, overlapped, disturbed>>

\* UpdateNextEval: the due time moves and whoever's lock is released.
Reschedule(w, t) ==
  /\ due' = t /\ lockedBy' = NoOne
  /\ Goto(w, "idle")
  /\ UNCHANGED <<now, spec, observations, queue, evaluation, told, series, editions,
                 overlapped, lost, disturbed, bounds>>

Advance(w) ==
  /\ At(w, "announce") /\ plan[w] = <<>> /\ ~failed[w]
  /\ Reschedule(w, NextCron(now))

\* A minute is less than a tick.
scheduleRetry(w) ==
  /\ At(w, "retry") \/ (At(w, "announce") /\ plan[w] = <<>> /\ failed[w])
  /\ Reschedule(w, now)

\* The update of the reminder fails: the row stays locked and due.
RescheduleFails(w) ==
  /\ At(w, "retry") \/ (At(w, "announce") /\ plan[w] = <<>>)
  /\ Fault
  /\ disturbed' = TRUE
  /\ Goto(w, "idle")
  /\ UNCHANGED <<now, spec, row, observations, queue, evaluation, told, series,
                 editions, overlapped, lost>>

\* /run sends what it planned; a failed send is only logged.
Tell ==
  /\ At(Bot, "announce")
  /\ \/ /\ told' = told \cup {plan[Bot][i] : i \in DOMAIN plan[Bot]}
        /\ UNCHANGED <<lost, bounds>>
     \/ /\ Fault
        /\ lost' = lost \cup {plan[Bot][i] : i \in DOMAIN plan[Bot]}
        /\ UNCHANGED told
  /\ plan' = [plan EXCEPT ![Bot] = <<>>]
  /\ Goto(Bot, "idle")
  /\ UNCHANGED <<now, spec, row, observations, queue, sample, failed,
                 series, editions, overlapped, disturbed>>

(***************************************************************************)
(* The rest of the system.                                                 *)
(***************************************************************************)

\* The lease is five minutes old: others may take the reminder.
LeaseLapses ==
  /\ lockedBy # NoOne
  /\ IF At(lockedBy, "idle") THEN UNCHANGED bounds ELSE Fault
  /\ lockedBy' = NoOne
  /\ UNCHANGED <<now, spec, due, observations, queue, pc, evaluation, history>>

\* Mutant: a start makes every conditional reminder due.
MarkedAllDue == now

\* MarkConditionalDue leaves a digest its time, so that a start sends none.
MarkedDue == IF spec.trigger = "threshold" THEN now ELSE due

\* A worker dies, if it is at work, and starts: it unlocks every conditional
\* reminder, those that another worker evaluates too.
Restart(w) ==
  /\ Fault
  /\ Goto(w, "idle")
  /\ lost' = lost \cup {plan[w][i] : i \in DOMAIN plan[w]}
  /\ disturbed' = (disturbed \/ ~At(w, "idle"))
  /\ plan' = [plan EXCEPT ![w] = <<>>]
  /\ sample' = [sample EXCEPT ![w] = NoObservation]
  /\ due' = MarkedDue /\ lockedBy' = NoOne
  /\ UNCHANGED <<now, spec, observations, queue, failed,
                 told, series, editions, overlapped>>

\* Mutant: the newest observation is counted as one to delete.
PrunableTooMany(o) ==
  /\ Cardinality({x \in observations : x.at > o.at}) + 1 >= Keep
  /\ o.at + DayLength < now

\* The janitor keeps the newest observations, and those of the last day.
Prunable(o) ==
  /\ Cardinality({x \in observations : x.at > o.at}) >= Keep
  /\ o.at + DayLength < now

PruneObservations ==
  /\ \E o \in observations : Prunable(o)
  /\ observations' = {o \in observations : ~Prunable(o)}
  /\ UNCHANGED <<now, spec, row, queue, pc, evaluation, history, bounds>>

EvaluatorStep(p) ==
  \/ evaluateInvalid(p) \/ evaluateThreshold(p) \/ metricUnavailable(p)
  \/ ReadLast(p) \/ SaveObservation(p) \/ HistoryFails(p)
  \/ evaluateDigest(p) \/ evaluateNewsDigest(p)

WatcherStep(w) ==
  \/ LeaseDue(w) \/ Enqueue(w) \/ EnqueueFails(w)
  \/ Advance(w) \/ scheduleRetry(w) \/ RescheduleFails(w) \/ Restart(w)

Next ==
  \/ Tick \/ LeaseLapses \/ PruneObservations \/ runNow \/ Tell
  \/ \E p \in Evaluators : EvaluatorStep(p)
  \/ \E w \in Watchers : WatcherStep(w)

Spec == Init /\ [][Next]_vars

-----------------------------------------------------------------------------
Of(kind, notifications) == {n.at : n \in {m \in notifications : m.key[1] = kind}}
Announced == Of("condition", queue \cup told)
Underway == Of("condition", UNION {{plan[p][i] : i \in DOMAIN plan[p]} : p \in Evaluators})

\* As long as no two evaluations overlap, and whatever fails or restarts, a
\* threshold never announces a sample the README's rules do not announce:
\* the state kept from sample to sample is enough (evaluateThreshold).
NothingExtra ==
  spec.trigger = "threshold" /\ ~overlapped => Announced \subseteq expected

\* As long as no two evaluations overlap and no failure hits between storing
\* an observation and inserting its notification, every sample those rules
\* announce is announced (the order of Save and Enqueue).
NothingMissing ==
  spec.trigger = "threshold" /\ ~overlapped /\ Of("condition", lost) = {}
    => expected \subseteq Announced \cup Underway

\* A news digest evaluated once on its day is delivered whole: none of its
\* messages is taken for a duplicate of another (the keys of
\* evaluateNewsDigest).
NewsIsWhole ==
  \A e \in editions :
    /\ e.by # Bot
    /\ \A f \in editions : f.by # Bot /\ Day(f.at) = Day(e.at) => f = e
    /\ lost = {}
    => \A i \in 1..e.size :
         \E n \in queue \cup {plan[e.by][j] : j \in DOMAIN plan[e.by]} :
           n.at = e.at /\ n.part = i

\* A travel digest is planned at its times only: a worker that starts sends
\* no extra one (MarkConditionalDue), unless an evaluation was cut short, could
\* not be advanced, or had a second watcher beside it.
NoExtraDigest ==
  spec.trigger = "digest" /\ ~disturbed
    => Cardinality(Of("digest", queue)) <= now \div spec.period + 1

\* The janitor never deletes the observation a threshold compares with.
PruneKeepsLast ==
  [][PruneObservations => Newest' = Newest]_vars
=============================================================================
