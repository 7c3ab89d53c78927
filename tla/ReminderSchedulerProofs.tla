---------------------- MODULE ReminderSchedulerProofs ----------------------
(***************************************************************************)
(* For every number of watchers, reminders, events, commands and faults:   *)
(* the types and all the safety properties of ReminderScheduler.           *)
(***************************************************************************)
EXTENDS ReminderScheduler, FiniteSetTheorems, TLAPS

-----------------------------------------------------------------------------
(***************************************************************************)
(* The inductive invariant.                                                *)
(***************************************************************************)

\* An evaluation plans one notification at most: under the key of an event
\* for an anchor, under that of the leased due time for any other reminder.
PlansOne ==
  \A w \in Watchers :
    /\ plan[w] = {} \/ \E p \in Plans : plan[w] = {p}
    /\ pc[w] \in {"enqueue", "advance"} =>
         IF cur[w] \in Anchors
         THEN \A p \in plan[w] : p.key \in {User} \X Events
         ELSE plan[w] = EvaluateScheduled(cur[w], copy[w][cur[w]].due)

\* A scheduled reminder's key is used by rows of that reminder only, and it
\* never becomes a conditional one.
KeysAreOwn ==
  \A r \in Reminders :
    /\ \A t \in Times : queue[<<r, t>>] # NoRow => queue[<<r, t>>].owner = r
    /\ kind[r] = "conditional" => r \in Anchors

\* Whoever is about to advance a scheduled reminder has its row in the queue.
AdvanceIsPlanned ==
  \A w \in Watchers :
    pc[w] = "advance" /\ cur[w] \notin Anchors /\ Exists(cur[w]) => Planned(cur[w])

\* The dialog's version is one the reminder had, and its status is the one
\* the reminder had with it.
DialogRemembers ==
  dialog # NoDialog =>
    /\ dialog.rem \in Reminders
    /\ dialog.version <= version[dialog.rem]
    /\ CurrentEdit => dialog.status = status[dialog.rem]

\* Nobody holds a reminder that was withdrawn out of nobody's hands.
WithdrawnIsFree ==
  \A r \in Reminders : status[r] \in {"paused", "cancelled"} /\ ~raced[r] => ~Held(r)

\* A slot is not later than the evaluation that stands for it, was leased
\* when it was over, and has rows only when it is over.
SlotsArePast ==
  /\ \A r \in Reminders : slot[r] <= nextEval[r]
  /\ \A w \in Watchers : \A r \in batch[w] : copy[w][r].slot <= now
  /\ \A r \in Reminders, s \in Times : fired[r][s] > 0 => s <= now

\* As long as no lease overran and no announced slot was retried, each slot
\* of a scheduled reminder is in the hands of one watcher at most, who holds
\* the lock while the row still stands for that slot.
SlotHasOneHolder ==
  \A r \in Reminders \ Anchors, w \in Watchers :
    ~exposed[r] /\ r \in batch[w] =>
      /\ \A v \in Watchers \ {w} : r \in batch[v] => copy[v][r].slot # copy[w][r].slot
      /\ slot[r] = copy[w][r].slot /\ Exists(r) =>
           /\ lockedBy[r] = w /\ ~lapsed[r]
           /\ nextEval[r] = copy[w][r].due

\* A slot that was announced is known by one key to everybody who may
\* announce it again.
Announced(r, s) ==
  \E d \in Times :
    /\ queue[<<r, d>>] # NoRow
    /\ slot[r] = s => nextEval[r] = d
    /\ \A w \in Watchers : r \in batch[w] /\ copy[w][r].slot = s => copy[w][r].due = d

SlotHasOneKey ==
  \A r \in Reminders \ Anchors, s \in Times :
    ~exposed[r] /\ fired[r][s] > 0 =>
      /\ fired[r][s] = 1
      /\ Exists(r) => Announced(r, s)

SchedulerInv ==
  /\ TypeOK
  /\ PlansOne
  /\ KeysAreOwn
  /\ AdvanceIsPlanned
  /\ DialogRemembers
  /\ WithdrawnIsFree
  /\ WithdrawnIsSilent
  /\ SlotsArePast
  /\ SlotHasOneHolder
  /\ SlotHasOneKey

-----------------------------------------------------------------------------
(***************************************************************************)
(* Lemmas about the operators of the table and the queue.                  *)
(***************************************************************************)

\* A reminder's key is a key, and different from those of anchors.
LEMMA KeyFacts ==
  /\ \A r \in Reminders, t \in Times : <<r, t>> \in Keys
  /\ \A e \in Events : <<User, e>> \in Keys
  /\ \A r \in Reminders, t \in Times, e \in Events : <<r, t>> # <<User, e>>
  /\ NoRow \notin Rows
BY SchedulerAssumption DEF Keys, NoRow, Rows

\* What UpdateNextEval writes has its type (UpdateNextEval in reminders.go).
LEMMA UpdateNextEvalTyped ==
  ASSUME NEW r \in Reminders, NEW t \in Times, NEW s \in Times,
         ColumnTypeOK, slot \in [Reminders -> Times], UpdateNextEval(r, t, s), queue' = queue
  PROVE  ColumnTypeOK' /\ slot' \in [Reminders -> Times]
<1>1. CASE Exists(r)
  BY <1>1 DEF UpdateNextEval, ColumnTypeOK
<1>2. CASE ~Exists(r)
  BY <1>2 DEF UpdateNextEval, ColumnTypeOK, columns
<1> QED
  BY <1>1, <1>2

\* So has what UpdateStatusDone writes.
LEMMA UpdateStatusDoneTyped ==
  ASSUME NEW r \in Reminders,
         ColumnTypeOK, slot \in [Reminders -> Times], UpdateStatusDone(r), queue' = queue
  PROVE  ColumnTypeOK' /\ slot' \in [Reminders -> Times]
<1>1. CASE Exists(r)
  BY <1>1 DEF UpdateStatusDone, ColumnTypeOK, Statuses
<1>2. CASE ~Exists(r)
  BY <1>2 DEF UpdateStatusDone, ColumnTypeOK, columns
<1> QED
  BY <1>1, <1>2

\* Every evaluation plans one notification at most, for an anchor that of one
\* of the nearest events (evaluateAnchor).
LEMMA EvaluationsPlanOne ==
  ASSUME NEW r \in Reminders, NEW t \in Times, now \in 0..MaxTime,
         NEW P \in EvaluationsOf(r, t)
  PROVE  P = {} \/ \E p \in Plans : P = {p}
<1> USE SchedulerAssumption
<1>1. CASE r \in Anchors
  <2>1. CASE P = {}
    BY <2>1
  <2>2. CASE \E e \in Nearest(r) : P = EvaluateAnchor(r, e)
    <3>1. PICK e \in Nearest(r) : P = EvaluateAnchor(r, e)
      BY <2>2
    <3>2. e \in Events /\ (FireAt(r, e) >= now \/ EventAt[e] > now)
      BY DEF Nearest, Upcoming
    <3>3. EventAt[e] \in 0..(MaxTime + 1) /\ LeadOf[r] \in Nat
      BY <3>2 DEF Times
    <3>4. (IF FireAt(r, e) < now THEN now ELSE FireAt(r, e)) \in Times
      BY <3>2, <3>3 DEF FireAt, Times
    <3>5. [key |-> <<User, e>>, at |-> IF FireAt(r, e) < now THEN now ELSE FireAt(r, e)] \in Plans
      BY <3>2, <3>4, KeyFacts DEF Plans
    <3> QED
      BY <3>1, <3>5 DEF EvaluateAnchor
  <2> QED
    BY <1>1, <2>1, <2>2 DEF EvaluationsOf
<1>2. CASE r \notin Anchors
  BY <1>2, KeyFacts DEF EvaluationsOf, EvaluateScheduled, Plans
<1> QED
  BY <1>1, <1>2

\* What an insert of one planned notification does, or does not (Enqueue).
LEMMA InsertOne ==
  ASSUME NEW r \in Reminders, NEW s \in Times, NEW P,
         P = {} \/ \E p \in Plans : P = {p},
         queue \in [Keys -> Rows \cup {NoRow}], fired \in [Reminders -> [Times -> Nat]],
         InsertPlan(r, P, s)
  PROVE  \/ queue' = queue /\ fired' = fired /\ \A p \in P : queue[p.key] # NoRow
         \/ \E p \in Plans :
              /\ P = {p} /\ queue[p.key] = NoRow
              /\ queue' = [queue EXCEPT ![p.key] = [state |-> "pending", owner |-> r, at |-> p.at]]
              /\ fired' = [fired EXCEPT ![r][s] = @ + 1]
<1> DEFINE New == {p \in P : queue[p.key] = NoRow}
<1>1. CASE New = {}
  <2>1. Cardinality(New) = 0
    BY <1>1, FS_EmptySet
  <2>2. fired' = [fired EXCEPT ![r][s] = @ + 0]
    BY <2>1 DEF InsertPlan
  <2>3. fired' = fired
    BY <2>2
  <2>4. queue' = queue
    BY <1>1 DEF InsertPlan
  <2> QED
    BY <1>1, <2>3, <2>4
<1>2. CASE New # {}
  <2>1. PICK p \in Plans : P = {p} /\ queue[p.key] = NoRow
    BY <1>2
  <2>2. New = {p}
    BY <2>1
  <2>3. Cardinality(New) = 1
    BY <2>2, FS_Singleton
  <2>4. fired' = [fired EXCEPT ![r][s] = @ + 1]
    BY <2>3 DEF InsertPlan
  <2>5. (CHOOSE q \in {p} : q.key = p.key) = p
    OBVIOUS
  <2>6. queue' = [k \in Keys |-> IF p.key = k THEN [state |-> "pending", owner |-> r, at |-> p.at]
                                 ELSE queue[k]]
    BY <2>2, <2>5 DEF InsertPlan
  <2>7. p.key \in Keys
    BY DEF Plans
  <2>8. queue' = [queue EXCEPT ![p.key] = [state |-> "pending", owner |-> r, at |-> p.at]]
    BY <2>6, <2>7
  <2> QED
    BY <2>1, <2>4, <2>8
<1> QED
  BY <1>1, <1>2

-----------------------------------------------------------------------------
(***************************************************************************)
(* Types.                                                                  *)
(***************************************************************************)

\* The clock, the leases and the table keep their types when time passes,
\* a watcher starts or a lease is taken.
LEMMA TableStepTyped ==
  ASSUME TypeOK,
         \/ Tick
         \/ \E r \in Reminders : OrphanLapses(r) \/ LeaseOverruns(r)
         \/ \E w \in Watchers : Startup(w) \/ StartupFails(w) \/ LeaseDue(w) \/ LeaseAnswerLost(w)
         \/ \E k \in Keys : Deliver(k)
  PROVE  TypeOK'
<1> USE SchedulerAssumption DEF TypeOK, columns, watcher, history
<1>1. CASE Tick
  BY <1>1 DEF Tick, ColumnTypeOK, WatcherTypeOK, DialogTypeOK, HistoryTypeOK
<1>2. ASSUME NEW r \in Reminders, OrphanLapses(r) \/ LeaseOverruns(r)
      PROVE  TypeOK'
  <2> USE <1>2 DEF OrphanLapses, LeaseOverruns, Lapses, Fault
  <2>1. ColumnTypeOK'
    BY DEF ColumnTypeOK
  <2>2. exposed' \in [Reminders -> BOOLEAN]
    <3>1. CASE OrphanLapses(r)
      BY <3>1 DEF HistoryTypeOK
    <3>2. CASE LeaseOverruns(r)
      BY <3>2, Zenon DEF HistoryTypeOK
    <3> QED
      BY <3>1, <3>2
  <2>3. faults' \in Nat
    BY DEF HistoryTypeOK
  <2>4. HistoryTypeOK'
    BY <2>2, <2>3 DEF HistoryTypeOK
  <2>5. now' \in 0..MaxTime /\ WatcherTypeOK' /\ DialogTypeOK'
    BY DEF WatcherTypeOK, DialogTypeOK
  <2> QED
    BY <2>1, <2>4, <2>5
<1>3. ASSUME NEW w \in Watchers, Startup(w)
      PROVE  TypeOK'
  <2> USE <1>3 DEF Startup, MarkConditionalDue
  <2>0. now \in Times
    BY DEF Times
  <2>1. ColumnTypeOK'
    <3>1. nextEval' \in [Reminders -> Times]
      BY <2>0 DEF ColumnTypeOK
    <3>2. lapsed' \in [Reminders -> BOOLEAN]
      BY DEF ColumnTypeOK
    <3>3. lockedBy' \in [Reminders -> Watchers \cup {NoWatcher}]
      BY DEF ColumnTypeOK
    <3> QED
      BY <3>1, <3>2, <3>3 DEF ColumnTypeOK
  <2>2. WatcherTypeOK'
    BY DEF WatcherTypeOK, Stages
  <2>3. HistoryTypeOK'
    BY <2>0 DEF HistoryTypeOK
  <2>4. now' \in 0..MaxTime /\ DialogTypeOK'
    BY DEF DialogTypeOK
  <2> QED
    BY <2>1, <2>2, <2>3, <2>4
<1>4. ASSUME NEW w \in Watchers, StartupFails(w)
      PROVE  TypeOK'
  <2> USE <1>4 DEF StartupFails, Fault
  <2>1. WatcherTypeOK'
    BY DEF WatcherTypeOK, Stages
  <2>2. HistoryTypeOK'
    BY DEF HistoryTypeOK
  <2>3. now' \in 0..MaxTime /\ ColumnTypeOK' /\ DialogTypeOK'
    BY DEF ColumnTypeOK, DialogTypeOK
  <2> QED
    BY <2>1, <2>2, <2>3
<1>5. ASSUME NEW w \in Watchers, LeaseDue(w)
      PROVE  TypeOK'
  <2> USE <1>5 DEF LeaseDue
  <2>1. PICK B \in SUBSET Reminders :
          /\ LeaseRows(w, B)
          /\ batch' = [batch EXCEPT ![w] = B]
          /\ copy' = [copy EXCEPT ![w] = [r \in Reminders |->
               IF r \in B THEN [kind |-> kind[r], due |-> nextEval[r], slot |-> slot[r]]
               ELSE NoCopy]]
          /\ asked' = [r \in Reminders |-> IF r \in B THEN NoTime ELSE asked[r]]
    BY DEF Batches, Leasable
  <2>2. ColumnTypeOK'
    BY <2>1 DEF ColumnTypeOK, LeaseRows
  <2>3. [r \in Reminders |->
           IF r \in B THEN [kind |-> kind[r], due |-> nextEval[r], slot |-> slot[r]]
           ELSE NoCopy] \in [Reminders -> Copies]
    BY DEF ColumnTypeOK, HistoryTypeOK, NoCopy, Copies, Times, Kinds
  <2>4. copy' \in [Watchers -> [Reminders -> Copies]]
    BY <2>1, <2>3 DEF WatcherTypeOK
  <2>5. WatcherTypeOK'
    BY <2>1, <2>4 DEF WatcherTypeOK
  <2>6. HistoryTypeOK'
    BY <2>1 DEF HistoryTypeOK
  <2>7. now' \in 0..MaxTime /\ DialogTypeOK'
    BY DEF DialogTypeOK
  <2> QED
    BY <2>2, <2>5, <2>6, <2>7
<1>6. ASSUME NEW w \in Watchers, LeaseAnswerLost(w)
      PROVE  TypeOK'
  <2> USE <1>6 DEF LeaseAnswerLost, Fault
  <2>1. ColumnTypeOK'
    <3>1. PICK B \in SUBSET Reminders : LeaseRows(w, B)
      BY DEF Batches, Leasable
    <3> QED
      BY <3>1 DEF ColumnTypeOK, LeaseRows
  <2>2. HistoryTypeOK'
    BY DEF HistoryTypeOK
  <2>3. now' \in 0..MaxTime /\ WatcherTypeOK' /\ DialogTypeOK'
    BY DEF WatcherTypeOK, DialogTypeOK
  <2> QED
    BY <2>1, <2>2, <2>3
<1>7. ASSUME NEW k \in Keys, Deliver(k)
      PROVE  TypeOK'
  <2> USE <1>7 DEF Deliver
  <2>1. queue[k] \in Rows
    BY DEF ColumnTypeOK, NoRow
  <2>2. [queue[k] EXCEPT !.state = "sent"] \in Rows
    BY <2>1 DEF Rows
  <2>3. ColumnTypeOK'
    BY <2>2 DEF ColumnTypeOK
  <2>4. now' \in 0..MaxTime /\ WatcherTypeOK' /\ DialogTypeOK' /\ HistoryTypeOK'
    BY DEF WatcherTypeOK, DialogTypeOK, HistoryTypeOK
  <2> QED
    BY <2>3, <2>4
<1> QED
  BY <1>1, <1>2, <1>3, <1>4, <1>5, <1>6, <1>7

\* A watcher keeps the types while it processes its batch.
LEMMA WatcherStepTyped ==
  ASSUME TypeOK, PlansOne, NEW w \in Watchers,
         WatcherStep(w) \/ EnqueueAnswerLost(w) \/ WriteLost(w) \/ Crash(w)
  PROVE  TypeOK'
<1> USE SchedulerAssumption DEF TypeOK, columns, watcher, history
<1>1. CASE Evaluate(w)
  <2> USE <1>1 DEF Evaluate
  <2>1. plan' \in [Watchers -> SUBSET Plans]
    BY EvaluationsPlanOne DEF WatcherTypeOK, Copies
  <2>2. WatcherTypeOK'
    BY <2>1 DEF WatcherTypeOK, Stages
  <2>3. now' \in 0..MaxTime /\ ColumnTypeOK' /\ DialogTypeOK' /\ HistoryTypeOK'
    BY DEF ColumnTypeOK, DialogTypeOK, HistoryTypeOK
  <2> QED
    BY <2>2, <2>3
<1>2. CASE EvaluateFails(w) \/ EnqueueFails(w)
  <2> USE <1>2 DEF EvaluateFails, EnqueueFails
  <2>1. WatcherTypeOK'
    <3>1. CASE EvaluateFails(w)
      BY <3>1 DEF WatcherTypeOK, Stages
    <3>2. CASE EnqueueFails(w)
      BY <3>2 DEF WatcherTypeOK, Stages
    <3> QED
      BY <3>1, <3>2
  <2>2. now' \in 0..MaxTime /\ ColumnTypeOK' /\ DialogTypeOK' /\ HistoryTypeOK'
    BY DEF ColumnTypeOK, DialogTypeOK, HistoryTypeOK
  <2> QED
    BY <2>1, <2>2
<1>3. CASE EnqueuePlan(w) \/ EnqueueAnswerLost(w)
  <2> USE <1>3 DEF EnqueuePlan, EnqueueAnswerLost, Fault
  <2>1. cur[w] \in Reminders /\ copy[w][cur[w]].slot \in Times
    BY DEF WatcherTypeOK, Copies
  <2> DEFINE R == cur[w]
             s == copy[w][cur[w]].slot
             Row(p) == [state |-> "pending", owner |-> R, at |-> p.at]
  <2>2. \/ queue' = queue /\ fired' = fired
        \/ \E p \in Plans : /\ queue' = [queue EXCEPT ![p.key] = Row(p)]
                             /\ fired' = [fired EXCEPT ![R][s] = @ + 1]
    <3>1. plan[w] = {} \/ \E p \in Plans : plan[w] = {p}
      BY DEF PlansOne
    <3>2. InsertPlan(R, plan[w], s)
      OBVIOUS
    <3>3. queue \in [Keys -> Rows \cup {NoRow}] /\ fired \in [Reminders -> [Times -> Nat]]
      BY DEF ColumnTypeOK, HistoryTypeOK
    <3>4. R \in Reminders /\ s \in Times
      BY <2>1
    <3> HIDE DEF R, s
    <3> QED
      BY <3>1, <3>2, <3>3, <3>4, InsertOne
  <2> HIDE DEF R, s
  <2>3. queue' \in [Keys -> Rows \cup {NoRow}]
    <3>1. \A p \in Plans : Row(p) \in Rows
      BY <2>1 DEF Plans, Rows, R
    <3> HIDE DEF Row
    <3> QED
      BY <2>2, <3>1 DEF ColumnTypeOK
  <2>4. fired' \in [Reminders -> [Times -> Nat]]
    <3> HIDE DEF Row
    <3>1. R \in Reminders /\ s \in Times
      BY <2>1 DEF R, s
    <3>2. [fired EXCEPT ![R][s] = @ + 1] \in [Reminders -> [Times -> Nat]]
      BY <3>1 DEF HistoryTypeOK
    <3> QED
      BY <2>2, <3>2 DEF HistoryTypeOK
  <2>5. ColumnTypeOK' /\ HistoryTypeOK'
    BY <2>3, <2>4 DEF ColumnTypeOK, HistoryTypeOK
  <2>6. WatcherTypeOK'
    BY DEF WatcherTypeOK, Stages
  <2>7. now' \in 0..MaxTime /\ DialogTypeOK'
    BY DEF DialogTypeOK
  <2> QED
    BY <2>5, <2>6, <2>7
<1>4. CASE Advance(w) \/ ScheduleRetry(w) \/ WriteLost(w)
  <2>1. NextReminder(w) /\ cur[w] \in Reminders /\ copy[w][cur[w]] \in Copies
    BY <1>4 DEF Advance, ScheduleRetry, WriteLost, WatcherTypeOK
  <2>2. WatcherTypeOK'
    <3>1. copy' \in [Watchers -> [Reminders -> Copies]]
      BY <2>1, KeyFacts DEF NextReminder, WatcherTypeOK, NoCopy, Copies, Kinds, Times
    <3>2. batch' \in [Watchers -> SUBSET Reminders] /\ plan' \in [Watchers -> SUBSET Plans]
      BY <2>1 DEF NextReminder, WatcherTypeOK
    <3>3. pc' \in [Watchers -> Stages] /\ cur' \in [Watchers -> Reminders]
      BY <2>1 DEF NextReminder, WatcherTypeOK, Stages
    <3>4. ASSUME NEW v \in Watchers, pc'[v] \in {"enqueue", "advance", "retry"}
          PROVE  cur'[v] \in batch'[v]
      BY <3>4, <2>1 DEF NextReminder, WatcherTypeOK
    <3> QED
      BY <3>1, <3>2, <3>3, <3>4 DEF WatcherTypeOK
  <2>3. ColumnTypeOK' /\ slot' \in [Reminders -> Times]
    <3>1. now + 1 \in Times /\ copy[w][cur[w]].slot \in Times
      BY <2>1 DEF Times, Copies
    <3>2. slot \in [Reminders -> Times]
      BY DEF HistoryTypeOK
    <3>3. CASE ScheduleRetry(w)
      BY <2>1, <3>1, <3>2, <3>3, UpdateNextEvalTyped DEF ScheduleRetry
    <3>4. CASE Advance(w)
      BY <2>1, <3>1, <3>2, <3>4, UpdateNextEvalTyped, UpdateStatusDoneTyped DEF Advance, AdvanceRow
    <3>5. CASE WriteLost(w)
      BY <3>2, <3>5 DEF WriteLost, ColumnTypeOK
    <3> QED
      BY <1>4, <3>3, <3>4, <3>5
  <2>4. HistoryTypeOK'
    <3>1. CASE ScheduleRetry(w)
      <4>1. exposed' \in [Reminders -> BOOLEAN]
        <5> DEFINE a == fired[cur[w]][copy[w][cur[w]].slot] > 0
        <5>1. exposed' = [exposed EXCEPT ![cur[w]] = exposed[cur[w]] \/ a]
          BY <3>1 DEF ScheduleRetry
        <5>2. exposed \in [Reminders -> BOOLEAN]
          BY DEF HistoryTypeOK
        <5>3. (exposed[cur[w]] \/ a) \in BOOLEAN
          OBVIOUS
        <5> HIDE DEF a
        <5> QED
          BY <5>1, <5>2, <5>3, Zenon
      <4> QED
        BY <3>1, <4>1, <2>3 DEF ScheduleRetry, HistoryTypeOK
    <3>2. CASE Advance(w)
      BY <3>2, <2>3 DEF Advance, HistoryTypeOK
    <3>3. CASE WriteLost(w)
      BY <3>3 DEF WriteLost, Fault, HistoryTypeOK
    <3> QED
      BY <1>4, <3>1, <3>2, <3>3
  <2>5. now' \in 0..MaxTime /\ DialogTypeOK'
    BY <1>4 DEF Advance, ScheduleRetry, WriteLost, DialogTypeOK
  <2> QED
    BY <2>2, <2>3, <2>4, <2>5
<1>5. CASE Crash(w)
  <2> USE <1>5 DEF Crash, Fault
  <2>1. copy' \in [Watchers -> [Reminders -> Copies]]
    BY DEF WatcherTypeOK, NoCopy, Copies, Kinds, Times
  <2>2. WatcherTypeOK'
    BY <2>1 DEF WatcherTypeOK, Stages
  <2>3. HistoryTypeOK'
    BY DEF HistoryTypeOK
  <2>4. now' \in 0..MaxTime /\ ColumnTypeOK' /\ DialogTypeOK'
    BY DEF ColumnTypeOK, DialogTypeOK
  <2> QED
    BY <2>2, <2>3, <2>4
<1> QED
  BY <1>1, <1>2, <1>3, <1>4, <1>5 DEF WatcherStep

\* Cancelling keeps the queue's type (cancelPendingNotifications).
LEMMA CancelTyped ==
  ASSUME NEW r \in Reminders, queue \in [Keys -> Rows \cup {NoRow}], CancelPending(r)
  PROVE  queue' \in [Keys -> Rows \cup {NoRow}]
<1>1. ASSUME NEW k \in Keys, k \in OwnRows(r)
      PROVE  [queue[k] EXCEPT !.state = "cancelled"] \in Rows
  BY <1>1 DEF OwnRows, Rows
<1> QED
  BY <1>1 DEF CancelPending

\* So do the user's commands.
LEMMA UserStepTyped ==
  ASSUME TypeOK,
         (\E r \in Reminders : UserStep(r)) \/ SaveEdit \/ EditConflicts \/ EditExpires,
         DialogRemembers
  PROVE  TypeOK'
<1> USE SchedulerAssumption DEF TypeOK, columns, watcher, history, Command
<1>1. ASSUME NEW r \in Reminders, NEW s \in {"paused", "done", "cancelled"}, Withdraw(r, s)
      PROVE  TypeOK'
  <2> USE <1>1 DEF Withdraw, SetStatus
  <2>1. ColumnTypeOK'
    BY CancelTyped DEF ColumnTypeOK, Statuses
  <2>2. HistoryTypeOK'
    BY DEF HistoryTypeOK, Held
  <2>3. now' \in 0..MaxTime /\ WatcherTypeOK' /\ DialogTypeOK'
    BY DEF WatcherTypeOK, DialogTypeOK
  <2> QED
    BY <2>1, <2>2, <2>3
<1>2. ASSUME NEW r \in Reminders, Resume(r)
      PROVE  TypeOK'
  <2> USE <1>2 DEF Resume, SetStatus
  <2>1. ColumnTypeOK'
    BY DEF ColumnTypeOK, Statuses
  <2>2. HistoryTypeOK'
    BY DEF HistoryTypeOK
  <2>3. now' \in 0..MaxTime /\ WatcherTypeOK' /\ DialogTypeOK'
    BY DEF WatcherTypeOK, DialogTypeOK
  <2> QED
    BY <2>1, <2>2, <2>3
<1>3. ASSUME NEW r \in Reminders, Remove(r)
      PROVE  TypeOK'
  <2> USE <1>3 DEF Remove
  <2>1. ColumnTypeOK'
    BY DEF ColumnTypeOK, Statuses
  <2>2. HistoryTypeOK'
    BY DEF HistoryTypeOK
  <2>3. now' \in 0..MaxTime /\ WatcherTypeOK' /\ DialogTypeOK'
    BY DEF WatcherTypeOK, DialogTypeOK
  <2> QED
    BY <2>1, <2>2, <2>3
<1>4. ASSUME NEW r \in Reminders, BeginEdit(r)
      PROVE  TypeOK'
  BY <1>4 DEF BeginEdit, ColumnTypeOK, WatcherTypeOK, DialogTypeOK, HistoryTypeOK
<1>5. CASE EditConflicts \/ EditExpires
  BY <1>5 DEF EditConflicts, EditExpires, NoDialog, Statuses,
              ColumnTypeOK, WatcherTypeOK, DialogTypeOK, HistoryTypeOK
<1>6. CASE SaveEdit
  <2> USE <1>6 DEF SaveEdit
  <2>1. dialog.rem \in Reminders
    BY DEF DialogRemembers
  <2>2. PICK k \in Kinds, t \in Times :
          /\ kind' = [kind EXCEPT ![dialog.rem] = k]
          /\ nextEval' = [nextEval EXCEPT ![dialog.rem] = t]
          /\ slot' = [slot EXCEPT ![dialog.rem] = t]
          /\ asked' = [asked EXCEPT ![dialog.rem] = t]
    <3>1. EditedKinds(dialog.rem) \subseteq Kinds
      BY <2>1 DEF EditedKinds, ColumnTypeOK, Kinds
    <3>2. \A k \in Kinds : EditedTimes(k) \subseteq Times
      BY DEF EditedTimes, Times
    <3> QED
      BY <3>1, <3>2
  <2>3. ColumnTypeOK'
    BY <2>1, <2>2, CancelTyped DEF ColumnTypeOK
  <2>4. HistoryTypeOK'
    BY <2>1, <2>2 DEF HistoryTypeOK
  <2>5. now' \in 0..MaxTime /\ WatcherTypeOK' /\ DialogTypeOK'
    BY DEF WatcherTypeOK, DialogTypeOK, NoDialog, Statuses
  <2> QED
    BY <2>3, <2>4, <2>5
<1> QED
  BY <1>1, <1>2, <1>3, <1>4, <1>5, <1>6 DEF UserStep

-----------------------------------------------------------------------------
(***************************************************************************)
(* Frames: what a step must leave alone for a clause to survive it.        *)
(***************************************************************************)

\* The rows of a reminder that is there stay there.
RowsStay ==
  \A r \in Reminders :
    Exists(r)' => /\ Exists(r)
                  /\ \A t \in Times : queue[<<r, t>>] # NoRow => queue'[<<r, t>>] # NoRow

\* No slot that has a row gets a new due time, and what a watcher newly has
\* in its hands is what the table said.
SlotsStay ==
  /\ fired' = fired
  /\ \A r \in Reminders \ Anchors :
       /\ exposed[r] => exposed'[r]
       /\ \A s \in Times :
            ~exposed'[r] /\ fired[r][s] > 0 /\ slot'[r] = s
              => slot[r] = s /\ nextEval'[r] = nextEval[r]
       /\ \A w \in Watchers : r \in batch'[w] =>
            \/ r \in batch[w] /\ copy'[w][r] = copy[w][r]
            \/ copy'[w][r].slot = slot[r] /\ copy'[w][r].due = nextEval[r]

\* A step that inserts no row keeps the one key of each slot.
LEMMA SlotsStayKeyed ==
  ASSUME SlotHasOneKey, RowsStay, SlotsStay
  PROVE  SlotHasOneKey'
<1> SUFFICES ASSUME NEW r \in Reminders \ Anchors, NEW s \in Times,
                    ~exposed'[r], fired'[r][s] > 0
             PROVE  fired'[r][s] = 1 /\ (Exists(r)' => Announced(r, s)')
  BY DEF SlotHasOneKey
<1>1. ~exposed[r] /\ fired'[r][s] = fired[r][s] /\ fired[r][s] > 0
  BY DEF SlotsStay
<1>2. ASSUME Exists(r)'
      PROVE  Announced(r, s)'
  <2>1. PICK d \in Times :
          /\ queue[<<r, d>>] # NoRow
          /\ slot[r] = s => nextEval[r] = d
          /\ \A w \in Watchers : r \in batch[w] /\ copy[w][r].slot = s => copy[w][r].due = d
    BY <1>1, <1>2 DEF SlotHasOneKey, RowsStay, Announced
  <2>2. queue'[<<r, d>>] # NoRow
    BY <1>2, <2>1 DEF RowsStay
  <2>3. slot'[r] = s => nextEval'[r] = d
    BY <1>1, <2>1 DEF SlotsStay
  <2>4. ASSUME NEW w \in Watchers, r \in batch'[w], copy'[w][r].slot = s
        PROVE  copy'[w][r].due = d
    BY <2>1, <2>4 DEF SlotsStay
  <2> QED
    BY <2>2, <2>3, <2>4 DEF Announced
<1> QED
  BY <1>1, <1>2 DEF SlotHasOneKey

\* A step that makes no watcher ready to advance keeps AdvanceIsPlanned.
LEMMA AdvanceStaysPlanned ==
  ASSUME AdvanceIsPlanned, RowsStay, cur \in [Watchers -> Reminders],
         \A w \in Watchers : pc'[w] = "advance" => pc[w] = "advance" /\ cur'[w] = cur[w]
  PROVE  AdvanceIsPlanned'
<1> SUFFICES ASSUME NEW w \in Watchers,
                    pc'[w] = "advance", cur'[w] \notin Anchors, status'[cur'[w]] # "removed"
             PROVE  \E t \in Times : queue'[<<cur'[w], t>>] # NoRow
  BY DEF AdvanceIsPlanned, Planned, Exists
<1>1. pc[w] = "advance" /\ cur'[w] = cur[w] /\ cur[w] \in Reminders /\ Exists(cur[w])
  BY DEF RowsStay, Exists
<1>2. PICK t \in Times : queue[<<cur[w], t>>] # NoRow
  BY <1>1 DEF AdvanceIsPlanned, Planned
<1> QED
  BY <1>1, <1>2 DEF RowsStay, Exists

\* Rows stay when the queue does, and no deleted reminder comes back.
LEMMA RowsStayPut ==
  ASSUME queue' = queue, \A r \in Reminders : status'[r] # "removed" => status[r] # "removed"
  PROVE  RowsStay
BY DEF RowsStay, Exists

\* Rows are neither made nor deleted, nor given away, nor opened again.
RowsOnlyClose ==
  \A k \in Keys :
    /\ queue'[k] = NoRow <=> queue[k] = NoRow
    /\ queue[k] # NoRow => queue'[k].owner = queue[k].owner
    /\ queue'[k].state = "pending" => queue[k].state = "pending"

\* Cancelling a reminder's pending rows closes them and does nothing else
\* (cancelPendingNotifications).
LEMMA CancelCloses ==
  ASSUME NEW r \in Reminders, queue \in [Keys -> Rows \cup {NoRow}], CancelPending(r)
  PROVE  RowsOnlyClose /\ \A k \in OwnRows(r) : queue'[k].state # "pending"
<1> SUFFICES ASSUME NEW k \in Keys
             PROVE  /\ queue'[k] = NoRow <=> queue[k] = NoRow
                    /\ queue[k] # NoRow => queue'[k].owner = queue[k].owner
                    /\ queue'[k].state = "pending" => queue[k].state = "pending" /\ k \notin OwnRows(r)
  BY DEF RowsOnlyClose, OwnRows
<1>1. CASE k \in OwnRows(r) /\ queue[k].state = "pending"
  <2>1. queue'[k] = [queue[k] EXCEPT !.state = "cancelled"]
    BY <1>1 DEF CancelPending
  <2>2. queue[k] \in Rows
    BY <1>1 DEF OwnRows
  <2>3. queue'[k] \in Rows /\ queue'[k].owner = queue[k].owner /\ queue'[k].state = "cancelled"
    BY <2>1, <2>2 DEF Rows
  <2> QED
    BY <1>1, <2>3, KeyFacts DEF OwnRows
<1>2. CASE ~(k \in OwnRows(r) /\ queue[k].state = "pending")
  BY <1>2 DEF CancelPending
<1> QED
  BY <1>1, <1>2

\* A delivery closes a row, too (Deliver).
LEMMA DeliverCloses ==
  ASSUME NEW k \in Keys, queue \in [Keys -> Rows \cup {NoRow}], Deliver(k)
  PROVE  RowsOnlyClose
<1>1. queue[k] \in Rows
  BY DEF Deliver, NoRow
<1>2. [queue[k] EXCEPT !.state = "sent"] \in Rows
  BY <1>1 DEF Rows
<1>3. queue'[k] = [queue[k] EXCEPT !.state = "sent"]
  BY DEF Deliver
<1>4. queue'[k] # NoRow /\ queue[k] # NoRow /\ queue'[k].owner = queue[k].owner
      /\ queue'[k].state = "sent"
  BY <1>1, <1>2, <1>3, KeyFacts DEF Rows
<1>5. \A j \in Keys : j # k => queue'[j] = queue[j]
  BY DEF Deliver
<1> QED
  BY <1>4, <1>5 DEF RowsOnlyClose

\* What only closes rows keeps them, their owners and the silence of the
\* withdrawn.
LEMMA ClosedRowsStay ==
  ASSUME RowsOnlyClose, \A r \in Reminders : status'[r] # "removed" => status[r] # "removed"
  PROVE  RowsStay
BY KeyFacts DEF RowsOnlyClose, RowsStay, Exists

-----------------------------------------------------------------------------
(***************************************************************************)
(* Every action keeps the invariant.                                       *)
(***************************************************************************)

\* What has happened by now has happened at the next tick (Tick).
LEMMA TickKeeps ==
  ASSUME SchedulerInv, Tick
  PROVE  SchedulerInv'
<1> USE SchedulerAssumption DEF SchedulerInv, Tick, columns, watcher, history
<1>1. TypeOK'
  BY TableStepTyped
<1>2. SlotsArePast'
  <2>1. \A t \in Int : t <= now => t <= now'
    BY DEF TypeOK
  <2>2. \A w \in Watchers : \A r \in batch[w] : copy[w][r].slot \in Int
    BY DEF TypeOK, WatcherTypeOK, Copies, Times
  <2>3. \A s \in Times : s \in Int
    BY DEF Times
  <2> QED
    BY <2>1, <2>2, <2>3 DEF SlotsArePast
<1>3. SlotHasOneKey'
  BY RowsStayPut, SlotsStayKeyed DEF SlotsStay
<1>4. /\ PlansOne' /\ KeysAreOwn' /\ AdvanceIsPlanned' /\ DialogRemembers'
      /\ WithdrawnIsFree' /\ WithdrawnIsSilent' /\ SlotHasOneHolder'
  BY DEF PlansOne, KeysAreOwn, AdvanceIsPlanned, DialogRemembers, WithdrawnIsFree,
         WithdrawnIsSilent, SlotHasOneHolder, EvaluateScheduled, Planned, CurrentEdit,
         Exists, Held, OwnRows
<1> QED
  BY <1>1, <1>2, <1>3, <1>4

\* A lease that lapses while its watcher holds the reminder exposes it
\* (LeaseDue's five minutes).
LEMMA LapseKeeps ==
  ASSUME SchedulerInv, NEW r \in Reminders, OrphanLapses(r) \/ LeaseOverruns(r)
  PROVE  SchedulerInv'
<1> USE SchedulerAssumption DEF SchedulerInv, columns, watcher, history
<1>0. UNCHANGED <<now, status, kind, version, nextEval, lockedBy, queue, pc, cur, batch, copy,
                  plan, dialog, slot, fired, raced>>
  BY DEF OrphanLapses, LeaseOverruns, Lapses
<1>1. TypeOK'
  BY TableStepTyped
<1>2. /\ lapsed \in [Reminders -> BOOLEAN] /\ exposed \in [Reminders -> BOOLEAN]
      /\ \A q \in Reminders : q # r => lapsed'[q] = lapsed[q]
      /\ \A q \in Reminders : exposed[q] => exposed'[q]
      /\ r \in batch[lockedBy[r]] => exposed'[r]
  BY DEF OrphanLapses, LeaseOverruns, Lapses, TypeOK, ColumnTypeOK, HistoryTypeOK
<1>3. SlotHasOneHolder'
  <2> SUFFICES ASSUME NEW q \in Reminders \ Anchors, NEW w \in Watchers,
                      ~exposed'[q], q \in batch[w]
               PROVE  /\ \A v \in Watchers \ {w} : q \in batch[v] => copy[v][q].slot # copy[w][q].slot
                      /\ slot[q] = copy[w][q].slot /\ Exists(q) =>
                           /\ lockedBy[q] = w /\ ~lapsed'[q]
                           /\ nextEval[q] = copy[w][q].due
    BY <1>0 DEF SlotHasOneHolder, Exists
  <2>1. ~exposed[q]
    BY <1>2
  <2> QED
    BY <1>2, <2>1 DEF SlotHasOneHolder
<1>4. SlotHasOneKey'
  BY <1>0, <1>2, RowsStayPut, SlotsStayKeyed DEF SlotsStay
<1>5. /\ PlansOne' /\ KeysAreOwn' /\ AdvanceIsPlanned' /\ DialogRemembers'
      /\ WithdrawnIsFree' /\ WithdrawnIsSilent' /\ SlotsArePast'
  BY <1>0 DEF PlansOne, KeysAreOwn, AdvanceIsPlanned, DialogRemembers, WithdrawnIsFree,
         WithdrawnIsSilent, SlotsArePast, EvaluateScheduled, Planned, CurrentEdit,
         Exists, Held, OwnRows
<1> QED
  BY <1>1, <1>3, <1>4, <1>5

\* A starting watcher moves conditional reminders only, which are anchors
\* (startup, MarkConditionalDue).
LEMMA StartupKeeps ==
  ASSUME SchedulerInv, NEW w \in Watchers, Startup(w) \/ StartupFails(w)
  PROVE  SchedulerInv'
<1> USE SchedulerAssumption DEF SchedulerInv, columns, watcher, history
<1>1. TypeOK'
  BY TableStepTyped
<1>2. /\ UNCHANGED <<now, status, kind, version, queue, cur, batch, copy, plan, dialog,
                     fired, exposed, raced>>
      /\ \A v \in Watchers : pc'[v] # pc[v] => v = w /\ pc'[v] = "idle"
      /\ \A r \in Reminders : slot'[r] # slot[r] \/ nextEval'[r] # nextEval[r]
           => slot'[r] = nextEval'[r]
      /\ \A r \in Reminders \ Anchors :
           /\ slot'[r] = slot[r] /\ nextEval'[r] = nextEval[r]
           /\ lockedBy'[r] = lockedBy[r] /\ lapsed'[r] = lapsed[r]
  <2>1. \A v \in Watchers : pc'[v] # pc[v] => v = w /\ pc'[v] = "idle"
    BY DEF Startup, StartupFails, TypeOK, WatcherTypeOK
  <2>2. CASE Startup(w)
    BY <2>1, <2>2 DEF Startup, MarkConditionalDue, KeysAreOwn
  <2>3. CASE StartupFails(w)
    BY <2>1, <2>3 DEF StartupFails
  <2> QED
    BY <2>2, <2>3
<1>3. PlansOne'
  BY <1>2 DEF PlansOne, EvaluateScheduled
<1>4. AdvanceIsPlanned'
  <2>1. RowsStay /\ cur \in [Watchers -> Reminders]
    BY <1>2, RowsStayPut DEF TypeOK, WatcherTypeOK
  <2> QED
    BY <1>2, <2>1, AdvanceStaysPlanned
<1>5. SlotsArePast'
  <2>1. \A r \in Reminders : slot'[r] <= nextEval'[r]
    <3> SUFFICES ASSUME NEW r \in Reminders
                 PROVE  slot'[r] <= nextEval'[r]
      OBVIOUS
    <3>1. nextEval'[r] \in Int
      BY <1>1 DEF TypeOK, ColumnTypeOK, Times
    <3> QED
      BY <1>2, <3>1 DEF SlotsArePast
  <2> QED
    BY <1>2, <2>1 DEF SlotsArePast
<1>6. SlotHasOneHolder'
  BY <1>2 DEF SlotHasOneHolder, Exists
<1>7. SlotHasOneKey'
  BY <1>2, RowsStayPut, SlotsStayKeyed DEF SlotsStay
<1>8. KeysAreOwn' /\ DialogRemembers' /\ WithdrawnIsFree' /\ WithdrawnIsSilent'
  BY <1>2 DEF KeysAreOwn, DialogRemembers, WithdrawnIsFree, WithdrawnIsSilent, CurrentEdit,
              Exists, Held, OwnRows
<1> QED
  BY <1>1, <1>3, <1>4, <1>5, <1>6, <1>7, <1>8

\* A lease takes reminders that are due, active and in the hands of nobody
\* who can still announce their slot (LeaseDue).
LEMMA LeaseKeeps ==
  ASSUME SchedulerInv, NEW w \in Watchers, LeaseDue(w) \/ LeaseAnswerLost(w)
  PROVE  SchedulerInv'
<1> USE SchedulerAssumption DEF SchedulerInv, columns, watcher, history
<1>1. TypeOK'
  BY TableStepTyped
<1>2. PICK B \in SUBSET Leasable :
        /\ LeaseRows(w, B)
        /\ \/ UNCHANGED <<batch, copy>>
           \/ /\ batch[w] = {}
              /\ pc[w] = "idle"
              /\ batch' = [batch EXCEPT ![w] = B]
              /\ copy' = [copy EXCEPT ![w] = [r \in Reminders |->
                   IF r \in B THEN [kind |-> kind[r], due |-> nextEval[r], slot |-> slot[r]]
                   ELSE NoCopy]]
  BY DEF LeaseDue, LeaseAnswerLost, Batches
<1>3. UNCHANGED <<now, status, kind, version, nextEval, queue, pc, cur, plan, dialog,
                  slot, fired, exposed, raced>>
  BY <1>2 DEF LeaseDue, LeaseAnswerLost, LeaseRows
<1>4. \A r \in B : r \in Reminders /\ status[r] = "active" /\ nextEval[r] <= now /\ Unlocked(r)
  BY <1>2 DEF Leasable
<1>5. \A v \in Watchers, r \in Reminders : r \in batch'[v] =>
        \/ r \in batch[v] /\ copy'[v][r] = copy[v][r] /\ (v = w => batch' = batch)
        \/ /\ v = w /\ r \in B /\ batch[w] = {}
           /\ copy'[w][r].slot = slot[r] /\ copy'[w][r].due = nextEval[r]
  BY <1>2 DEF TypeOK, WatcherTypeOK
<1>6. PlansOne'
  <2> SUFFICES ASSUME NEW v \in Watchers,
                      pc[v] \in {"enqueue", "advance"}, cur[v] \notin Anchors
               PROVE  copy'[v][cur[v]] = copy[v][cur[v]]
    BY <1>3 DEF PlansOne, EvaluateScheduled
  <2> QED
    BY <1>2, <1>5 DEF TypeOK, WatcherTypeOK
<1>7. SlotsArePast'
  <2> SUFFICES ASSUME NEW v \in Watchers, NEW r \in batch'[v]
               PROVE  copy'[v][r].slot <= now
    BY <1>3 DEF SlotsArePast
  <2>1. r \in Reminders
    BY <1>1 DEF TypeOK, WatcherTypeOK
  <2>2. slot[r] \in Int /\ nextEval[r] \in Int /\ now \in Int /\ slot[r] <= nextEval[r]
    BY <2>1 DEF SlotsArePast, TypeOK, ColumnTypeOK, HistoryTypeOK, Times
  <2> QED
    BY <1>4, <1>5, <2>1, <2>2 DEF SlotsArePast
<1>8. WithdrawnIsFree'
  BY <1>3, <1>4, <1>5 DEF WithdrawnIsFree, Held
<1>9. SlotHasOneHolder'
  <2> SUFFICES ASSUME NEW r \in Reminders \ Anchors, NEW v \in Watchers,
                      ~exposed[r], r \in batch'[v]
               PROVE  /\ \A u \in Watchers \ {v} : r \in batch'[u] => copy'[u][r].slot # copy'[v][r].slot
                      /\ slot[r] = copy'[v][r].slot /\ Exists(r) =>
                           /\ lockedBy'[r] = v /\ ~lapsed'[r]
                           /\ nextEval[r] = copy'[v][r].due
    BY <1>3 DEF SlotHasOneHolder, Exists
  <2>1. r \in B => Exists(r) /\ Unlocked(r)
    BY <1>4 DEF Exists
  <2>2. ASSUME r \in B, NEW u \in Watchers, r \in batch[u]
        PROVE  slot[r] # copy[u][r].slot
    BY <2>1, <2>2 DEF SlotHasOneHolder, Unlocked, TypeOK, ColumnTypeOK
  <2>3. ASSUME NEW u \in Watchers \ {v}, r \in batch'[u]
        PROVE  copy'[u][r].slot # copy'[v][r].slot
    BY <1>5, <2>2, <2>3 DEF SlotHasOneHolder
  <2>4. ASSUME slot[r] = copy'[v][r].slot, Exists(r)
        PROVE  lockedBy'[r] = v /\ ~lapsed'[r] /\ nextEval[r] = copy'[v][r].due
    BY <1>2, <1>5, <2>2, <2>4 DEF SlotHasOneHolder, LeaseRows
  <2> QED
    BY <2>3, <2>4
<1>10. SlotHasOneKey'
  <2>1. RowsStay
    BY <1>3, RowsStayPut
  <2>2. SlotsStay
    BY <1>3, <1>5 DEF SlotsStay
  <2> QED
    BY <2>1, <2>2, SlotsStayKeyed
<1>11. KeysAreOwn' /\ AdvanceIsPlanned' /\ DialogRemembers' /\ WithdrawnIsSilent'
  BY <1>3 DEF KeysAreOwn, AdvanceIsPlanned, DialogRemembers, WithdrawnIsSilent, Planned,
              CurrentEdit, Exists, OwnRows
<1> QED
  BY <1>1, <1>3, <1>6, <1>7, <1>8, <1>9, <1>10, <1>11

\* An evaluation plans by the leased copy; when it or the insert fails,
\* nothing is planned or changed (Evaluate, processReminder).
LEMMA EvaluateKeeps ==
  ASSUME SchedulerInv, NEW w \in Watchers, Evaluate(w) \/ EvaluateFails(w) \/ EnqueueFails(w)
  PROVE  SchedulerInv'
<1> USE SchedulerAssumption DEF SchedulerInv, columns, watcher, history
<1>1. TypeOK'
  BY WatcherStepTyped DEF WatcherStep
<1>2. UNCHANGED <<now, status, kind, version, nextEval, lockedBy, lapsed, queue, batch, copy,
                  dialog, slot, fired, exposed, raced>>
  BY DEF Evaluate, EvaluateFails, EnqueueFails
<1>3. PlansOne'
  <2>1. CASE Evaluate(w)
    <3>0. PICK r \in batch[w] :
            /\ cur' = [cur EXCEPT ![w] = r]
            /\ \E P \in EvaluationsOf(r, copy[w][r].due) : plan' = [plan EXCEPT ![w] = P]
      BY <2>1 DEF Evaluate
    <3>1. PICK P \in EvaluationsOf(r, copy[w][r].due) : plan' = [plan EXCEPT ![w] = P]
      BY <3>0
    <3>2. r \in Reminders /\ copy[w][r].due \in Times
      BY DEF TypeOK, WatcherTypeOK, Copies
    <3>3. P = {} \/ \E p \in Plans : P = {p}
      BY <3>2, EvaluationsPlanOne DEF TypeOK
    <3>4. IF r \in Anchors THEN \A p \in P : p.key \in {User} \X Events
                           ELSE P = EvaluateScheduled(r, copy[w][r].due)
      BY <3>1 DEF EvaluationsOf, EvaluateAnchor, Nearest, Upcoming
    <3>5. /\ plan'[w] = P /\ cur'[w] = r
          /\ \A v \in Watchers \ {w} : plan'[v] = plan[v] /\ cur'[v] = cur[v] /\ pc'[v] = pc[v]
      BY <2>1, <3>0, <3>1 DEF Evaluate, TypeOK, WatcherTypeOK
    <3> QED
      BY <1>2, <3>3, <3>4, <3>5 DEF PlansOne, EvaluateScheduled
  <2>2. CASE EvaluateFails(w) \/ EnqueueFails(w)
    <3>1. /\ plan' = plan /\ pc'[w] = "retry"
          /\ \A v \in Watchers \ {w} : pc'[v] = pc[v] /\ cur'[v] = cur[v]
      BY <2>2 DEF EvaluateFails, EnqueueFails, TypeOK, WatcherTypeOK
    <3> QED
      BY <1>2, <3>1 DEF PlansOne, EvaluateScheduled
  <2> QED
    BY <2>1, <2>2
<1>4. AdvanceIsPlanned'
  <2>1. \A v \in Watchers : pc'[v] = "advance" => pc[v] = "advance" /\ cur'[v] = cur[v]
    BY DEF Evaluate, EvaluateFails, EnqueueFails, TypeOK, WatcherTypeOK
  <2>2. cur \in [Watchers -> Reminders] /\ RowsStay
    BY <1>2, RowsStayPut DEF TypeOK, WatcherTypeOK
  <2> QED
    BY <2>1, <2>2, AdvanceStaysPlanned
<1>5. SlotHasOneKey'
  BY <1>2, RowsStayPut, SlotsStayKeyed DEF SlotsStay
<1>6. /\ KeysAreOwn' /\ DialogRemembers' /\ WithdrawnIsFree' /\ WithdrawnIsSilent'
      /\ SlotsArePast' /\ SlotHasOneHolder'
  BY <1>2 DEF KeysAreOwn, DialogRemembers, WithdrawnIsFree, WithdrawnIsSilent, SlotsArePast,
              SlotHasOneHolder, CurrentEdit, Exists, Held, OwnRows
<1> QED
  BY <1>1, <1>3, <1>4, <1>5, <1>6

\* The insert of a planned notification finds the key of the slot taken, or
\* is the first row of its slot (Enqueue).
LEMMA EnqueueKeeps ==
  ASSUME SchedulerInv, NEW w \in Watchers, EnqueuePlan(w) \/ EnqueueAnswerLost(w)
  PROVE  SchedulerInv'
<1> USE SchedulerAssumption DEF SchedulerInv, columns, watcher, history
<1> DEFINE r == cur[w]
           c == copy[w][cur[w]]
<1>1. TypeOK'
  BY WatcherStepTyped DEF WatcherStep
<1>2. /\ UNCHANGED <<now, status, kind, version, nextEval, lockedBy, lapsed, cur, batch, copy,
                     plan, dialog, slot, exposed, raced>>
      /\ pc[w] = "enqueue"
      /\ Exists(r) \/ plan[w] = {}
      /\ pc'[w] # "enqueue"
      /\ \A v \in Watchers \ {w} : pc'[v] = pc[v]
      /\ InsertPlan(r, plan[w], c.slot)
  BY DEF EnqueuePlan, EnqueueAnswerLost, TypeOK, WatcherTypeOK
<1>3. r \in Reminders /\ r \in batch[w] /\ c.slot \in Times /\ c.due \in Times
  BY <1>2 DEF TypeOK, WatcherTypeOK, Copies
<1>4. queue \in [Keys -> Rows \cup {NoRow}] /\ fired \in [Reminders -> [Times -> Nat]]
  BY DEF TypeOK, ColumnTypeOK, HistoryTypeOK
<1> DEFINE Inserted(p) ==
             /\ plan[w] = {p} /\ queue[p.key] = NoRow
             /\ queue' = [queue EXCEPT ![p.key] = [state |-> "pending", owner |-> r, at |-> p.at]]
             /\ fired' = [fired EXCEPT ![r][c.slot] = @ + 1]
           Found == queue' = queue /\ fired' = fired /\ \A p \in plan[w] : queue[p.key] # NoRow
<1>5. Found \/ \E p \in Plans : Inserted(p)
  <2>1. plan[w] = {} \/ \E p \in Plans : plan[w] = {p}
    BY DEF PlansOne
  <2> HIDE DEF r, c
  <2> QED
    BY <1>2, <1>3, <1>4, <2>1, InsertOne
<1>6. IF r \in Anchors THEN \A p \in plan[w] : p.key \in {User} \X Events
                       ELSE plan[w] = EvaluateScheduled(r, c.due)
  BY <1>2 DEF PlansOne
<1> HIDE DEF r, c, Inserted, Found
<1>7. \A k \in Keys : queue[k] # NoRow => queue'[k] = queue[k]
  BY <1>4, <1>5 DEF Found, Inserted, Plans
<1>8. RowsStay
  BY <1>2, <1>7, KeyFacts DEF RowsStay, Exists
<1>9. PlansOne'
  BY <1>2 DEF PlansOne, EvaluateScheduled
<1>10. KeysAreOwn'
  <2> SUFFICES ASSUME NEW q \in Reminders, NEW t \in Times, queue'[<<q, t>>] # NoRow
               PROVE  queue'[<<q, t>>].owner = q
    BY <1>2 DEF KeysAreOwn
  <2>1. CASE Found
    BY <2>1 DEF Found, KeysAreOwn
  <2>2. ASSUME NEW p \in Plans, Inserted(p)
        PROVE  queue'[<<q, t>>].owner = q
    <3>1. CASE p.key = <<q, t>>
      <4>1. r \notin Anchors
        BY <1>6, <2>2, <3>1, KeyFacts DEF Inserted
      <4>2. r = q
        BY <1>6, <2>2, <3>1, <4>1 DEF Inserted, EvaluateScheduled
      <4> QED
        BY <1>4, <2>2, <3>1, <4>2, KeyFacts DEF Inserted
    <3>2. CASE p.key # <<q, t>>
      BY <2>2, <3>2, KeyFacts DEF Inserted, KeysAreOwn
    <3> QED
      BY <3>1, <3>2
  <2> QED
    BY <1>5, <2>1, <2>2
<1>11. AdvanceIsPlanned'
  <2> SUFFICES ASSUME NEW v \in Watchers,
                      pc'[v] = "advance", cur[v] \notin Anchors, Exists(cur[v])
               PROVE  \E t \in Times : queue'[<<cur[v], t>>] # NoRow
    BY <1>2 DEF AdvanceIsPlanned, Planned, Exists
  <2>1. CASE v # w
    <3>1. PICK t \in Times : queue[<<cur[v], t>>] # NoRow
      BY <1>2, <2>1 DEF AdvanceIsPlanned, Planned
    <3>2. cur[v] \in Reminders
      BY DEF TypeOK, WatcherTypeOK
    <3> QED
      BY <1>7, <3>1, <3>2, KeyFacts
  <2>2. CASE v = w
    <3>1. plan[w] = {[key |-> <<r, c.due>>, at |-> c.due]}
      BY <1>6, <2>2 DEF EvaluateScheduled, r
    <3>2. queue'[<<r, c.due>>] # NoRow
      <4>1. CASE Found
        BY <3>1, <4>1 DEF Found
      <4>2. ASSUME NEW p \in Plans, Inserted(p)
            PROVE  queue'[<<r, c.due>>] # NoRow
        <5>1. p.key = <<r, c.due>> /\ p.key \in Keys
          BY <3>1, <4>2 DEF Inserted, Plans
        <5> QED
          BY <1>4, <4>2, <5>1 DEF Inserted, NoRow
      <4> QED
        BY <1>5, <4>1, <4>2
    <3> QED
      BY <1>3, <2>2, <3>2 DEF r
  <2> QED
    BY <2>1, <2>2
<1>12. WithdrawnIsSilent'
  <2> SUFFICES ASSUME NEW q \in Reminders
               PROVE  /\ status[q] \in {"paused", "cancelled"} /\ ~raced[q]
                           => \A k \in Keys : queue'[k] # NoRow /\ queue'[k].owner = q
                                             => queue'[k].state # "pending"
                      /\ status[q] = "removed"
                           => \A k \in Keys : ~(queue'[k] # NoRow /\ queue'[k].owner = q)
    BY <1>2 DEF WithdrawnIsSilent, OwnRows
  <2>1. CASE Found
    BY <2>1 DEF Found, WithdrawnIsSilent, OwnRows
  <2>2. ASSUME NEW p \in Plans, Inserted(p)
        PROVE  /\ Exists(r) /\ ~(status[r] \in {"paused", "cancelled"} /\ ~raced[r])
               /\ \A k \in Keys : queue'[k] # queue[k] => queue'[k].owner = r
    BY <1>2, <1>3, <1>4, <2>2 DEF Inserted, WithdrawnIsFree, Held
  <2> QED
    BY <1>5, <2>1, <2>2 DEF WithdrawnIsSilent, OwnRows, Exists
<1>13. SlotsArePast'
  <2> SUFFICES ASSUME NEW q \in Reminders, NEW s \in Times, fired'[q][s] > 0
               PROVE  s <= now
    BY <1>2 DEF SlotsArePast
  <2>1. CASE fired'[q][s] = fired[q][s]
    BY <2>1 DEF SlotsArePast
  <2>2. CASE fired'[q][s] # fired[q][s]
    <3>1. PICK p \in Plans : Inserted(p)
      BY <1>5, <2>2 DEF Found
    <3>2. q = r /\ s = c.slot
      BY <1>3, <1>4, <2>2, <3>1 DEF Inserted
    <3> QED
      BY <1>3, <3>2 DEF SlotsArePast, r, c
  <2> QED
    BY <2>1, <2>2
<1>14. SlotHasOneKey'
  <2> SUFFICES ASSUME NEW q \in Reminders \ Anchors, NEW s \in Times,
                      ~exposed[q], fired'[q][s] > 0
               PROVE  fired'[q][s] = 1 /\ (Exists(q) => Announced(q, s)')
    BY <1>2 DEF SlotHasOneKey, Exists
  <2>1. ASSUME fired[q][s] > 0, Exists(q)
        PROVE  Announced(q, s)'
    <3>1. PICK d \in Times :
            /\ queue[<<q, d>>] # NoRow
            /\ slot[q] = s => nextEval[q] = d
            /\ \A v \in Watchers : q \in batch[v] /\ copy[v][q].slot = s => copy[v][q].due = d
      BY <2>1 DEF SlotHasOneKey, Announced
    <3>2. queue'[<<q, d>>] # NoRow
      BY <1>7, <3>1, KeyFacts
    <3> QED
      BY <1>2, <3>1, <3>2 DEF Announced
  <2>2. CASE fired'[q][s] = fired[q][s]
    BY <2>1, <2>2 DEF SlotHasOneKey
  <2>3. CASE fired'[q][s] # fired[q][s]
    <3>1. PICK p \in Plans : Inserted(p)
      BY <1>5, <2>3 DEF Found
    <3>2. q = r /\ s = c.slot /\ fired'[q][s] = fired[q][s] + 1 /\ fired[q][s] \in Nat
      BY <1>3, <1>4, <2>3, <3>1 DEF Inserted
    <3>3. Exists(r)
      BY <1>2, <3>1 DEF Inserted
    <3>4. p.key = <<r, c.due>>
      BY <1>6, <3>1, <3>2 DEF Inserted, EvaluateScheduled
    <3>5. queue[<<r, c.due>>] = NoRow /\ queue'[<<r, c.due>>] # NoRow
      BY <1>3, <1>4, <3>1, <3>4, KeyFacts DEF Inserted, NoRow
    <3>6. fired[q][s] = 0
      <4> SUFFICES ASSUME fired[q][s] > 0
                   PROVE  FALSE
        BY <3>2
      <4>1. PICK d \in Times :
              /\ queue[<<r, d>>] # NoRow
              /\ \A v \in Watchers : r \in batch[v] /\ copy[v][r].slot = s => copy[v][r].due = d
        <5>1. Announced(r, s)
          BY <3>2, <3>3 DEF SlotHasOneKey
        <5> QED
          BY <5>1 DEF Announced
      <4>2. c.due = d
        BY <1>3, <3>2, <4>1 DEF r, c
      <4> QED
        BY <3>5, <4>1, <4>2
    <3>7. /\ slot[r] = s => nextEval[r] = c.due
          /\ \A v \in Watchers : r \in batch[v] /\ copy[v][r].slot = s => v = w
      BY <1>3, <3>2, <3>3 DEF SlotHasOneHolder, r, c
    <3>8. Announced(q, s)'
      BY <1>2, <1>3, <3>2, <3>5, <3>7 DEF Announced, r, c
    <3> QED
      BY <3>2, <3>6, <3>8
  <2> QED
    BY <2>2, <2>3
<1>15. DialogRemembers' /\ WithdrawnIsFree' /\ SlotHasOneHolder'
  BY <1>2 DEF DialogRemembers, WithdrawnIsFree, SlotHasOneHolder, CurrentEdit, Exists, Held
<1> QED
  BY <1>1, <1>9, <1>10, <1>11, <1>12, <1>13, <1>14, <1>15

\* A watcher that is done with a reminder gives it out of its hands; what it
\* writes stands for a slot nobody has announced (Advance), or exposes the
\* reminder (ScheduleRetry).
LEMMA FinishKeeps ==
  ASSUME SchedulerInv, NEW w \in Watchers, Advance(w) \/ ScheduleRetry(w) \/ WriteLost(w)
  PROVE  SchedulerInv'
<1> USE SchedulerAssumption DEF SchedulerInv, columns, watcher, history
<1> DEFINE r == cur[w]
           c == copy[w][cur[w]]
<1>1. TypeOK'
  BY WatcherStepTyped DEF WatcherStep
<1>2. UNCHANGED <<now, kind, queue, cur, dialog, fired, raced>> /\ NextReminder(w)
  BY DEF Advance, ScheduleRetry, WriteLost, NextReminder, AdvanceRow, UpdateNextEval, UpdateStatusDone
<1>3. r \in Reminders /\ r \in batch[w] /\ c.slot \in Times /\ now \in Int /\ now + 1 \in Times
  BY DEF Advance, ScheduleRetry, WriteLost, TypeOK, WatcherTypeOK, Copies, Times
<1>4. /\ pc'[w] = "idle" /\ plan'[w] = {} /\ batch'[w] = batch[w] \ {r}
      /\ \A v \in Watchers \ {w} :
           pc'[v] = pc[v] /\ plan'[v] = plan[v] /\ batch'[v] = batch[v] /\ copy'[v] = copy[v]
      /\ \A v \in Watchers, q \in Reminders :
           q \in batch'[v] => q \in batch[v] /\ copy'[v][q] = copy[v][q]
  BY <1>2 DEF NextReminder, TypeOK, WatcherTypeOK
<1> DEFINE Same(q) == /\ slot'[q] = slot[q] /\ nextEval'[q] = nextEval[q]
                      /\ lockedBy'[q] = lockedBy[q] /\ lapsed'[q] = lapsed[q]
           Advanced(q) == slot'[q] = now + 1 /\ nextEval'[q] = now + 1
           Retried(q) == /\ slot'[q] = c.slot /\ nextEval'[q] = now + 1
                         /\ fired[q][c.slot] > 0 => exposed'[q]
<1>5. \A q \in Reminders : Same(q) \/ (q = r /\ (Advanced(q) \/ Retried(q)))
  <2> SUFFICES ASSUME NEW q \in Reminders
               PROVE  Same(q) \/ (q = r /\ (Advanced(q) \/ Retried(q)))
    OBVIOUS
  <2> USE <1>3 DEF TypeOK, ColumnTypeOK, HistoryTypeOK
  <2>1. CASE WriteLost(w)
    BY <2>1 DEF WriteLost
  <2>2. CASE Advance(w)
    BY <2>2 DEF Advance, AdvanceRow, UpdateNextEval, UpdateStatusDone
  <2>3. CASE ScheduleRetry(w)
    <3>1. /\ UpdateNextEval(r, now + 1, c.slot)
          /\ exposed' = [exposed EXCEPT ![r] = exposed[r] \/ fired[r][c.slot] > 0]
      BY <2>3 DEF ScheduleRetry
    <3>2. fired[r][c.slot] > 0 => exposed'[r]
      BY <3>1
    <3> HIDE DEF r, c
    <3>3. CASE ~Exists(r) \/ q # r
      BY <3>1, <3>3 DEF UpdateNextEval
    <3>4. CASE Exists(r) /\ q = r
      BY <3>1, <3>2, <3>4 DEF UpdateNextEval
    <3> QED
      BY <3>3, <3>4
  <2> QED
    BY <2>1, <2>2, <2>3
<1>6. \A q \in Reminders : exposed[q] => exposed'[q]
  BY <1>3 DEF Advance, ScheduleRetry, WriteLost, TypeOK, HistoryTypeOK
<1>7. \A q \in Reminders :
        \/ status'[q] = status[q] /\ version'[q] = version[q]
        \/ Exists(q) /\ status'[q] = "done" /\ version'[q] = version[q] + 1
  BY <1>3 DEF Advance, ScheduleRetry, WriteLost, AdvanceRow, UpdateNextEval, UpdateStatusDone,
              TypeOK, ColumnTypeOK
<1> HIDE DEF r, c
<1>8. RowsStay
  BY <1>2, <1>7, RowsStayPut DEF Exists
<1>9. PlansOne'
  <2> SUFFICES ASSUME NEW v \in Watchers \ {w}, pc[v] \in {"enqueue", "advance"}
               PROVE  copy'[v][cur[v]] = copy[v][cur[v]]
    BY <1>2, <1>4 DEF PlansOne, EvaluateScheduled
  <2> QED
    BY <1>4
<1>10. AdvanceIsPlanned'
  <2>1. cur \in [Watchers -> Reminders]
    BY DEF TypeOK, WatcherTypeOK
  <2>2. \A v \in Watchers : pc'[v] = "advance" => pc[v] = "advance" /\ cur'[v] = cur[v]
    BY <1>2, <1>4
  <2> QED
    BY <1>8, <2>1, <2>2, AdvanceStaysPlanned
<1>11. DialogRemembers'
  <2> SUFFICES ASSUME dialog # NoDialog, dialog.rem \in Reminders
               PROVE  /\ dialog.version <= version'[dialog.rem]
                      /\ status'[dialog.rem] # "removed" /\ version'[dialog.rem] = dialog.version
                           => dialog.status = status'[dialog.rem]
    BY <1>2 DEF DialogRemembers, CurrentEdit, Exists
  <2>1. dialog.version \in Int /\ version[dialog.rem] \in Int
    BY DEF TypeOK, DialogTypeOK, ColumnTypeOK
  <2> QED
    BY <1>7, <2>1 DEF DialogRemembers, CurrentEdit, Exists
<1>12. WithdrawnIsFree'
  BY <1>2, <1>4, <1>7 DEF WithdrawnIsFree, Held
<1>13. WithdrawnIsSilent'
  BY <1>2, <1>7 DEF WithdrawnIsSilent, OwnRows, Exists
<1>14. SlotsArePast'
  <2>1. ASSUME NEW q \in Reminders
        PROVE  slot'[q] <= nextEval'[q]
    BY <1>3, <1>5 DEF SlotsArePast, r, c, Times
  <2>2. ASSUME NEW v \in Watchers, NEW q \in batch'[v]
        PROVE  copy'[v][q].slot <= now
    BY <1>1, <1>4 DEF SlotsArePast, TypeOK, WatcherTypeOK
  <2> QED
    BY <1>2, <2>1, <2>2 DEF SlotsArePast
<1>15. SlotHasOneHolder'
  <2> SUFFICES ASSUME NEW q \in Reminders \ Anchors, NEW v \in Watchers,
                      ~exposed'[q], q \in batch'[v]
               PROVE  /\ \A u \in Watchers \ {v} : q \in batch'[u] => copy'[u][q].slot # copy'[v][q].slot
                      /\ slot'[q] = copy'[v][q].slot /\ status'[q] # "removed" =>
                           /\ lockedBy'[q] = v /\ ~lapsed'[q]
                           /\ nextEval'[q] = copy'[v][q].due
    BY DEF SlotHasOneHolder, Exists
  <2>1. /\ ~exposed[q] /\ q \in batch[v] /\ copy'[v][q] = copy[v][q]
        /\ q = r => v # w
    BY <1>4, <1>6
  <2>2. \A u \in Watchers \ {v} : q \in batch'[u] => copy'[u][q].slot # copy'[v][q].slot
    BY <1>4, <2>1 DEF SlotHasOneHolder
  <2>3. copy[v][q].slot <= now /\ copy[v][q].slot \in Int
    BY <2>1 DEF SlotsArePast, TypeOK, WatcherTypeOK, Copies, Times
  <2>4. CASE Same(q)
    BY <1>7, <2>1, <2>2, <2>4 DEF SlotHasOneHolder, Exists
  <2>5. CASE Advanced(q)
    BY <1>3, <2>1, <2>2, <2>3, <2>5
  <2>6. CASE q = r /\ Retried(q)
    <3>1. copy[v][q].slot # c.slot
      BY <1>3, <2>1, <2>6 DEF SlotHasOneHolder, r, c
    <3> QED
      BY <2>1, <2>2, <2>6, <3>1
  <2> QED
    BY <1>5, <2>4, <2>5, <2>6
<1>16. SlotHasOneKey'
  <2>1. ASSUME NEW q \in Reminders, NEW s \in Times,
               ~exposed'[q], fired[q][s] > 0, slot'[q] = s
        PROVE  slot[q] = s /\ nextEval'[q] = nextEval[q]
    <3>1. s <= now /\ s \in Int
      BY <2>1 DEF SlotsArePast, Times
    <3> QED
      BY <1>3, <1>5, <2>1, <3>1
  <2>2. SlotsStay
    BY <1>2, <1>4, <1>6, <2>1 DEF SlotsStay
  <2> QED
    BY <1>8, <2>2, SlotsStayKeyed
<1>17. KeysAreOwn'
  BY <1>2 DEF KeysAreOwn
<1> QED
  BY <1>1, <1>9, <1>10, <1>11, <1>12, <1>13, <1>14, <1>15, <1>16, <1>17

\* A worker that dies leaves the table as it is (recovery by lease expiry).
LEMMA CrashKeeps ==
  ASSUME SchedulerInv, NEW w \in Watchers, Crash(w)
  PROVE  SchedulerInv'
<1> USE SchedulerAssumption DEF SchedulerInv, columns, watcher, history
<1>1. TypeOK'
  BY WatcherStepTyped
<1>2. /\ UNCHANGED <<now, status, kind, version, nextEval, lockedBy, lapsed, queue, cur, dialog,
                     slot, fired, exposed, raced>>
      /\ pc'[w] = "down" /\ plan'[w] = {} /\ batch'[w] = {}
      /\ \A v \in Watchers \ {w} :
           pc'[v] = pc[v] /\ plan'[v] = plan[v] /\ batch'[v] = batch[v] /\ copy'[v] = copy[v]
  BY DEF Crash, TypeOK, WatcherTypeOK
<1>3. AdvanceIsPlanned'
  <2>1. RowsStay /\ cur \in [Watchers -> Reminders]
    BY <1>2, RowsStayPut DEF TypeOK, WatcherTypeOK
  <2>2. \A v \in Watchers : pc'[v] = "advance" => pc[v] = "advance" /\ cur'[v] = cur[v]
    BY <1>2
  <2> QED
    BY <2>1, <2>2, AdvanceStaysPlanned
<1>4. PlansOne' /\ SlotsArePast' /\ SlotHasOneHolder'
  BY <1>2 DEF PlansOne, SlotsArePast, SlotHasOneHolder, EvaluateScheduled, Exists
<1>5. SlotHasOneKey'
  BY <1>2, RowsStayPut, SlotsStayKeyed DEF SlotsStay
<1>6. KeysAreOwn' /\ DialogRemembers' /\ WithdrawnIsFree' /\ WithdrawnIsSilent'
  BY <1>2 DEF KeysAreOwn, DialogRemembers, WithdrawnIsFree, WithdrawnIsSilent, CurrentEdit,
              Exists, Held, OwnRows
<1> QED
  BY <1>1, <1>3, <1>4, <1>5, <1>6

\* A delivery closes a row, and no clause needs it open (Deliver).
LEMMA DeliverKeeps ==
  ASSUME SchedulerInv, NEW k \in Keys, Deliver(k)
  PROVE  SchedulerInv'
<1> USE SchedulerAssumption DEF SchedulerInv, columns, watcher, history
<1>1. TypeOK'
  BY TableStepTyped
<1>2. UNCHANGED <<now, status, kind, version, nextEval, lockedBy, lapsed, pc, cur, batch, copy,
                  plan, dialog, slot, fired, exposed, raced>>
  BY DEF Deliver
<1>3. RowsOnlyClose
  BY DeliverCloses DEF TypeOK, ColumnTypeOK
<1>4. RowsStay
  BY <1>2, <1>3, ClosedRowsStay
<1>5. KeysAreOwn'
  BY <1>2, <1>3, KeyFacts DEF KeysAreOwn, RowsOnlyClose
<1>6. AdvanceIsPlanned'
  <2>1. cur \in [Watchers -> Reminders]
    BY DEF TypeOK, WatcherTypeOK
  <2> QED
    BY <1>2, <1>4, <2>1, AdvanceStaysPlanned
<1>7. WithdrawnIsSilent'
  BY <1>2, <1>3 DEF WithdrawnIsSilent, OwnRows, RowsOnlyClose
<1>8. SlotHasOneKey'
  BY <1>2, <1>4, SlotsStayKeyed DEF SlotsStay
<1>9. PlansOne' /\ DialogRemembers' /\ WithdrawnIsFree' /\ SlotsArePast' /\ SlotHasOneHolder'
  BY <1>2 DEF PlansOne, DialogRemembers, WithdrawnIsFree, SlotsArePast, SlotHasOneHolder,
              EvaluateScheduled, CurrentEdit, Exists, Held
<1> QED
  BY <1>1, <1>5, <1>6, <1>7, <1>8, <1>9

\* Pausing, finishing, cancelling and resuming change the status with the
\* version; who withdraws a reminder closes its rows and notes whether a
\* watcher is at work on it (Pause, setTerminalStatus, Resume).
LEMMA StatusKeeps ==
  ASSUME SchedulerInv, NEW r \in Reminders,
         (\E s \in {"paused", "done", "cancelled"} : Withdraw(r, s)) \/ Resume(r)
  PROVE  SchedulerInv'
<1> USE SchedulerAssumption DEF SchedulerInv, columns, watcher, history
<1>1. TypeOK'
  BY UserStepTyped DEF UserStep
<1>2. UNCHANGED <<now, kind, nextEval, lockedBy, lapsed, pc, cur, batch, copy, plan, dialog,
                  slot, fired, exposed>>
  BY DEF Withdraw, Resume, SetStatus
<1>3. /\ Exists(r) /\ status'[r] # "removed" /\ version'[r] = version[r] + 1
      /\ \A q \in Reminders \ {r} :
           status'[q] = status[q] /\ version'[q] = version[q] /\ raced'[q] = raced[q]
      /\ status'[r] \in {"paused", "cancelled"} =>
           CancelPending(r) /\ (raced'[r] <=> raced[r] \/ Held(r))
  <2> USE DEF TypeOK, ColumnTypeOK, HistoryTypeOK
  <2>1. ASSUME NEW s \in {"paused", "done", "cancelled"}, Withdraw(r, s)
        PROVE  raced'[r] <=> raced[r] \/ Held(r)
    <3>1. raced' = [raced EXCEPT ![r] = raced[r] \/ Held(r)]
      BY <2>1 DEF Withdraw
    <3>2. raced \in [Reminders -> BOOLEAN]
      OBVIOUS
    <3> QED
      BY <3>1, <3>2, Zenon
  <2>2. ASSUME NEW s \in {"paused", "done", "cancelled"}, Withdraw(r, s)
        PROVE  \A q \in Reminders \ {r} : raced'[q] = raced[q]
    BY <2>2 DEF Withdraw
  <2>3. Resume(r) => raced' = raced
    BY DEF Resume
  <2> QED
    BY <2>1, <2>2, <2>3 DEF Withdraw, Resume, SetStatus
<1>4. RowsOnlyClose
  BY CancelCloses DEF Withdraw, Resume, RowsOnlyClose, TypeOK, ColumnTypeOK
<1>5. RowsStay
  BY <1>3, <1>4, ClosedRowsStay DEF Exists
<1>6. KeysAreOwn'
  BY <1>2, <1>4, KeyFacts DEF KeysAreOwn, RowsOnlyClose
<1>7. AdvanceIsPlanned'
  <2>1. cur \in [Watchers -> Reminders]
    BY DEF TypeOK, WatcherTypeOK
  <2> QED
    BY <1>2, <1>5, <2>1, AdvanceStaysPlanned
<1>8. DialogRemembers'
  <2> SUFFICES ASSUME dialog # NoDialog, dialog.rem \in Reminders
               PROVE  /\ dialog.version <= version'[dialog.rem]
                      /\ status'[dialog.rem] # "removed" /\ version'[dialog.rem] = dialog.version
                           => dialog.status = status'[dialog.rem]
    BY <1>2 DEF DialogRemembers, CurrentEdit, Exists
  <2>1. dialog.version \in Int /\ version[dialog.rem] \in Int
    BY DEF TypeOK, DialogTypeOK, ColumnTypeOK
  <2> QED
    BY <1>3, <2>1 DEF DialogRemembers, CurrentEdit, Exists
<1>9. WithdrawnIsFree'
  BY <1>2, <1>3 DEF WithdrawnIsFree, Held
<1>10. WithdrawnIsSilent'
  <2> SUFFICES ASSUME NEW q \in Reminders
               PROVE  /\ status'[q] \in {"paused", "cancelled"} /\ ~raced'[q]
                           => \A k \in Keys : queue'[k] # NoRow /\ queue'[k].owner = q
                                             => queue'[k].state # "pending"
                      /\ status'[q] = "removed"
                           => \A k \in Keys : ~(queue'[k] # NoRow /\ queue'[k].owner = q)
    BY DEF WithdrawnIsSilent, OwnRows
  <2>1. CASE q # r
    BY <1>3, <1>4, <2>1 DEF WithdrawnIsSilent, OwnRows, RowsOnlyClose
  <2>2. CASE q = r
    <3>1. CASE status'[r] \in {"paused", "cancelled"}
      <4>1. \A k \in OwnRows(r) : queue'[k].state # "pending"
        BY <1>3, <3>1, CancelCloses DEF TypeOK, ColumnTypeOK
      <4> QED
        BY <1>3, <1>4, <2>2, <4>1 DEF OwnRows, RowsOnlyClose
    <3> QED
      BY <1>3, <2>2, <3>1
  <2> QED
    BY <2>1, <2>2
<1>11. SlotHasOneHolder'
  BY <1>2, <1>3 DEF SlotHasOneHolder, Exists
<1>12. SlotHasOneKey'
  BY <1>2, <1>5, SlotsStayKeyed DEF SlotsStay
<1>13. PlansOne' /\ SlotsArePast'
  BY <1>2 DEF PlansOne, SlotsArePast, EvaluateScheduled
<1> QED
  BY <1>1, <1>6, <1>7, <1>8, <1>9, <1>10, <1>11, <1>12, <1>13

\* A deleted reminder takes its rows along, and no other reminder's (Remove).
LEMMA RemoveKeeps ==
  ASSUME SchedulerInv, NEW r \in Reminders, Remove(r)
  PROVE  SchedulerInv'
<1> USE SchedulerAssumption DEF SchedulerInv, columns, watcher, history
<1>1. TypeOK'
  BY UserStepTyped DEF UserStep
<1>2. /\ UNCHANGED <<now, kind, version, nextEval, pc, cur, batch, copy, plan, dialog, slot,
                     fired, exposed, raced>>
      /\ status'[r] = "removed"
      /\ \A q \in Reminders \ {r} :
           status'[q] = status[q] /\ lockedBy'[q] = lockedBy[q] /\ lapsed'[q] = lapsed[q]
      /\ \A k \in Keys : queue'[k] = IF k \in OwnRows(r) THEN NoRow ELSE queue[k]
  BY DEF Remove, TypeOK, ColumnTypeOK
<1>3. RowsStay
  BY <1>2, KeyFacts DEF RowsStay, KeysAreOwn, OwnRows, Exists
<1>4. KeysAreOwn'
  BY <1>2, KeyFacts DEF KeysAreOwn
<1>5. AdvanceIsPlanned'
  <2>1. cur \in [Watchers -> Reminders]
    BY DEF TypeOK, WatcherTypeOK
  <2> QED
    BY <1>2, <1>3, <2>1, AdvanceStaysPlanned
<1>6. DialogRemembers'
  BY <1>2 DEF DialogRemembers, CurrentEdit, Exists
<1>7. WithdrawnIsFree'
  BY <1>2 DEF WithdrawnIsFree, Held
<1>8. WithdrawnIsSilent'
  BY <1>2 DEF WithdrawnIsSilent, OwnRows
<1>9. SlotHasOneHolder'
  BY <1>2 DEF SlotHasOneHolder, Exists
<1>10. SlotHasOneKey'
  BY <1>2, <1>3, SlotsStayKeyed DEF SlotsStay
<1>11. PlansOne' /\ SlotsArePast'
  BY <1>2 DEF PlansOne, SlotsArePast, EvaluateScheduled
<1> QED
  BY <1>1, <1>4, <1>5, <1>6, <1>7, <1>8, <1>9, <1>10, <1>11

\* A dialog opens with the version and the status of the row, and closes
\* (beginReminderEdit, dialogTTL, ErrConflict).
LEMMA DialogKeeps ==
  ASSUME SchedulerInv,
         (\E r \in Reminders : BeginEdit(r)) \/ EditConflicts \/ EditExpires
  PROVE  SchedulerInv'
<1> USE SchedulerAssumption DEF SchedulerInv, columns, watcher, history
<1>1. TypeOK'
  BY UserStepTyped DEF UserStep
<1>2. UNCHANGED <<now, status, kind, version, nextEval, lockedBy, lapsed, queue, pc, cur, batch,
                  copy, plan, slot, fired, exposed, raced>>
  BY DEF BeginEdit, EditConflicts, EditExpires
<1>3. DialogRemembers'
  <2>1. CASE EditConflicts \/ EditExpires
    BY <2>1 DEF EditConflicts, EditExpires, DialogRemembers
  <2>2. ASSUME NEW r \in Reminders, BeginEdit(r)
        PROVE  DialogRemembers'
    BY <1>2, <2>2 DEF BeginEdit, DialogRemembers, CurrentEdit, Exists, TypeOK, ColumnTypeOK
  <2> QED
    BY <2>1, <2>2
<1>4. SlotHasOneKey'
  BY <1>2, RowsStayPut, SlotsStayKeyed DEF SlotsStay
<1>5. /\ PlansOne' /\ KeysAreOwn' /\ AdvanceIsPlanned' /\ WithdrawnIsFree' /\ WithdrawnIsSilent'
      /\ SlotsArePast' /\ SlotHasOneHolder'
  BY <1>2 DEF PlansOne, KeysAreOwn, AdvanceIsPlanned, WithdrawnIsFree, WithdrawnIsSilent,
              SlotsArePast, SlotHasOneHolder, EvaluateScheduled, Planned, Exists, Held, OwnRows
<1> QED
  BY <1>1, <1>3, <1>4, <1>5

\* A saved edit moves the reminder to a slot to come, which nobody holds and
\* nobody has announced (Update).
LEMMA SaveEditKeeps ==
  ASSUME SchedulerInv, SaveEdit
  PROVE  SchedulerInv'
<1> USE SchedulerAssumption DEF SchedulerInv, columns, watcher, history
<1> DEFINE r == dialog.rem
<1>1. TypeOK'
  BY UserStepTyped
<1>2. /\ UNCHANGED <<now, status, pc, cur, batch, copy, plan, fired, exposed, raced>>
      /\ dialog' = NoDialog
      /\ CancelPending(r)
  BY DEF SaveEdit
<1>3. r \in Reminders
  BY DEF SaveEdit, DialogRemembers
<1>4. PICK k \in EditedKinds(r) : \E t \in EditedTimes(k) :
        /\ kind' = [kind EXCEPT ![r] = k]
        /\ nextEval' = [nextEval EXCEPT ![r] = t]
        /\ slot' = [slot EXCEPT ![r] = t]
  BY DEF SaveEdit
<1>5. PICK t \in EditedTimes(k) :
        /\ nextEval' = [nextEval EXCEPT ![r] = t]
        /\ slot' = [slot EXCEPT ![r] = t]
  BY <1>4
<1>6. /\ now \in Int /\ t \in Int /\ t > now
      /\ k = "conditional" => kind[r] = "conditional"
  BY <1>4, <1>5 DEF EditedTimes, EditedKinds, Times, TypeOK
<1>7. /\ kind'[r] = k /\ nextEval'[r] = t /\ slot'[r] = t
      /\ \A q \in Reminders \ {r} :
           /\ kind'[q] = kind[q] /\ nextEval'[q] = nextEval[q] /\ slot'[q] = slot[q]
           /\ lockedBy'[q] = lockedBy[q] /\ lapsed'[q] = lapsed[q]
  <2>1. /\ kind \in [Reminders -> Kinds] /\ nextEval \in [Reminders -> Times] /\ slot \in [Reminders -> Times]
        /\ DOMAIN lockedBy = Reminders /\ DOMAIN lapsed = Reminders
    BY DEF TypeOK, ColumnTypeOK, HistoryTypeOK
  <2>2. /\ kind'[r] = k /\ \A q \in Reminders \ {r} : kind'[q] = kind[q]
    BY <1>3, <1>4, <2>1
  <2>3. /\ nextEval'[r] = t /\ slot'[r] = t
        /\ \A q \in Reminders \ {r} : nextEval'[q] = nextEval[q] /\ slot'[q] = slot[q]
    BY <1>3, <1>5, <2>1
  <2>4. \A q \in Reminders \ {r} : lockedBy'[q] = lockedBy[q] /\ lapsed'[q] = lapsed[q]
    BY <1>3, <2>1 DEF SaveEdit
  <2> QED
    BY <2>2, <2>3, <2>4
<1> HIDE DEF r
<1>8. RowsOnlyClose
  BY <1>2, <1>3, CancelCloses DEF TypeOK, ColumnTypeOK
<1>9. RowsStay
  BY <1>2, <1>8, ClosedRowsStay
<1>10. KeysAreOwn'
  BY <1>3, <1>6, <1>7, <1>8, KeyFacts DEF KeysAreOwn, RowsOnlyClose
<1>11. AdvanceIsPlanned'
  <2>1. cur \in [Watchers -> Reminders]
    BY DEF TypeOK, WatcherTypeOK
  <2> QED
    BY <1>2, <1>9, <2>1, AdvanceStaysPlanned
<1>12. DialogRemembers' /\ WithdrawnIsFree' /\ PlansOne'
  BY <1>2 DEF DialogRemembers, WithdrawnIsFree, PlansOne, EvaluateScheduled, Held
<1>13. WithdrawnIsSilent'
  BY <1>2, <1>8 DEF WithdrawnIsSilent, OwnRows, RowsOnlyClose
<1>14. SlotsArePast'
  BY <1>2, <1>6, <1>7 DEF SlotsArePast
<1>15. SlotHasOneHolder'
  <2> SUFFICES ASSUME NEW q \in Reminders \ Anchors, NEW v \in Watchers,
                      ~exposed[q], q \in batch[v]
               PROVE  /\ \A u \in Watchers \ {v} : q \in batch[u] => copy[u][q].slot # copy[v][q].slot
                      /\ slot'[q] = copy[v][q].slot /\ Exists(q) =>
                           /\ lockedBy'[q] = v /\ ~lapsed'[q]
                           /\ nextEval'[q] = copy[v][q].due
    BY <1>2 DEF SlotHasOneHolder, Exists
  <2>1. CASE q # r
    BY <1>7, <2>1 DEF SlotHasOneHolder
  <2>2. CASE q = r
    <3>1. copy[v][q].slot <= now /\ copy[v][q].slot \in Int
      BY DEF SlotsArePast, TypeOK, WatcherTypeOK, Copies, Times
    <3> QED
      BY <1>6, <1>7, <2>2, <3>1 DEF SlotHasOneHolder
  <2> QED
    BY <2>1, <2>2
<1>16. SlotHasOneKey'
  <2>1. ASSUME NEW q \in Reminders, NEW s \in Times, fired[q][s] > 0, slot'[q] = s
        PROVE  slot[q] = s /\ nextEval'[q] = nextEval[q]
    <3>1. s <= now /\ s \in Int
      BY <2>1 DEF SlotsArePast, Times
    <3> QED
      BY <1>6, <1>7, <2>1, <3>1
  <2>2. SlotsStay
    BY <1>2, <2>1 DEF SlotsStay
  <2> QED
    BY <1>9, <2>2, SlotsStayKeyed
<1> QED
  BY <1>1, <1>10, <1>11, <1>12, <1>13, <1>14, <1>15, <1>16

-----------------------------------------------------------------------------
(***************************************************************************)
(* The theorems.                                                           *)
(***************************************************************************)

\* The reminders that a user has created satisfy the invariant.
LEMMA InitIsSafe ==
  ASSUME Init
  PROVE  SchedulerInv
<1> USE SchedulerAssumption DEF Init
<1>1. AnyReminder \in Reminders /\ 0 \in Times /\ 1 \in Times
  BY DEF AnyReminder, Times
<1>2. TypeOK
  BY <1>1 DEF TypeOK, ColumnTypeOK, WatcherTypeOK, DialogTypeOK, HistoryTypeOK, Statuses, Stages,
              Copies, NoCopy, NoDialog, Kinds
<1>3. /\ PlansOne /\ KeysAreOwn /\ AdvanceIsPlanned /\ DialogRemembers
      /\ WithdrawnIsFree /\ WithdrawnIsSilent
  BY KeyFacts DEF PlansOne, KeysAreOwn, AdvanceIsPlanned, DialogRemembers, WithdrawnIsFree,
                  WithdrawnIsSilent, Held, OwnRows
<1>4. SlotsArePast /\ SlotHasOneHolder /\ SlotHasOneKey
  BY <1>1 DEF SlotsArePast, SlotHasOneHolder, SlotHasOneKey
<1> QED
  BY <1>2, <1>3, <1>4 DEF SchedulerInv

\* Every step of the watchers, the deliveries and the user keeps it.
LEMMA NextKeeps ==
  ASSUME SchedulerInv, [Next]_vars
  PROVE  SchedulerInv'
<1>1. CASE Tick
  BY <1>1, TickKeeps
<1>2. ASSUME NEW w \in Watchers, Startup(w) \/ LeaseDue(w) \/ WatcherStep(w) \/ WatcherFault(w)
      PROVE  SchedulerInv'
  BY <1>2, StartupKeeps, LeaseKeeps, EvaluateKeeps, EnqueueKeeps, FinishKeeps, CrashKeeps
     DEF WatcherStep, WatcherFault
<1>3. ASSUME NEW k \in Keys, Deliver(k)
      PROVE  SchedulerInv'
  BY <1>3, DeliverKeeps
<1>4. ASSUME NEW r \in Reminders, OrphanLapses(r) \/ LeaseOverruns(r) \/ UserStep(r)
      PROVE  SchedulerInv'
  BY <1>4, LapseKeeps, StatusKeeps, RemoveKeeps, DialogKeeps DEF UserStep
<1>5. CASE SaveEdit
  BY <1>5, SaveEditKeeps
<1>6. CASE EditConflicts \/ EditExpires
  BY <1>6, DialogKeeps
<1>7. CASE UNCHANGED vars
  <2> USE <1>7 DEF vars, columns, watcher, history, SchedulerInv
  <2>1. TypeOK'
    BY DEF TypeOK, ColumnTypeOK, WatcherTypeOK, DialogTypeOK, HistoryTypeOK
  <2>2. PlansOne' /\ KeysAreOwn' /\ AdvanceIsPlanned' /\ DialogRemembers'
    BY DEF PlansOne, KeysAreOwn, AdvanceIsPlanned, DialogRemembers, EvaluateScheduled, Planned,
           CurrentEdit, Exists
  <2>3. WithdrawnIsFree' /\ WithdrawnIsSilent' /\ SlotsArePast' /\ SlotHasOneHolder'
    BY DEF WithdrawnIsFree, WithdrawnIsSilent, SlotsArePast, SlotHasOneHolder, Exists, Held, OwnRows
  <2>4. SlotHasOneKey'
    BY RowsStayPut, SlotsStayKeyed DEF SlotsStay
  <2> QED
    BY <2>1, <2>2, <2>3, <2>4
<1> QED
  BY <1>1, <1>2, <1>3, <1>4, <1>5, <1>6, <1>7 DEF Next

\* The invariant holds for ever.
THEOREM SchedulerIsSafe == Spec => []SchedulerInv
<1>1. Init => SchedulerInv
  BY InitIsSafe
<1>2. SchedulerInv /\ [Next]_vars => SchedulerInv'
  BY NextKeeps
<1> QED
  BY <1>1, <1>2, PTL DEF Spec

\* Every variable has its type, for any number of watchers and reminders
\* (the columns of the table reminders, what a watcher holds).
THEOREM SchedulerIsTyped == Spec => []TypeOK
<1>1. SchedulerInv => TypeOK
  BY DEF SchedulerInv
<1> QED
  BY <1>1, SchedulerIsSafe, PTL

\* A slot of a scheduled reminder has one row at most, however many watchers
\* crash, lose answers or race for it (evaluateScheduled, LeaseDue).
THEOREM SlotsAreAnnouncedOnce == Spec => []OncePerSlot
<1>1. SchedulerInv => OncePerSlot
  BY DEF SchedulerInv, TypeOK, HistoryTypeOK, SlotHasOneKey, OncePerSlot
<1> QED
  BY <1>1, SchedulerIsSafe, PTL

\* A reminder that was withdrawn out of nobody's hands has no pending
\* notification, a deleted one no row (Pause, setTerminalStatus, Remove).
THEOREM WithdrawnAreSilent == Spec => []WithdrawnIsSilent
<1>1. SchedulerInv => WithdrawnIsSilent
  BY DEF SchedulerInv
<1> QED
  BY <1>1, SchedulerIsSafe, PTL

\* A step that finishes a one-shot reminder without the user finds its row in
\* the queue (processReminder).
LEMMA StepDoneIsPlanned ==
  ASSUME SchedulerInv, [Next]_vars,
         NEW r \in Reminders \ Anchors,
         status[r] # "done", status'[r] = "done", commands' = commands
  PROVE  Planned(r)
<1> USE SchedulerAssumption DEF SchedulerInv, TypeOK, ColumnTypeOK, HistoryTypeOK, columns
<1>1. PICK w \in Watchers : Advance(w)
  <2> SUFFICES ASSUME ~\E w \in Watchers : Advance(w)
               PROVE  status' = status \/ commands' # commands
    BY Zenon
  <2>1. CASE UNCHANGED vars \/ Tick \/ SaveEdit \/ EditConflicts \/ EditExpires
    BY <2>1 DEF vars, Tick, SaveEdit, EditConflicts, EditExpires
  <2>2. ASSUME NEW w \in Watchers, Startup(w) \/ LeaseDue(w)
        PROVE  status' = status
    BY <2>2 DEF Startup, MarkConditionalDue, LeaseDue, LeaseRows
  <2>3. ASSUME NEW w \in Watchers, WatcherStep(w)
        PROVE  status' = status
    BY <2>3 DEF WatcherStep, Evaluate, EvaluateFails, EnqueuePlan, EnqueueFails, ScheduleRetry,
                UpdateNextEval
  <2>4. ASSUME NEW w \in Watchers, WatcherFault(w)
        PROVE  status' = status
    BY <2>4 DEF WatcherFault, StartupFails, LeaseAnswerLost, LeaseRows, EnqueueAnswerLost,
                WriteLost, Crash
  <2>5. ASSUME NEW k \in Keys, Deliver(k)
        PROVE  status' = status
    BY <2>5 DEF Deliver
  <2>6. ASSUME NEW q \in Reminders, OrphanLapses(q) \/ LeaseOverruns(q) \/ UserStep(q)
        PROVE  status' = status \/ commands' # commands
    BY <2>6 DEF OrphanLapses, LeaseOverruns, Lapses, UserStep, Withdraw, Resume, Remove, Command,
                BeginEdit
  <2> QED
    BY <2>1, <2>2, <2>3, <2>4, <2>5, <2>6 DEF Next
<1>2. r = cur[w] /\ Exists(r)
  BY <1>1 DEF Advance, AdvanceRow, UpdateNextEval, UpdateStatusDone, WatcherTypeOK
<1> QED
  BY <1>1, <1>2 DEF AdvanceIsPlanned, Advance

\* A watcher finishes no one-shot reminder whose notification is not in the
\* queue (processReminder).
THEOREM DoneArePlanned == Spec => DoneIsPlanned
<1>1. SchedulerInv /\ [Next]_vars =>
        [\A r \in Reminders \ Anchors :
           status[r] # "done" /\ status'[r] = "done" /\ commands' = commands => Planned(r)]_vars
  BY StepDoneIsPlanned
<1> QED
  BY <1>1, SchedulerIsSafe, PTL DEF Spec, DoneIsPlanned

\* A step that saves an edit sees the status the dialog opened with.
LEMMA StepEditSeesStatus ==
  ASSUME SchedulerInv, [Next]_vars, NEW r \in Reminders, edits'[r] # edits[r]
  PROVE  status[r] = dialog.status
<1> USE SchedulerAssumption DEF SchedulerInv, TypeOK, HistoryTypeOK, history
<1>1. SaveEdit
  BY DEF Next, vars, Tick, Startup, LeaseDue, WatcherStep, Evaluate,
         EvaluateFails, EnqueuePlan, EnqueueFails, Advance, ScheduleRetry, WatcherFault,
         StartupFails, LeaseAnswerLost, EnqueueAnswerLost, WriteLost, Crash, Deliver, OrphanLapses,
         LeaseOverruns, Lapses, UserStep, Withdraw, Resume, SetStatus, Remove, BeginEdit,
         EditConflicts, EditExpires
<1>2. r = dialog.rem
  BY <1>1 DEF SaveEdit
<1> QED
  BY <1>1, <1>2 DEF SaveEdit, DialogRemembers

\* No edit is saved over a change of status made after its dialog was opened,
\* by the user or by a watcher (saveReminderEdit, Update).
THEOREM EditsSeeStatus == Spec => EditSeesStatus
<1>1. SchedulerInv /\ [Next]_vars =>
        [\A r \in Reminders : edits'[r] # edits[r] => status[r] = dialog.status]_vars
  BY StepEditSeesStatus
<1> QED
  BY <1>1, SchedulerIsSafe, PTL DEF Spec, EditSeesStatus
=============================================================================
