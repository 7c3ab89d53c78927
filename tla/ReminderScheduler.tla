------------------------- MODULE ReminderScheduler -------------------------
(***************************************************************************)
(* The life of a reminder: the table reminders                             *)
(* (internal/storage/postgres/reminders.go), the watchers that lease due   *)
(* reminders, evaluate them and plan notifications                         *)
(* (internal/scheduler/watcher.go, evaluator.go), and the user who pauses, *)
(* resumes, finishes, deletes and edits reminders from the bot process     *)
(* (internal/telegram) while a watcher may be at work on them.             *)
(*                                                                         *)
(* A reminder is "absolute" (it fires once), "recurring" (it has a cron    *)
(* expression) or "conditional" (it polls on a cron).  The reminders of    *)
(* Anchors ask a provider for events, the others fire when they are due.   *)
(* Time counts watcher ticks: a cron matches every tick, and a retry is    *)
(* due at the next one.  A notification is known by its idempotency key;   *)
(* how the queue delivers it is the subject of NotificationQueue.          *)
(***************************************************************************)
EXTENDS Integers, FiniteSets

CONSTANTS
  Watchers,     \* watchers, one per worker process
  Reminders,    \* reminders of one user
  KindOf,       \* the kind of a reminder at its creation
  Anchors,      \* the reminders whose trigger is an event of a provider
  LeadOf,       \* how long before an event a reminder fires
  Events,       \* events the provider of the anchors knows
  EventAt,      \* when an event begins
  User,         \* the user, in the keys of anchors
  NoWatcher,    \* the null of the column locked_by
  NoReminder,   \* no edit dialog is open
  NoTime,       \* no edit waits for its first evaluation
  BatchSize,    \* watcherBatchSize (10 in the code)
  MaxTime,      \* bound: the clock
  MaxCommands,  \* bound: commands of the user
  MaxFaults     \* bound: crashes, overrun leases, lost writes and answers

Kinds == {"absolute", "recurring", "conditional"}
Times == 0..(MaxTime + 1)

ASSUME SchedulerAssumption ==
  /\ Reminders # {}
  /\ NoWatcher \notin Watchers
  /\ NoReminder \notin Reminders
  /\ User \notin Reminders
  /\ NoTime \notin Times
  /\ KindOf \in [Reminders -> Kinds]
  /\ Anchors \subseteq Reminders
  /\ \A r \in Reminders : KindOf[r] = "conditional" => r \in Anchors
  /\ LeadOf \in [Reminders -> Nat]
  /\ EventAt \in [Events -> Times]
  /\ MaxTime \in Nat
  /\ BatchSize \in Nat \ {0}
  /\ MaxCommands \in Nat
  /\ MaxFaults \in Nat

VARIABLES
  now,        \* the clock
  status,     \* the column status, or "removed" after the row's deletion
  kind,       \* the column kind; eval_cron is empty for "absolute"
  version,    \* the column version
  nextEval,   \* the column next_eval_at
  lockedBy,   \* the column locked_by
  lapsed,     \* locked_at is more than five minutes ago
  queue,      \* the notification of each idempotency key
  pc,         \* where a watcher is
  cur,        \* the reminder it is processing
  batch,      \* the reminders it leased and has not finished with
  copy,       \* what it read of them when it leased them
  plan,       \* the notification its evaluation planned, if any
  dialog,     \* the user's edit dialog
  slot,       \* history: the time next_eval_at stands for, retries aside
  fired,      \* history: the rows inserted for each slot of a reminder
  exposed,    \* history: its lease overran, or a slot with a row was retried
  raced,      \* history: it was withdrawn while a watcher was at work on it
  edits,      \* history: saved edits
  asked,      \* history: when the last edit is due, until a watcher leases it
  commands,   \* commands so far
  faults      \* faults so far

columns == <<status, kind, version, nextEval, lockedBy, lapsed>>
watcher == <<pc, cur, batch, copy, plan>>
history == <<slot, fired, exposed, raced, edits, asked>>
vars == <<now, columns, queue, watcher, dialog, history, commands, faults>>

Statuses == {"active", "paused", "done", "cancelled", "removed"}
Stages == {"down", "idle", "enqueue", "advance", "retry"}
Copies == [kind : Kinds, due : Times, slot : Times]

\* Keys of evaluateScheduled: the reminder and its due time; of
\* evaluateAnchor: the user and the event.
Keys == (Reminders \X Times) \cup ({User} \X Events)
Plans == [key : Keys, at : Times]
NoRow == [state |-> "none"]
Rows == [state : {"pending", "sent", "cancelled"}, owner : Reminders, at : Times]

Exists(r) == status[r] # "removed"
Held(r) == \E w \in Watchers : r \in batch[w]

(***************************************************************************)
(* Types and initial state.                                                *)
(***************************************************************************)

ColumnTypeOK ==
  /\ status \in [Reminders -> Statuses]
  /\ kind \in [Reminders -> Kinds]
  /\ version \in [Reminders -> Nat]
  /\ nextEval \in [Reminders -> Times]
  /\ lockedBy \in [Reminders -> Watchers \cup {NoWatcher}]
  /\ lapsed \in [Reminders -> BOOLEAN]
  /\ queue \in [Keys -> Rows \cup {NoRow}]

WatcherTypeOK ==
  /\ pc \in [Watchers -> Stages]
  /\ cur \in [Watchers -> Reminders]
  /\ batch \in [Watchers -> SUBSET Reminders]
  /\ copy \in [Watchers -> [Reminders -> Copies]]
  /\ plan \in [Watchers -> SUBSET Plans]
  /\ \A w \in Watchers : pc[w] \in {"enqueue", "advance", "retry"} => cur[w] \in batch[w]

DialogTypeOK ==
  dialog \in [rem : Reminders \cup {NoReminder}, version : Nat, status : Statuses]

HistoryTypeOK ==
  /\ slot \in [Reminders -> Times]
  /\ fired \in [Reminders -> [Times -> Nat]]
  /\ exposed \in [Reminders -> BOOLEAN]
  /\ raced \in [Reminders -> BOOLEAN]
  /\ edits \in [Reminders -> Nat]
  /\ asked \in [Reminders -> Times \cup {NoTime}]
  /\ commands \in Nat
  /\ faults \in Nat

\* Every variable has its type; a watcher that processes a reminder has
\* leased it, and no evaluation is planned beyond the next tick.
TypeOK ==
  /\ now \in 0..MaxTime
  /\ ColumnTypeOK
  /\ WatcherTypeOK
  /\ DialogTypeOK
  /\ HistoryTypeOK

AnyReminder == CHOOSE r \in Reminders : TRUE
NoCopy == [kind |-> "absolute", due |-> 0, slot |-> 0]
NoDialog == [rem |-> NoReminder, version |-> 0, status |-> "active"]

\* Reminders as buildReminder leaves them: active, due in the future, or at
\* once when they ask a provider; the watchers are not up yet.
Init ==
  /\ now = 0
  /\ status = [r \in Reminders |-> "active"]
  /\ kind = KindOf
  /\ version = [r \in Reminders |-> 1]
  /\ nextEval = [r \in Reminders |-> IF r \in Anchors THEN 0 ELSE 1]
  /\ lockedBy = [r \in Reminders |-> NoWatcher]
  /\ lapsed = [r \in Reminders |-> FALSE]
  /\ queue = [k \in Keys |-> NoRow]
  /\ pc = [w \in Watchers |-> "down"]
  /\ cur = [w \in Watchers |-> AnyReminder]
  /\ batch = [w \in Watchers |-> {}]
  /\ copy = [w \in Watchers |-> [r \in Reminders |-> NoCopy]]
  /\ plan = [w \in Watchers |-> {}]
  /\ dialog = NoDialog
  /\ slot = nextEval
  /\ fired = [r \in Reminders |-> [t \in Times |-> 0]]
  /\ exposed = [r \in Reminders |-> FALSE]
  /\ raced = [r \in Reminders |-> FALSE]
  /\ edits = [r \in Reminders |-> 0]
  /\ asked = [r \in Reminders |-> NoTime]
  /\ commands = 0
  /\ faults = 0
-----------------------------------------------------------------------------
(***************************************************************************)
(* The clock.                                                              *)
(***************************************************************************)

Fault ==
  /\ faults < MaxFaults
  /\ faults' = faults + 1

Tick ==
  /\ now < MaxTime
  /\ now' = now + 1
  /\ UNCHANGED <<columns, queue, watcher, dialog, history, commands, faults>>

Lapses(r) ==
  /\ lockedBy[r] # NoWatcher
  /\ ~lapsed[r]
  /\ lapsed' = [lapsed EXCEPT ![r] = TRUE]
  /\ UNCHANGED <<now, status, kind, version, nextEval, lockedBy, queue,
                 watcher, dialog, slot, fired, raced, edits, asked, commands>>

\* Five minutes pass over a lease whose watcher is done with the reminder.
OrphanLapses(r) ==
  /\ Lapses(r)
  /\ r \notin batch[lockedBy[r]]
  /\ UNCHANGED <<exposed, faults>>

\* Five minutes pass and the watcher has not come to the end of its batch.
LeaseOverruns(r) ==
  /\ Fault
  /\ Lapses(r)
  /\ r \in batch[lockedBy[r]]
  /\ exposed' = [exposed EXCEPT ![r] = TRUE]
-----------------------------------------------------------------------------
(***************************************************************************)
(* The statements of ReminderRepo that the watcher executes.  None of the  *)
(* updates looks at the status, the lock or the version of the row.        *)
(***************************************************************************)

UpdateNextEval(r, t, s) ==
  IF Exists(r)
  THEN /\ nextEval' = [nextEval EXCEPT ![r] = t]
       /\ slot' = [slot EXCEPT ![r] = s]
       /\ lockedBy' = [lockedBy EXCEPT ![r] = NoWatcher]
       /\ lapsed' = [lapsed EXCEPT ![r] = FALSE]
       /\ UNCHANGED <<status, kind, version>>
  ELSE UNCHANGED <<columns, slot>>

\* The lock stays.
UpdateStatusDone(r) ==
  IF Exists(r)
  THEN /\ status' = [status EXCEPT ![r] = "done"]
       /\ version' = [version EXCEPT ![r] = @ + 1]
       /\ UNCHANGED <<kind, nextEval, lockedBy, lapsed, slot>>
  ELSE UNCHANGED <<columns, slot>>

\* MarkConditionalDue clears the locks of other watchers, too.
MarkConditionalDue ==
  LET Hit == {r \in Reminders : status[r] = "active" /\ kind[r] = "conditional"} IN
  /\ nextEval' = [r \in Reminders |-> IF r \in Hit THEN now ELSE nextEval[r]]
  /\ slot' = [r \in Reminders |-> IF r \in Hit THEN now ELSE slot[r]]
  /\ lockedBy' = [r \in Reminders |-> IF r \in Hit THEN NoWatcher ELSE lockedBy[r]]
  /\ lapsed' = [r \in Reminders |-> IF r \in Hit THEN FALSE ELSE lapsed[r]]
  /\ UNCHANGED <<status, kind, version>>

\* Mutant: a lock never lapses.
UnlockedNeverLapses(r) == lockedBy[r] = NoWatcher

Unlocked(r) == lockedBy[r] = NoWatcher \/ lapsed[r]

Leasable == {r \in Reminders : status[r] = "active" /\ nextEval[r] <= now /\ Unlocked(r)}

\* ORDER BY next_eval_at LIMIT watcherBatchSize.
Batches ==
  {B \in SUBSET Leasable :
     /\ B # {}
     /\ Cardinality(B) <= BatchSize
     /\ B = Leasable \/ Cardinality(B) = BatchSize
     /\ \A r \in B, s \in Leasable \ B : nextEval[r] <= nextEval[s]}

LeaseRows(w, B) ==
  /\ lockedBy' = [r \in Reminders |-> IF r \in B THEN w ELSE lockedBy[r]]
  /\ lapsed' = [r \in Reminders |-> IF r \in B THEN FALSE ELSE lapsed[r]]
  /\ UNCHANGED <<status, kind, version, nextEval>>
-----------------------------------------------------------------------------
(***************************************************************************)
(* A watcher: startup(), tick_() and processReminder().                    *)
(***************************************************************************)

Startup(w) ==
  /\ pc[w] = "down"
  /\ pc' = [pc EXCEPT ![w] = "idle"]
  /\ MarkConditionalDue
  /\ UNCHANGED <<now, queue, cur, batch, copy, plan, dialog, fired, exposed,
                 raced, edits, asked, commands, faults>>

\* The statement fails; the watcher goes on to its ticker.
StartupFails(w) ==
  /\ Fault
  /\ pc[w] = "down"
  /\ pc' = [pc EXCEPT ![w] = "idle"]
  /\ UNCHANGED <<now, columns, queue, cur, batch, copy, plan, dialog, history, commands>>

LeaseDue(w) ==
  /\ pc[w] = "idle"
  /\ batch[w] = {}
  /\ \E B \in Batches :
       /\ LeaseRows(w, B)
       /\ batch' = [batch EXCEPT ![w] = B]
       /\ copy' = [copy EXCEPT ![w] = [r \in Reminders |->
            IF r \in B THEN [kind |-> kind[r], due |-> nextEval[r], slot |-> slot[r]]
            ELSE NoCopy]]
       /\ asked' = [r \in Reminders |-> IF r \in B THEN NoTime ELSE asked[r]]
  /\ UNCHANGED <<now, queue, pc, cur, plan, dialog, slot, fired, exposed,
                 raced, edits, commands, faults>>

\* The commit of the lease reports an error but has taken effect: tick_
\* returns, and the rows stay locked until the lease lapses.
LeaseAnswerLost(w) ==
  /\ Fault
  /\ pc[w] = "idle"
  /\ batch[w] = {}
  /\ \E B \in Batches : LeaseRows(w, B)
  /\ UNCHANGED <<now, queue, watcher, dialog, history, commands>>

\* Mutant: the key is made of the time of the evaluation.
EvaluateKeyedByNow(r, due) == {[key |-> <<r, now>>, at |-> due]}

\* evaluateScheduled: one notification, keyed by the due time.
EvaluateScheduled(r, due) == {[key |-> <<r, due>>, at |-> due]}

\* evaluateAnchor: the nearest event that has not begun, at once when its
\* lead time was missed.  Of events that begin at the same time, the one the
\* provider happens to list first.
FireAt(r, e) == EventAt[e] - LeadOf[r]

Upcoming(r) == {e \in Events : FireAt(r, e) >= now \/ EventAt[e] > now}

Nearest(r) == {e \in Upcoming(r) : \A g \in Upcoming(r) : EventAt[e] <= EventAt[g]}

EvaluateAnchor(r, e) ==
  {[key |-> <<User, e>>, at |-> IF FireAt(r, e) < now THEN now ELSE FireAt(r, e)]}

\* Lookup may find no event, and a provider error counts as none.
EvaluationsOf(r, due) ==
  IF r \in Anchors THEN {EvaluateAnchor(r, e) : e \in Nearest(r)} \cup {{}}
                   ELSE {EvaluateScheduled(r, due)}

Evaluate(w) ==
  /\ pc[w] = "idle"
  /\ \E r \in batch[w] :
       /\ cur' = [cur EXCEPT ![w] = r]
       /\ \E P \in EvaluationsOf(r, copy[w][r].due) : plan' = [plan EXCEPT ![w] = P]
  /\ pc' = [pc EXCEPT ![w] = "enqueue"]
  /\ UNCHANGED <<now, columns, queue, batch, copy, dialog, history, commands, faults>>

\* Evaluate returns an error, or panics and processReminderSafe recovers.
EvaluateFails(w) ==
  /\ pc[w] = "idle"
  /\ \E r \in batch[w] : cur' = [cur EXCEPT ![w] = r]
  /\ pc' = [pc EXCEPT ![w] = "retry"]
  /\ UNCHANGED <<now, columns, queue, batch, copy, plan, dialog, history, commands, faults>>

\* INSERT ... ON CONFLICT (idempotency_key) DO NOTHING.
InsertPlan(r, P, s) ==
  LET New == {p \in P : queue[p.key] = NoRow} IN
  /\ queue' = [k \in Keys |->
       IF \E p \in New : p.key = k
       THEN [state |-> "pending", owner |-> r, at |-> (CHOOSE p \in New : p.key = k).at]
       ELSE queue[k]]
  /\ fired' = [fired EXCEPT ![r][s] = @ + Cardinality(New)]

EnqueuePlan(w) ==
  /\ pc[w] = "enqueue"
  /\ Exists(cur[w]) \/ plan[w] = {}
  /\ InsertPlan(cur[w], plan[w], copy[w][cur[w]].slot)
  /\ pc' = [pc EXCEPT ![w] = "advance"]
  /\ UNCHANGED <<now, columns, cur, batch, copy, plan, dialog, slot, exposed,
                 raced, edits, asked, commands, faults>>

\* Mutant: enqueueFailed is not looked at.
EnqueueFailsUnnoticed(w) ==
  /\ pc[w] = "enqueue"
  /\ plan[w] # {}
  /\ pc' = [pc EXCEPT ![w] = "advance"]
  /\ UNCHANGED <<now, columns, queue, cur, batch, copy, plan, dialog, history,
                 commands, faults>>

\* The insert fails, as it must once the reminder is deleted (foreign key).
EnqueueFails(w) ==
  /\ pc[w] = "enqueue"
  /\ plan[w] # {}
  /\ pc' = [pc EXCEPT ![w] = "retry"]
  /\ UNCHANGED <<now, columns, queue, cur, batch, copy, plan, dialog, history,
                 commands, faults>>

\* The insert commits but its answer is an error.
EnqueueAnswerLost(w) ==
  /\ Fault
  /\ pc[w] = "enqueue"
  /\ plan[w] # {}
  /\ Exists(cur[w])
  /\ InsertPlan(cur[w], plan[w], copy[w][cur[w]].slot)
  /\ pc' = [pc EXCEPT ![w] = "retry"]
  /\ UNCHANGED <<now, columns, cur, batch, copy, plan, dialog, slot, exposed,
                 raced, edits, asked, commands>>

NextReminder(w) ==
  /\ pc' = [pc EXCEPT ![w] = "idle"]
  /\ batch' = [batch EXCEPT ![w] = @ \ {cur[w]}]
  /\ copy' = [copy EXCEPT ![w][cur[w]] = NoCopy]
  /\ plan' = [plan EXCEPT ![w] = {}]
  /\ UNCHANGED cur

\* Mutant: the nil of nextEval is written into the column.
AdvanceToNull(r, leased) ==
  UpdateNextEval(r, IF leased.kind = "absolute" THEN NoTime ELSE now + 1, now + 1)

\* nextEval works on the leased copy: without a cron the reminder is done.
AdvanceRow(r, leased) ==
  IF leased.kind = "absolute"
  THEN UpdateStatusDone(r)
  ELSE UpdateNextEval(r, now + 1, now + 1)

Advance(w) ==
  /\ pc[w] = "advance"
  /\ AdvanceRow(cur[w], copy[w][cur[w]])
  /\ NextReminder(w)
  /\ UNCHANGED <<now, queue, dialog, fired, exposed, raced, edits, asked,
                 commands, faults>>

\* scheduleRetry: the retry still stands for the slot that was leased.  It
\* has a key of its own, which a row the slot already has does not hold back.
ScheduleRetry(w) ==
  LET r == cur[w]
      s == copy[w][r].slot IN
  /\ pc[w] = "retry"
  /\ UpdateNextEval(r, now + 1, s)
  /\ NextReminder(w)
  /\ exposed' = [exposed EXCEPT ![r] = @ \/ fired[r][s] > 0]
  /\ UNCHANGED <<now, queue, dialog, fired, raced, edits, asked, commands, faults>>

\* The last write fails; the watcher logs it and leaves the lock behind.
WriteLost(w) ==
  /\ Fault
  /\ pc[w] \in {"advance", "retry"}
  /\ NextReminder(w)
  /\ UNCHANGED <<now, columns, queue, dialog, history, commands>>

\* The worker process dies; its leases stay in the table.
Crash(w) ==
  /\ Fault
  /\ pc[w] # "down"
  /\ pc' = [pc EXCEPT ![w] = "down"]
  /\ batch' = [batch EXCEPT ![w] = {}]
  /\ copy' = [copy EXCEPT ![w] = [r \in Reminders |-> NoCopy]]
  /\ plan' = [plan EXCEPT ![w] = {}]
  /\ UNCHANGED <<now, columns, queue, cur, dialog, history, commands>>

\* The delivery worker sends a notification that is due.
Deliver(k) ==
  /\ queue[k].state = "pending"
  /\ queue[k].at <= now
  /\ queue' = [queue EXCEPT ![k].state = "sent"]
  /\ UNCHANGED <<now, columns, watcher, dialog, history, commands, faults>>
-----------------------------------------------------------------------------
(***************************************************************************)
(* The user, through the handlers of the bot process.  No command looks at *)
(* the status of the reminder.                                             *)
(***************************************************************************)

Command ==
  /\ commands < MaxCommands
  /\ commands' = commands + 1

OwnRows(r) == {k \in Keys : queue[k] # NoRow /\ queue[k].owner = r}

\* Mutant: the notifications stay as they are.
KeepPending(r) == UNCHANGED queue

\* cancelPendingNotifications
CancelPending(r) ==
  queue' = [k \in Keys |->
    IF k \in OwnRows(r) /\ queue[k].state = "pending"
    THEN [queue[k] EXCEPT !.state = "cancelled"]
    ELSE queue[k]]

\* Mutant: the version is not counted up.
SetStatusOnly(r, s) ==
  /\ Exists(r)
  /\ status' = [status EXCEPT ![r] = s]
  /\ UNCHANGED <<now, kind, version, nextEval, lockedBy, lapsed, watcher, dialog,
                 slot, fired, exposed, edits, asked, faults>>

SetStatus(r, s) ==
  /\ Exists(r)
  /\ status' = [status EXCEPT ![r] = s]
  /\ version' = [version EXCEPT ![r] = @ + 1]
  /\ UNCHANGED <<now, kind, nextEval, lockedBy, lapsed, watcher, dialog, slot,
                 fired, exposed, edits, asked, faults>>

\* Pause, Finish and Cancel
Withdraw(r, s) ==
  /\ Command
  /\ SetStatus(r, s)
  /\ CancelPending(r)
  /\ raced' = [raced EXCEPT ![r] = @ \/ Held(r)]

Resume(r) ==
  /\ Command
  /\ SetStatus(r, "active")
  /\ UNCHANGED <<queue, raced>>

\* The foreign keys take the notifications along.
Remove(r) ==
  /\ Command
  /\ Exists(r)
  /\ status' = [status EXCEPT ![r] = "removed"]
  /\ queue' = [k \in Keys |-> IF k \in OwnRows(r) THEN NoRow ELSE queue[k]]
  /\ lockedBy' = [lockedBy EXCEPT ![r] = NoWatcher]
  /\ lapsed' = [lapsed EXCEPT ![r] = FALSE]
  /\ UNCHANGED <<now, kind, version, nextEval, watcher, dialog, history, faults>>

\* beginReminderEdit
BeginEdit(r) ==
  /\ commands < MaxCommands
  /\ Exists(r)
  /\ dialog' = [rem |-> r, version |-> version[r], status |-> status[r]]
  /\ UNCHANGED <<now, columns, queue, watcher, history, commands, faults>>

\* What the fields of an edit leave of the schedule: "repeat" makes a
\* reminder absolute or recurring, the others keep its kind.
EditedKinds(r) == {kind[r], "absolute", "recurring"}

\* A cron starts from now; a date must lie in the future.
EditedTimes(k) == IF k = "absolute" THEN {t \in Times : t > now} ELSE {now + 1}

CurrentEdit == Exists(dialog.rem) /\ version[dialog.rem] = dialog.version

\* saveReminderEdit and Update, when the version is still the one that the
\* dialog opened with.
SaveEdit ==
  /\ Command
  /\ dialog # NoDialog
  /\ CurrentEdit
  /\ LET r == dialog.rem IN
       /\ \E k \in EditedKinds(r) : \E t \in EditedTimes(k) :
            /\ kind' = [kind EXCEPT ![r] = k]
            /\ nextEval' = [nextEval EXCEPT ![r] = t]
            /\ slot' = [slot EXCEPT ![r] = t]
            /\ asked' = [asked EXCEPT ![r] = t]
       /\ version' = [version EXCEPT ![r] = @ + 1]
       /\ lockedBy' = [lockedBy EXCEPT ![r] = NoWatcher]
       /\ lapsed' = [lapsed EXCEPT ![r] = FALSE]
       /\ CancelPending(r)
       /\ edits' = [edits EXCEPT ![r] = @ + 1]
  /\ dialog' = NoDialog
  /\ UNCHANGED <<now, status, watcher, fired, exposed, raced, faults>>

\* ErrConflict: the dialog is reset, the reminder left alone.
EditConflicts ==
  /\ dialog # NoDialog
  /\ Exists(dialog.rem)
  /\ ~CurrentEdit
  /\ dialog' = NoDialog
  /\ UNCHANGED <<now, columns, queue, watcher, history, commands, faults>>

\* After dialogTTL the next message only resets the dialog.
EditExpires ==
  /\ dialog # NoDialog
  /\ dialog' = NoDialog
  /\ UNCHANGED <<now, columns, queue, watcher, history, commands, faults>>
-----------------------------------------------------------------------------

\* What a watcher does when nothing goes wrong with its process or its writes.
WatcherStep(w) ==
  \/ Evaluate(w)
  \/ EvaluateFails(w)
  \/ EnqueuePlan(w)
  \/ EnqueueFails(w)
  \/ Advance(w)
  \/ ScheduleRetry(w)

WatcherFault(w) ==
  \/ StartupFails(w)
  \/ LeaseAnswerLost(w)
  \/ EnqueueAnswerLost(w)
  \/ WriteLost(w)
  \/ Crash(w)

UserStep(r) ==
  \/ \E s \in {"paused", "done", "cancelled"} : Withdraw(r, s)
  \/ Resume(r)
  \/ Remove(r)
  \/ BeginEdit(r)

Next ==
  \/ Tick
  \/ \E w \in Watchers : Startup(w) \/ LeaseDue(w) \/ WatcherStep(w) \/ WatcherFault(w)
  \/ \E k \in Keys : Deliver(k)
  \/ \E r \in Reminders : OrphanLapses(r) \/ LeaseOverruns(r) \/ UserStep(r)
  \/ SaveEdit
  \/ EditConflicts
  \/ EditExpires

Spec == Init /\ [][Next]_vars

\* A dead worker is started again, the ticker fires for ever, calls return,
\* and the five minutes of a lease pass.
Fairness ==
  /\ \A w \in Watchers : /\ WF_vars(Startup(w))
                         /\ WF_vars(LeaseDue(w))
                         /\ WF_vars(WatcherStep(w))
  /\ \A r \in Reminders : WF_vars(OrphanLapses(r))

FairSpec == Spec /\ Fairness
-----------------------------------------------------------------------------
(***************************************************************************)
(* Properties.                                                             *)
(***************************************************************************)

\* A slot of a scheduled reminder is announced once: a watcher that crashed
\* or could not write evaluates it again under the same key.  Only a retry of
\* a slot that has its row already, and a lease that overran, can make a
\* second row (evaluateScheduled, scheduleRetry, LeaseDue).
OncePerSlot ==
  \A r \in Reminders \ Anchors, t \in Times : fired[r][t] > 1 => exposed[r]

\* A watcher finishes a one-shot reminder only when its notification has
\* been put into the queue (processReminder).
Planned(r) == \E t \in Times : queue[<<r, t>>] # NoRow

DoneIsPlanned ==
  [][\A r \in Reminders \ Anchors :
       status[r] # "done" /\ status'[r] = "done" /\ commands' = commands => Planned(r)]_vars

\* An edit is not saved over a change of status made after its dialog was
\* opened, by the user or by a watcher (saveReminderEdit, Update).
EditSeesStatus ==
  [][\A r \in Reminders : edits'[r] # edits[r] => status[r] = dialog.status]_vars

\* A paused or cancelled reminder has no pending notification, unless a
\* watcher was at work on it at the time; a deleted one leaves no row at all
\* (Pause, setTerminalStatus, Remove).
WithdrawnIsSilent ==
  \A r \in Reminders :
    /\ status[r] \in {"paused", "cancelled"} /\ ~raced[r]
         => \A k \in OwnRows(r) : queue[k].state # "pending"
    /\ status[r] = "removed" => OwnRows(r) = {}

\* A reminder that is active and due is in the end evaluated, or the user
\* takes it back (LeaseDue and its five minutes).
DueIsEvaluated ==
  \A r \in Reminders :
    status[r] = "active" /\ nextEval[r] <= now ~> ~(status[r] = "active" /\ nextEval[r] <= now)

-----------------------------------------------------------------------------
(***************************************************************************)
(* What comments promise and the code does not keep.                       *)
(***************************************************************************)

\* Update: "so the watcher can recalculate delivery from the new next
\* evaluation time": no watcher moves or finishes an edited reminder before
\* it has leased it anew.
EditIsNotOverwritten ==
  [][\A r \in Reminders \ Anchors :
       asked[r] # NoTime /\ asked'[r] = asked[r] /\ commands' = commands
         => status'[r] = status[r] /\ nextEval'[r] = nextEval[r]]_vars

\* Update: "Pending notifications are cancelled [...] so the watcher can
\* recalculate delivery": what a watcher plans for an active reminder it has
\* leased after the edit is not swallowed by the row that the edit cancelled.
EditIsRecalculated ==
  \A w \in Watchers :
    LET r == cur[w] IN
    pc[w] = "advance" /\ edits[r] > 0 /\ asked[r] = NoTime /\ status[r] = "active"
      => \A p \in plan[w] : queue[p.key].state # "cancelled"

\* userIdemKey: "it only dedupes retriggers of the *same* event rather than
\* colliding across a user's independent reminders": what a reminder has
\* planned is queued for that reminder.
OwnNotification ==
  \A w \in Watchers :
    pc[w] = "advance" /\ Exists(cur[w])
      => \A p \in plan[w] : p.key \in OwnRows(cur[w])
=============================================================================
