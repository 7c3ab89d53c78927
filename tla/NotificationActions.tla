------------------------- MODULE NotificationActions -------------------------
(***************************************************************************)
(* The buttons under the notifications of one reminder.  A press takes its *)
(* effect, then records itself, then runs the reminder if it was the first *)
(* of its kind; presses of several taps interleave between these steps.    *)
(* The janitor meanwhile deletes what is old.  A tick is a week: the       *)
(* longest snooze, the retention of notifications; a press takes seconds.  *)
(***************************************************************************)
EXTENDS Integers, Sequences, FiniteSets

CONSTANTS
  NoReminder,
  Taps,             \* the goroutines that handle presses
  NotificationRetention, ReminderRetention,  \* in ticks
  MaxWeek, MaxPresses, MaxUserChanges, MaxFailures

Snoozes == {"snooze_10", "snooze_default"}
Actions == {"done", "pause", "check"} \cup Snoozes
Status == [status : {"active", "paused", "done"}, updated : 0..MaxWeek]

\* Two snoozes, each pressed as late as can be, end within the retention of a
\* finished reminder: 7 days against 30.
ASSUME RetentionAssumption ==
  /\ {NotificationRetention, ReminderRetention, MaxWeek} \subseteq Nat
  /\ 2 * (NotificationRetention + 1) <= ReminderRetention
  /\ NoReminder \notin Status

VARIABLES
  time,
  reminder,         \* its status and updated_at, or NoReminder once deleted
  notifications,    \* the rows, those without parent at generation 0
  records,          \* notification_actions
  pressing,         \* what each tap is doing
  effects,          \* history: the presses that took effect
  runs,             \* history: how often a press ran the reminder
  counts            \* presses, changes and faults so far

buttonVars == <<time, reminder, notifications, records, pressing, effects, runs, counts>>

Original == [id |-> <<>>, fireAt |-> 0, status |-> "sent"]
NoPress == [stage |-> "none"]

\* Every variable has its type; what is recorded names an action.
ButtonsTypeOK ==
  /\ time \in 0..MaxWeek
  /\ reminder # NoReminder => /\ reminder.status \in {"active", "paused", "done"}
                        /\ reminder.updated \in 0..time
  /\ \A n \in notifications : n.status \in {"pending", "sent", "cancelled"}
  /\ \A r \in records : r[2] \in Actions
  /\ \A h \in Taps : pressing[h] = NoPress \/ pressing[h].stage \in {"effect", "record", "run"}

ButtonsInit ==
  /\ time = 0
  /\ reminder \in [status : {"active", "done"}, updated : {0}]
  /\ notifications = {Original}
  /\ records = {} /\ effects = {} /\ runs = {}
  /\ pressing = [h \in Taps |-> NoPress]
  /\ counts = [presses |-> 0, changes |-> 0, faults |-> 0]

Count(what, bound) ==
  /\ counts[what] < bound
  /\ counts' = [counts EXCEPT ![what] = @ + 1]

\* A snooze is told from its siblings by its parent and action: both are in
\* its key, and generations are the depth of its identity.
Child(id, action) == Append(id, action)
Generation(n) == Len(n.id)
Row(id) == {n \in notifications : n.id = id}
Press(h) == <<pressing[h].note, pressing[h].action>>
Proceed(h, stage) == pressing' = [pressing EXCEPT ![h].stage = stage]
EndPress(h) == pressing' = [pressing EXCEPT ![h] = NoPress]

\* Mutant: the notifications are given the status of their reminder.
cancelledAsReminder == {[n EXCEPT !.status = IF @ = "pending" THEN "paused" ELSE @] : n \in notifications}
Cancelled == {[n EXCEPT !.status = IF @ = "pending" THEN "cancelled" ELSE @] : n \in notifications}

\* Apply: the notification and its reminder are looked up.
Tap(h) ==
  /\ pressing[h] = NoPress /\ reminder # NoReminder
  /\ Count("presses", MaxPresses)
  /\ \E n \in notifications, action \in Actions :
       /\ n.status = "sent"
       /\ pressing' = [pressing EXCEPT ![h] = [stage |-> "effect", note |-> n.id, action |-> action]]
  /\ UNCHANGED <<time, reminder, notifications, records, effects, runs>>

\* Finish and Pause write the status whatever it was, and cancel what is
\* pending; Enqueue ignores a snooze that is there already; check takes its
\* effect later.
Effect(h) ==
  LET action == pressing[h].action
      snoozed == Child(pressing[h].note, action)
  IN
  /\ reminder # NoReminder
  /\ \/ /\ action \in {"done", "pause"}
        /\ reminder' = [status |-> IF action = "done" THEN "done" ELSE "paused", updated |-> time]
        /\ notifications' = Cancelled
     \/ /\ action \in Snoozes
        /\ IF Row(snoozed) # {} THEN UNCHANGED notifications
           ELSE notifications' = notifications \cup
                  {[id |-> snoozed, fireAt |-> IF action = "snooze_10" THEN time ELSE time + 1,
                    status |-> "pending"]}
        /\ UNCHANGED reminder
     \/ /\ action = "check"
        /\ UNCHANGED <<reminder, notifications>>
  /\ effects' = effects \cup {Press(h)}

TakeEffect(h) ==
  /\ pressing[h].stage = "effect"
  /\ Effect(h)
  /\ Proceed(h, "record")
  /\ UNCHANGED <<time, records, runs, counts>>

\* Mutant: the press is recorded although its effect failed.
recordedAnyway(h) == Proceed(h, "record")

\* callbackUnavailable
unavailable(h) == EndPress(h)

\* The statement fails, or the reminder was deleted meanwhile.
EffectFails(h) ==
  /\ pressing[h].stage = "effect"
  /\ \/ reminder # NoReminder /\ Count("faults", MaxFailures)
     \/ reminder = NoReminder /\ UNCHANGED counts
  /\ unavailable(h)
  /\ UNCHANGED <<time, reminder, notifications, records, effects, runs>>

\* Mutant: a repeated check runs the reminder again.
recordedOften(h) == IF pressing[h].action = "check" THEN Proceed(h, "run") ELSE EndPress(h)

\* ErrAlreadyExists takes RunNow back.
recorded(h) ==
  IF pressing[h].action = "check" /\ Press(h) \notin records THEN Proceed(h, "run") ELSE EndPress(h)

Record(h) ==
  /\ pressing[h].stage = "record" /\ Row(pressing[h].note) # {}
  /\ records' = records \cup {Press(h)}
  /\ recorded(h)
  /\ UNCHANGED <<time, reminder, notifications, effects, runs, counts>>

\* The insert fails, or the notification is gone and its foreign key fails.
RecordFails(h) ==
  /\ pressing[h].stage = "record"
  /\ \/ Row(pressing[h].note) # {} /\ Count("faults", MaxFailures)
     \/ Row(pressing[h].note) = {} /\ UNCHANGED counts
  /\ EndPress(h)
  /\ UNCHANGED <<time, reminder, notifications, records, effects, runs>>

\* runNow evaluates the reminder and sends the outcome.
RunNow(h) ==
  /\ pressing[h].stage = "run"
  /\ runs' = runs \cup {[press |-> Press(h), n |-> Cardinality(runs)]}
  /\ EndPress(h)
  /\ UNCHANGED <<time, reminder, notifications, records, effects, counts>>

\* The bot stops in the middle of a press; its update is not repeated.
Crash ==
  /\ \E h \in Taps : pressing[h] # NoPress
  /\ Count("faults", MaxFailures)
  /\ pressing' = [h \in Taps |-> NoPress]
  /\ UNCHANGED <<time, reminder, notifications, records, effects, runs>>

(***************************************************************************)
(* The commands, the delivery and the janitor meanwhile.                    *)
(***************************************************************************)

\* /resume, or the card's button.
Resume ==
  /\ reminder # NoReminder /\ Count("changes", MaxUserChanges)
  /\ reminder' = [status |-> "active", updated |-> time]
  /\ UNCHANGED <<time, notifications, records, pressing, effects, runs>>

\* The rows of the reminder go with it, and their records with them.
RemoveReminder ==
  /\ reminder # NoReminder /\ Count("changes", MaxUserChanges)
  /\ reminder' = NoReminder /\ notifications' = {} /\ records' = {}
  /\ UNCHANGED <<time, pressing, effects, runs>>

\* A pending row is delivered whatever the status of its reminder.
Deliver ==
  /\ \E n \in notifications :
       /\ n.status = "pending" /\ n.fireAt <= time
       /\ notifications' = (notifications \ {n}) \cup {[n EXCEPT !.status = "sent"]}
  /\ UNCHANGED <<time, reminder, records, pressing, effects, runs, counts>>

Old(n, t) == n.status = "sent" /\ n.fireAt < t - NotificationRetention

\* Mutant: reminders are kept as long as notifications.
prunedAsNotifications(r, t) == r.status = "done" /\ r.updated < t - NotificationRetention

\* PruneDoneReminders
prunedReminder(r, t) == r.status = "done" /\ r.updated < t - ReminderRetention

\* A week passes with the worker up: what was due is delivered, and the
\* janitor sweeps.
WeekPasses ==
  /\ time < MaxWeek /\ time' = time + 1
  /\ \A h \in Taps : pressing[h] = NoPress
  /\ ~\E n \in notifications : n.status = "pending" /\ n.fireAt <= time
  /\ IF reminder # NoReminder /\ prunedReminder(reminder, time')
     THEN reminder' = NoReminder /\ notifications' = {}
     ELSE notifications' = {n \in notifications : ~Old(n, time')} /\ UNCHANGED reminder
  /\ records' = {r \in records : \E n \in notifications' : n.id = r[1]}
  /\ UNCHANGED <<pressing, effects, runs, counts>>

TapStep(h) ==
  \/ Tap(h) \/ TakeEffect(h) \/ EffectFails(h) \/ Record(h) \/ RecordFails(h) \/ RunNow(h)

ButtonsNext ==
  \/ WeekPasses \/ Deliver \/ Resume \/ RemoveReminder \/ Crash
  \/ \E h \in Taps : TapStep(h)

ButtonsSpec == ButtonsInit /\ [][ButtonsNext]_buttonVars
-----------------------------------------------------------------------------
\* A check runs the reminder once, however often and however concurrently
\* its button is pressed and whatever fails.
RunOnce == \A r, s \in runs : r.press = s.press => r = s

\* A press that is recorded, and answered as done the next time, took effect.
TookEffect == records \subseteq effects

\* A snoozed notification, and its snooze, outlive the janitor however late
\* the button was pressed: only the user's removal deletes them before they
\* are sent.  (A third snooze may be as old as the reminder's retention.)
SnoozeSurvives ==
  [][\A n \in notifications :
       n.status = "pending" /\ Generation(n) <= 2 /\ time' > time => n \in notifications']_buttonVars

\* README: "Repeated button presses are idempotent."
PressIsIdempotent ==
  [][\A h \in Taps :
       /\ pressing[h] # NoPress /\ pressing[h].stage = "effect" /\ Press(h) \in records
       /\ pressing' # pressing /\ reminder' # NoReminder
       => reminder'.status = reminder.status]_buttonVars
=============================================================================
