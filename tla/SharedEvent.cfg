\* Two anchors of a user ask for the same event.
SPECIFICATION Spec
CONSTANTS
  Watchers = {w1}
  r1 = r1
  r2 = r2
  e1 = e1
  Reminders = {r1, r2}
  KindOf <- Mixed
  Anchors = {r1, r2}
  LeadOf <- DifferentLeads
  Events = {e1}
  EventAt <- EventTimes
  User = user
  NoWatcher = none
  NoReminder = none
  NoTime = none
  BatchSize = 2
  MaxTime = 2
  MaxCommands = 0
  MaxFaults = 0
INVARIANT OwnNotification
CHECK_DEADLOCK FALSE
