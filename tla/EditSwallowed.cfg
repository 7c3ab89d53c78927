\* An anchor is edited after its notification was queued.
SPECIFICATION Spec
CONSTANTS
  Watchers = {w1}
  r1 = r1
  r2 = r2
  e1 = e1
  Reminders = {r2}
  KindOf <- Mixed
  Anchors = {r2}
  LeadOf <- DifferentLeads
  Events = {e1}
  EventAt <- EventTimes
  User = user
  NoWatcher = none
  NoReminder = none
  NoTime = none
  BatchSize = 1
  MaxTime = 2
  MaxCommands = 1
  MaxFaults = 0
INVARIANT EditIsRecalculated
CHECK_DEADLOCK FALSE
