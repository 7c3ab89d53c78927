\* A watcher, a one-shot reminder and an anchor; one command, one fault.
SPECIFICATION FairSpec
CONSTANTS
  Watchers = {w1}
  r1 = r1
  r2 = r2
  e1 = e1
  Reminders = {r1, r2}
  KindOf <- Mixed
  Anchors = {r2}
  LeadOf <- DifferentLeads
  Events = {e1}
  EventAt <- EventTimes
  User = user
  NoWatcher = none
  NoReminder = none
  NoTime = none
  BatchSize = 2
  MaxTime = 1
  MaxCommands = 1
  MaxFaults = 1
PROPERTY DueIsEvaluated
CHECK_DEADLOCK FALSE
