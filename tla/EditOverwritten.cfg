\* An edit is saved while a watcher has the reminder on lease.
SPECIFICATION Spec
CONSTANTS
  Watchers = {w1}
  r1 = r1
  r2 = r2
  e1 = e1
  Reminders = {r1}
  KindOf <- OneShot
  Anchors = {}
  LeadOf <- DifferentLeads
  Events = {e1}
  EventAt <- EventTimes
  User = user
  NoWatcher = none
  NoReminder = none
  NoTime = none
  BatchSize = 1
  MaxTime = 2
  MaxCommands = 1
  MaxFaults = 0
PROPERTY EditIsNotOverwritten
CHECK_DEADLOCK FALSE
