\* Two watchers and a reminder that begins as a one-shot; the user withdraws,
\* resumes or edits it twice, and two faults happen.
SPECIFICATION Spec
CONSTANTS
  Watchers = {w1, w2}
  r1 = r1
  r2 = r2
  e1 = e1
  Reminders = {r1}
  KindOf <- OneShot
  Anchors = {}
  LeadOf <- DifferentLeads
  Events = {e1}
  EventAt <- EventTimes
  User = user
  NoWatcher = none
  NoReminder = none
  NoTime = none
  BatchSize = 1
  MaxTime = 2
  MaxCommands = 2
  MaxFaults = 2
SYMMETRY WatcherSymmetry
INVARIANTS TypeOK OncePerSlot WithdrawnIsSilent
PROPERTIES DoneIsPlanned EditSeesStatus
CHECK_DEADLOCK FALSE
