CONSTANTS
  t1 = t1
  t2 = t2
  Taps <- MCTaps
  NoReminder = NoReminder
  NotificationRetention = 1
  ReminderRetention = 4
  MaxWeek = 1
  MaxPresses = 2
  MaxUserChanges = 1
  MaxFailures = 0
SYMMETRY TapSymmetry
SPECIFICATION ButtonsSpec
CHECK_DEADLOCK FALSE
PROPERTY PressIsIdempotent
