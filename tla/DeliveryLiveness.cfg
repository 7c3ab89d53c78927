\* Two workers, two notifications of two reminders, one fault: what is pending is settled.
SPECIFICATION FairSpec
CONSTANTS
  Workers = {w1, w2}
  n1 = n1
  n2 = n2
  n3 = n3
  r1 = r1
  r2 = r2
  k1 = k1
  k2 = k2
  Notifs = {n1, n2}
  Reminders = {r1, r2}
  ReminderOf <- OwnReminder
  KeyOf <- OwnKey
  NoWorker = NoWorker
  MaxAttempts = 2
  BatchSize = 1
  MaxFaults = 1
  MaxRequeues = 1

PROPERTY PendingIsSettled
CHECK_DEADLOCK FALSE
