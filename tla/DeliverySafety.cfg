\* Two workers and three notifications of one reminder, two with the same
\* key; one fault.
SPECIFICATION Spec
CONSTANTS
  Workers = {w1, w2}
  n1 = n1
  n2 = n2
  n3 = n3
  r1 = r1
  r2 = r2
  k1 = k1
  k2 = k2
  Notifs = {n1, n2, n3}
  Reminders = {r1}
  ReminderOf <- SameReminder
  KeyOf <- SharedKey
  NoWorker = NoWorker
  MaxAttempts = 2
  BatchSize = 2
  MaxFaults = 1
  MaxRequeues = 1
SYMMETRY WorkerSymmetry
INVARIANTS
  TypeOK
  NoDuplicateUnlessExposed
  PendingHasAttemptsLeft
  SettledIsReleased
PROPERTIES
  WithdrawnStaysAtRest
  ImplementsContract
CHECK_DEADLOCK FALSE
