CONSTANTS
  w1 = w1
  w2 = w2
  Watchers <- MCWatchers
  Bot = Bot
  NoOne = NoOne
  NoTime = NoTime
  NoTarget = NoTarget
  NoObservation = NoObservation
  Specs <- MCSpecs
  Sizes = {0, 2}
  DayLength = 3
  Keep = 1
  MaxTime = 4
  MaxRuns = 1
  MaxFaults = 1
SYMMETRY WatcherSymmetry
SPECIFICATION Spec
CHECK_DEADLOCK FALSE
INVARIANTS TypeOK NothingExtra NothingMissing NewsIsWhole NoExtraDigest
PROPERTY PruneKeepsLast
