CONSTANTS
  None = None
  Channels <- MCChannels
  Similar <- MCSimilar
  Coverage = 3
  epgBatchSize = 2
  UpdateInterval = 2
  Timeout = 1
  MaxTime = 2
  MaxFaults = 0
SPECIFICATION GuideSpec
CHECK_DEADLOCK FALSE
INVARIANTS RunSeesGuide
