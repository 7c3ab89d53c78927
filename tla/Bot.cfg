CONSTANTS
  h1 = h1
  h2 = h2
  Handlers <- MCHandlers
  None = None
  Unparsable = Unparsable
  DayLength = 2
  Topics = {"mail"}
  Conditions <- MCConditions
  Parses <- MCParses
  PollCron <- MCPollCron
  Fields = {"repeat", "time", "text", "condition"}
  TTL = 1
  MaxTime = 3
  MaxUpdates = 4
  MaxChanges = 1
  MaxFaults = 1
  t1 = t1
  t2 = t2
  Taps <- MCTaps
  NoReminder = NoReminder
  NotificationRetention = 1
  ReminderRetention = 4
  MaxWeek = 6
  MaxPresses = 3
  MaxUserChanges = 1
  MaxFailures = 1
SYMMETRY BotSymmetry
SPECIFICATION BotSpec
CHECK_DEADLOCK FALSE
INVARIANTS
  TypeOK OncePerContent DraftIsSpent RefusedHasTwin KindMatchesTrigger
  ButtonsTypeOK RunOnce TookEffect
PROPERTIES NoStaleCreate SnoozeSurvives
