CONSTANTS
  r1 = r1
  r2 = r2
  d1 = d1
  d2 = d2
  NoRun = NoRun
  NoDispatcher = NoDispatcher
  Runs = {r1, r2}
  Dispatchers = {d1, d2}
  HttpStatuses = {200, 202, 503}
  TokenConfigs = {TRUE, FALSE}
  ScheduleLength = 2
  MaxMishaps = 2
SPECIFICATION FairSpec
CHECK_DEADLOCK FALSE
INVARIANTS
  DeliveredWasAccepted
  DuplicatesExplained
  ScheduleFollowed
PROPERTIES
  KeepsTrying
  SettledFinal
