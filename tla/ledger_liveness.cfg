CONSTANTS
  r1 = r1
  w1 = w1
  w2 = w2
  NoRun = NoRun
  Runs = {r1}
  Workers = {w1, w2}
  CallbackRuns = {r1}
  ForeignRuns = {r1}
  SinkConfigs = {TRUE, FALSE}
  MaxAttempts = 2
  MaxVerificationAttempts = 2
  MaxFaults = 2
SPECIFICATION FairSpec
CHECK_DEADLOCK FALSE
PROPERTIES
  RunsEnd
  CancellationRecovered
