CONSTANTS
  r1 = r1
  w1 = w1
  w2 = w2
  NoRun = NoRun
  Runs = {r1}
  Workers = {w1, w2}
  CallbackRuns = {}
  ForeignRuns = {}
  MaxAttempts = 2
  MaxVerificationAttempts = 2
  SinkConfigs = {TRUE}
  MaxFaults = 1
SPECIFICATION FairSpec
CHECK_DEADLOCK FALSE
PROPERTY RecoveryRepublishes
