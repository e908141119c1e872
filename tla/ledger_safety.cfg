CONSTANTS
  r1 = r1
  w1 = w1
  w2 = w2
  NoRun = NoRun
  Runs = {r1}
  Workers = {w1, w2}
  CallbackRuns = {r1}
  ForeignRuns = {r1}
  SinkConfigs = {TRUE, FALSE}
  MaxAttempts = 2
  MaxVerificationAttempts = 2
  MaxFaults = 3
SPECIFICATION Spec
SYMMETRY WorkerSymmetry
CHECK_DEADLOCK FALSE
INVARIANTS
  IInv
  CanceledNeverPublished
  PublishedIsStaged
  CompletedMatchesSink
  SinglePublisher
  NoStrandedRun
  OutboxArmed
PROPERTIES
  TerminalImmutable
  CancellationCutoff
  ImplementsLifecycle
