SPECIFICATION Spec
CHECK_DEADLOCK FALSE
CONSTANTS
  r1 = r1
  r2 = r2
  s1 = s1
  p1 = p1
  p2 = p2
  Replicas = {p1, p2}
  LegacyRuns = {r1, r2}
  SyncRuns = {s1}
  Ledgers <- MCLedgers
  MaxFaults = 1
INVARIANTS
  LedgerCarriedOver
  ShownCompletedIsPublished
  AnswerStaysTrue
  EventsSurvive
PROPERTIES
  SyncRecordFrozen
  UpgradeConverges
