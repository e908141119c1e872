SPECIFICATION FairSpec
CHECK_DEADLOCK FALSE
CONSTANTS
  s1 = s1
  s2 = s2
  s3 = s3
  NoRow = NoRow
  NoRequest = NoRequest
  NoTarget = "none"
  Submissions = {s1, s2, s3}
  Keys = {"", "k1", "k2"}
  Correlations = {"", "c1", "c2"}
  Bodies = {"b1", "b2", "invalid"}
  ValidBodies = {"b1", "b2"}
  Layouts = {"compact", "indented"}
  Targets = {"t1"}
  Requests <- MCRequests
  MaxOpenConns = 2
INVARIANTS
  AcceptedIsStored
  RetryNeverConflicts
  OneRunPerKey
PROPERTIES
  SubmissionsEnd
