SPECIFICATION Spec
CHECK_DEADLOCK FALSE
CONSTANTS
  Executions = {e1}
  Ids = {"d", "k", "other"}
  Correlation <- MCCorrelation
  Contents = {"x", "y", "z"}
  Supported <- MCSupported
  Complete <- MCComplete
  Instants = {"t1", "t2"}
  Requests <- MCRequests
  DefenseRows <- MCDefenseRows
  CheckRows <- MCCheckRows
  Files <- MCFiles
  Originals <- MCOriginals
INVARIANTS
  ResolvedIsPinned
  LineageHolds
  HonestNotRefused
