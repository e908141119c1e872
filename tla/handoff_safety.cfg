SPECIFICATION Spec
CHECK_DEADLOCK FALSE
CONSTANTS
  Executions = {e1, e2}
  Rules = {r1, r2}
  Mappable = {r1}
  NoRule = NoRule
  NoExecution = NoExecution
  KeyHonoured = FALSE
SYMMETRY ExecutionSymmetry
INVARIANT IssueMatchesRow
INVARIANT StepsAreTrue
INVARIANT NothingSwallowed
