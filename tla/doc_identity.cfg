SPECIFICATION Spec
CHECK_DEADLOCK FALSE
CONSTANTS
  Executions = {e1, e2}
  Rules = {r1, r2}
  Mappable = {r1}
  NoRule = NoRule
  NoExecution = NoExecution
  KeyHonoured = TRUE
SYMMETRY ExecutionSymmetry
INVARIANT IssueCarriesRunIdentity
