SPECIFICATION Spec
CONSTANTS
  Requests <- MCRequests
INVARIANTS
  CoverageIsReachability
  SourcesPartitioned
  UnitCanBeApplied
  RulesAndBindingsPair
