SPECIFICATION Spec
CHECK_DEADLOCK FALSE
CONSTANTS
  Cves = {"", "CVE"}
  Contents = {"akamai-custom-rule-set", "unreadable"}
  Combinations = {"OR", "AND"}
  Operations = {"AND", "", "OR"}
  SourceActions = {"block", "deny", "monitor", ""}
  Types = {"path", "header"}
  Polarities = {TRUE, FALSE}
  Details = {"default", "cookie"}
  Default = "default"
  Values = {"a", "b", "c"}
  RuleSets <- MCRuleSets
INVARIANT MergeIsExact
