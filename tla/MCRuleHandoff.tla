--------------------------- MODULE MCRuleHandoff ---------------------------
(***************************************************************************)
(* Small instances of RuleHandoff for TLC, and a statement the repository  *)
(* makes about enforcement issues that its code does not keep.             *)
(***************************************************************************)
EXTENDS RuleHandoff, TLC

(* Executions are interchangeable.                                         *)
ExecutionSymmetry == Permutations(Executions)

(* README: "januscorrelationid, janusrequestid and januscausationid are    *)
(* the run's own".                                                         *)
IssueCarriesRunIdentity == \A i \in issues : i.identity = "run"
=============================================================================
