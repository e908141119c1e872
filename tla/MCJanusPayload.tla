--------------------------- MODULE MCJanusPayload ---------------------------
(***************************************************************************)
(* The rule sets that TLC translates, and a statement of janus_payload.go  *)
(* that its translation does not keep.                                     *)
(***************************************************************************)
EXTENDS JanusPayload

(* Alternatives of at most n conditions out of a set of conditions.        *)
Alternatives(operations, actions, conditions, n) ==
  [operation : operations, action : actions,
   conditions : BoundedSeq(conditions, n)]

(* Positive conditions that list at most n of the given values.            *)
Positive(values, n) ==
  [type : Types, positive : {TRUE}, detail : {Default},
   value : BoundedSeq(values, n)]

(* Well-formed rule sets of at most n alternatives.                        *)
WellFormed(alternatives, n) ==
  [cve : {"CVE"}, content : {"akamai-custom-rule-set"}, combination : {"OR"},
   rules : BoundedSeq(alternatives, n)]

(* Lists of at most two values, repeats included.                          *)
ManyValued ==
  WellFormed(Alternatives({"AND"}, {"block"}, Positive({"a", "b"}, 2), 2), 2)

(* At most one value each, and two alternatives to differ from the first.  *)
ThreeAlternatives ==
  WellFormed(Alternatives({"AND"}, {"block"}, Positive({"a", "b", "c"}, 1), 2),
             3)

(* Everything that can be wrong with a rule set, and negated conditions.   *)
Shapes ==
  [cve : Cves, content : Contents, combination : Combinations,
   rules : BoundedSeq(
             Alternatives(Operations, SourceActions,
                          [type : Types, positive : Polarities,
                           detail : {Default}, value : {<<"a">>, <<"b">>}], 1),
             2)]

(* Conditions with a detail that the payload has no place for.             *)
Detailed ==
  WellFormed(Alternatives({"AND"}, {"block"},
                          [type : Types, positive : Polarities,
                           detail : Details, value : {<<"a">>, <<"b">>}], 2),
             2)

MCRuleSets == ManyValued \union ThreeAlternatives \union Shapes \union Detailed

(* JanusPayloadFromCustomWAFRule "fails rather than emitting a payload     *)
(* that would enforce something other than what the rule set expresses":   *)
(* a payload that is built matches exactly what the rule set matches, when *)
(* every condition lists values and none twice.                            *)
MergeIsExact ==
  /\ IsBuilt /\ NoneEmpty(rule)
  /\ \A k \in DOMAIN rule.rules : NoRepeats(rule.rules[k].conditions)
  => \A q \in Requests(rule) :
       PayloadMatches(payload, q) <=> RuleMatches(rule, q)
=============================================================================
