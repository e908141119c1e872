---------------------------- MODULE JanusPayload ----------------------------
(***************************************************************************)
(* The januspayload of an enforcement issue (api/janus_payload.go): a      *)
(* validated rule set is an OR of alternatives, each an AND of conditions, *)
(* and the payload carries one AND list only.  One step translates one     *)
(* rule set, or refuses it; the properties compare the requests the        *)
(* payload matches with the requests the rule set matches.                 *)
(*                                                                         *)
(* Keywords stand for what is left after the code's ToUpper, ToLower and   *)
(* TrimSpace.  A structured condition's values are a set: the code keeps   *)
(* the order of first appearance, which no match depends on.  What a       *)
(* condition tests, and how, is given by its type and its detail; the      *)
(* payload has no place for the detail, so whoever enforces it takes a     *)
(* default.                                                                *)
(***************************************************************************)
EXTENDS Naturals, Sequences, FiniteSets, SequencesExt

CONSTANTS
  Cves,            \* opts.CVE, "" when the caller left it out
  Contents,        \* what rule.Content decodes to
  Combinations,    \* set.CombinationOperation
  Operations,      \* alternative.Operation
  SourceActions,   \* alternative.SourceAction
  Types,           \* condition.Type and ValueWildcard, which the payload keeps
  Polarities,      \* condition.PositiveMatch
  Details,         \* operator, case, carrier, selector and transformations
  Default,         \* the detail that is taken where the payload gives none
  Values,          \* the strings a condition may list
  RuleSets         \* the rules that are translated

ASSUME FiniteAlphabet == IsFiniteSet(Values)   \* one rule lists finitely many
ASSUME PolaritiesAreBoolean == Polarities \subseteq BOOLEAN
ASSUME DefaultIsDetail == Default \in Details

VARIABLES
  rule,     \* the resolved rule and the options it is translated with
  payload   \* NotBuilt, Refused, or the conditions and the action it carries

vars == <<rule, payload>>

(* A list of values may be empty, or absent, which is the same.            *)
Condition ==
  [type : Types, positive : Polarities, detail : Details,
   value : Seq(Values)]
Alternative ==
  [operation : Operations, action : SourceActions,
   conditions : Seq(Condition)]
Rule ==
  [cve : Cves, content : Contents, combination : Combinations,
   rules : Seq(Alternative)]

ASSUME RuleSetsAreRules == RuleSets \subseteq Rule

Structured == [type : Types, positive : Polarities, value : SUBSET Values]

NotBuilt == [built |-> "no"]
Refused == [built |-> "refused"]
Built(conditions, action) ==
  [built |-> "yes", conditions |-> conditions, action |-> action]

(***************************************************************************)
(* The translation.                                                        *)
(***************************************************************************)

(* Everything about a condition except the values it lists.                *)
shape(c) == [type |-> c.type, positive |-> c.positive, detail |-> c.detail]

(* The target schema keeps the type, the polarity and the values.          *)
toStructuredConditions(conditions) ==
  [i \in DOMAIN conditions |->
     [type |-> conditions[i].type, positive |-> conditions[i].positive,
      value |-> ToSet(conditions[i].value)]]

Union_Last(rules, i) ==                       \* Mistake: overwrites the list
  ToSet(rules[Len(rules)].conditions[i].value)

(* The values some alternative lists at position i.                        *)
Union(rules, i) ==
  UNION {ToSet(rules[k].conditions[i].value) : k \in DOMAIN rules}

Varying_Unchecked(rules) == {}                \* Mistake: nothing is counted
Varying_All(rules) ==                         \* Mistake: counts every position
  DOMAIN rules[1].conditions

(* The code takes a position to vary when the union has not as many        *)
(* entries as the list of the first alternative.                           *)
Varying(rules) ==
  {i \in DOMAIN rules[1].conditions :
     Cardinality(Union(rules, i)) # Len(rules[1].conditions[i].value)}

(* Each alternative is an AND of at least one condition.                   *)
Conjunctions(rules) ==
  \A k \in DOMAIN rules :
    rules[k].operation \in {"AND", ""} /\ rules[k].conditions # <<>>

(* Every alternative has the condition shapes of the first.                *)
LineUp(rules) ==
  \A k \in DOMAIN rules :
    /\ DOMAIN rules[k].conditions = DOMAIN rules[1].conditions
    /\ \A i \in DOMAIN rules[1].conditions :
         shape(rules[k].conditions[i]) = shape(rules[1].conditions[i])

(* The sets that mergeAlternatives does not refuse.                        *)
Mergeable(r) ==
  /\ Conjunctions(r.rules)
  /\ Len(r.rules) > 1 => /\ r.combination = "OR"
                         /\ LineUp(r.rules)
                         /\ Cardinality(Varying(r.rules)) <= 1

(* One list with the values of all alternatives at each position.          *)
mergeAlternatives(r) ==
  LET base == toStructuredConditions(r.rules[1].conditions)
  IN  IF Len(r.rules) = 1 THEN base
      ELSE [i \in DOMAIN base |->
              [type |-> base[i].type, positive |-> base[i].positive,
               value |-> Union(r.rules, i)]]

(* How the policy knows the actions of a rule set.                         *)
PolicyAction == [block |-> "deny", deny |-> "deny",
                 alert |-> "alert", monitor |-> "alert"]

(* The one policy action of the alternatives; "" when there is none.       *)
policyActionFor(rules) ==
  LET actions == {rules[k].action : k \in DOMAIN rules}
  IN  IF \E a \in DOMAIN PolicyAction : actions = {a}
      THEN PolicyAction[CHOOSE a \in actions : TRUE]
      ELSE ""

(* What the translation answers for a rule.                                *)
Translation(r) ==
  IF /\ r.cve # ""
     /\ r.content = "akamai-custom-rule-set"
     /\ r.rules # <<>>
     /\ Mergeable(r)
     /\ policyActionFor(r.rules) # ""
  THEN Built(mergeAlternatives(r), policyActionFor(r.rules))
  ELSE Refused

Init == rule \in RuleSets /\ payload = NotBuilt

JanusPayloadFromCustomWAFRule ==
  /\ payload = NotBuilt
  /\ payload' = Translation(rule)
  /\ UNCHANGED rule

Next == JanusPayloadFromCustomWAFRule

Spec == Init /\ [][Next]_vars

(***************************************************************************)
(* What is matched.                                                        *)
(***************************************************************************)
ConditionsOf(r) == UNION {ToSet(r.rules[k].conditions) : k \in DOMAIN r.rules}

(* A request is what comes out of the tests that the rule set or its       *)
(* payload may put to it: for each type and detail, the listed values that *)
(* it hits.  Several may be hit, as by patterns or in a repeated header.   *)
Tests(r) ==
  {c.type : c \in ConditionsOf(r)}
    \X ({c.detail : c \in ConditionsOf(r)} \union {Default})
Requests(r) ==
  [Tests(r) -> SUBSET UNION {ToSet(c.value) : c \in ConditionsOf(r)}]

Holds(positive, listed, hit) == positive <=> listed \intersect hit # {}

(* A request matches the rule set when some alternative matches it.        *)
AlternativeMatches(alternative, q) ==
  \A i \in DOMAIN alternative.conditions :
    LET c == alternative.conditions[i]
    IN  Holds(c.positive, ToSet(c.value), q[<<c.type, c.detail>>])
RuleMatches(r, q) ==
  \E k \in DOMAIN r.rules : AlternativeMatches(r.rules[k], q)

(* A request matches the payload when all its conditions match it.         *)
PayloadMatches(p, q) ==
  \A i \in DOMAIN p.conditions :
    LET c == p.conditions[i]
    IN  Holds(c.positive, c.value, q[<<c.type, Default>>])

IsBuilt == payload.built = "yes"
NoRepeats(conditions) ==
  \A i \in DOMAIN conditions : IsInjective(conditions[i].value)
AllPositive(r) ==
  \A k \in DOMAIN r.rules : \A i \in DOMAIN r.rules[k].conditions :
    r.rules[k].conditions[i].positive

(* No condition says more than the payload can.                            *)
DetailsKept(r) ==
  \A k \in DOMAIN r.rules : \A i \in DOMAIN r.rules[k].conditions :
    r.rules[k].conditions[i].detail = Default

NoneEmpty(r) ==
  \A k \in DOMAIN r.rules : \A i \in DOMAIN r.rules[k].conditions :
    r.rules[k].conditions[i].value # <<>>

(* Nothing the validated rule covers is lost by the merge: a payload built *)
(* from positive conditions with the default detail matches every request  *)
(* that some alternative matches, empty lists included.                    *)
NothingDropped ==
  IsBuilt /\ AllPositive(rule) /\ DetailsKept(rule)
    => \A q \in Requests(rule) :
         RuleMatches(rule, q) => PayloadMatches(payload, q)

(* The case the code's comment calls exact.  When the first alternative    *)
(* lists one value per condition, no alternative lists none, and all       *)
(* conditions are positive with the default detail, the payload matches    *)
(* the same requests as the rule set: counting the union is then the same  *)
(* as asking whether the position differs.  Each hypothesis is needed, and *)
(* the code checks none of them.                                           *)
ExactWhenSingleValued ==
  /\ IsBuilt /\ AllPositive(rule) /\ DetailsKept(rule) /\ NoneEmpty(rule)
  /\ \A i \in DOMAIN rule.rules[1].conditions :
       Len(rule.rules[1].conditions[i].value) = 1
  => \A q \in Requests(rule) :
       PayloadMatches(payload, q) <=> RuleMatches(rule, q)

(* A merge never changes enforcement on some branch: the payload denies    *)
(* only if every alternative blocks or denies, and alerts only if every    *)
(* alternative alerts or monitors.                                         *)
ActionAgrees ==
  IsBuilt => \A k \in DOMAIN rule.rules :
    rule.rules[k].action \in IF payload.action = "deny"
                             THEN {"block", "deny"} ELSE {"alert", "monitor"}

(* Positions where two alternatives list different sets of values.         *)
Differs(rules) ==
  {i \in DOMAIN rules[1].conditions :
     \E k \in DOMAIN rules : ToSet(rules[k].conditions[i].value)
                               # ToSet(rules[1].conditions[i].value)}

(* The comment of mergeAlternatives: with one position that differs the    *)
(* collapse is exact, whatever the lengths of the lists.                   *)
ExactWhenOneDiffers ==
  /\ IsBuilt /\ AllPositive(rule) /\ DetailsKept(rule)
  /\ Cardinality(Differs(rule.rules)) <= 1
  => \A q \in Requests(rule) :
       PayloadMatches(payload, q) <=> RuleMatches(rule, q)

(* A set that one AND list can express is not refused: its alternatives    *)
(* line up, differ in at most one position, agree on a known action, and   *)
(* no list of the first alternative repeats a value.                       *)
ExpressibleIsBuilt ==
  /\ payload # NotBuilt
  /\ rule.cve # "" /\ rule.content = "akamai-custom-rule-set"
  /\ rule.rules # <<>> /\ rule.combination = "OR"
  /\ Conjunctions(rule.rules) /\ LineUp(rule.rules)
  /\ Cardinality(Differs(rule.rules)) <= 1
  /\ NoRepeats(rule.rules[1].conditions)
  /\ policyActionFor(rule.rules) # ""
  => IsBuilt
=============================================================================
