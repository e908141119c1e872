------------------------- MODULE JanusPayloadProofs -------------------------
(***************************************************************************)
(* Proofs about JanusPayload for every alphabet of values, types and       *)
(* keywords and every size of a rule set.                                  *)
(***************************************************************************)
EXTENDS JanusPayload, FiniteSetTheorems, TLAPS

(* What a rule is made of: its alternatives are numbered from 1, and each  *)
(* numbers its conditions from 1.                                          *)
LEMMA RuleParts ==
  ASSUME NEW r \in Rule
  PROVE  /\ \E m \in Nat : DOMAIN r.rules = 1..m /\ Len(r.rules) = m
         /\ \A k \in DOMAIN r.rules : r.rules[k] \in Alternative
<1>1. r.rules \in Seq(Alternative)
  BY DEF Rule
<1> QED
  BY <1>1

(* An alternative numbers its conditions from 1, and a condition that has  *)
(* a list that is not empty lists a value.                                 *)
LEMMA ConditionParts ==
  ASSUME NEW a \in Alternative
  PROVE  /\ \E n \in Nat : DOMAIN a.conditions = 1..n
         /\ \A i \in DOMAIN a.conditions :
              /\ a.conditions[i] \in Condition
              /\ ToSet(a.conditions[i].value) \subseteq Values
              /\ a.conditions[i].value # <<>> =>
                   ToSet(a.conditions[i].value) # {}
<1>1. a.conditions \in Seq(Condition)
  BY DEF Alternative
<1>2. ASSUME NEW i \in DOMAIN a.conditions
      PROVE  /\ a.conditions[i] \in Condition
             /\ ToSet(a.conditions[i].value) \subseteq Values
             /\ a.conditions[i].value # <<>> =>
                  ToSet(a.conditions[i].value) # {}
  <2> DEFINE v == a.conditions[i].value
  <2>1. a.conditions[i] \in Condition
    BY <1>1, <1>2
  <2>2. v \in Seq(Values)
    BY <2>1 DEF Condition
  <2>3. (v # <<>> => 1 \in DOMAIN v) /\ \A j \in DOMAIN v : v[j] \in Values
    BY <2>2
  <2> HIDE DEF v
  <2>4. ToSet(v) \subseteq Values /\ (v # <<>> => ToSet(v) # {})
    BY <2>3 DEF ToSet
  <2> QED
    BY <2>1, <2>4 DEF v
<1> QED
  BY <1>1, <1>2

(* What an accepted rule satisfies.                                        *)
LEMMA AcceptedRule ==
  ASSUME NEW r \in Rule, Translation(r).built = "yes"
  PROVE  /\ Translation(r) = Built(mergeAlternatives(r),
                                   policyActionFor(r.rules))
         /\ r.rules # <<>> /\ Mergeable(r) /\ policyActionFor(r.rules) # ""
BY DEF Translation, Refused, Built

(* The parts of an accepted rule line up, and the merge keeps the type and *)
(* the polarity of each position and lists the values of all alternatives. *)
LEMMA MergedParts ==
  ASSUME NEW r \in Rule, r.rules # <<>>, Mergeable(r)
  PROVE  /\ 1 \in DOMAIN r.rules
         /\ LineUp(r.rules)
         /\ DOMAIN mergeAlternatives(r) = DOMAIN r.rules[1].conditions
         /\ \A i \in DOMAIN r.rules[1].conditions :
              /\ mergeAlternatives(r)[i].type = r.rules[1].conditions[i].type
              /\ mergeAlternatives(r)[i].positive
                   = r.rules[1].conditions[i].positive
              /\ mergeAlternatives(r)[i].value = Union(r.rules, i)
<1> DEFINE base == r.rules[1].conditions
           merged == mergeAlternatives(r)
<1>1. PICK m \in Nat : DOMAIN r.rules = 1..m /\ Len(r.rules) = m
  BY RuleParts
<1>2. m # 0
  <2> SUFFICES ASSUME m = 0 PROVE FALSE
    OBVIOUS
  <2>1. r.rules \in Seq(Alternative)
    BY DEF Rule
  <2> QED
    BY <1>1, <2>1
<1>3. 1 \in DOMAIN r.rules
  BY <1>1, <1>2
<1>4. LineUp(r.rules)
  <2>1. CASE m = 1
    <3>1. DOMAIN r.rules = {1}
      BY <1>1, <2>1
    <3> QED
      BY <3>1 DEF LineUp
  <2>2. CASE m # 1
    BY <1>1, <1>2, <2>2 DEF Mergeable
  <2> QED
    BY <2>1, <2>2
<1>5. CASE m = 1
  <2>1. DOMAIN r.rules = {1} /\ Len(r.rules) = 1
    BY <1>1, <1>5
  <2>2. \A i \in DOMAIN base : Union(r.rules, i) = ToSet(base[i].value)
    BY <2>1 DEF Union
  <2>3. merged = toStructuredConditions(base)
    BY <2>1 DEF mergeAlternatives
  <2> HIDE DEF base, merged
  <2>4. /\ DOMAIN merged = DOMAIN base
        /\ \A i \in DOMAIN base : /\ merged[i].type = base[i].type
                                 /\ merged[i].positive = base[i].positive
                                 /\ merged[i].value = ToSet(base[i].value)
    BY ONLY <2>3 DEF toStructuredConditions
  <2>5. \A i \in DOMAIN base : merged[i].value = Union(r.rules, i)
    BY ONLY <2>2, <2>4
  <2> QED
    BY ONLY <1>3, <1>4, <2>4, <2>5 DEF base, merged
<1>6. CASE m # 1
  <2> DEFINE plain == toStructuredConditions(base)
  <2>1. merged = [i \in DOMAIN plain |->
                    [type |-> plain[i].type, positive |-> plain[i].positive,
                     value |-> Union(r.rules, i)]]
    BY <1>1, <1>6 DEF mergeAlternatives
  <2>2. /\ DOMAIN plain = DOMAIN base
        /\ \A i \in DOMAIN base : /\ plain[i].type = base[i].type
                                 /\ plain[i].positive = base[i].positive
    BY DEF toStructuredConditions
  <2> HIDE DEF plain, merged
  <2>3. /\ DOMAIN merged = DOMAIN base
        /\ \A i \in DOMAIN base : /\ merged[i].type = plain[i].type
                                 /\ merged[i].positive = plain[i].positive
                                 /\ merged[i].value = Union(r.rules, i)
    BY <2>1, <2>2
  <2> HIDE DEF base
  <2> QED
    BY <1>3, <1>4, <2>2, <2>3 DEF base, merged
<1> QED
  BY <1>5, <1>6

(* A request that an alternative matches is matched by the merge.          *)
LEMMA MergeCovers ==
  ASSUME NEW r \in Rule, r.rules # <<>>, Mergeable(r), AllPositive(r),
         DetailsKept(r), NEW q, RuleMatches(r, q), NEW action
  PROVE  PayloadMatches(Built(mergeAlternatives(r), action), q)
<1> DEFINE base == r.rules[1].conditions
           merged == mergeAlternatives(r)
<1>1. PICK k \in DOMAIN r.rules : AlternativeMatches(r.rules[k], q)
  BY DEF RuleMatches
<1>2. /\ 1 \in DOMAIN r.rules /\ LineUp(r.rules)
      /\ DOMAIN merged = DOMAIN base
      /\ \A i \in DOMAIN base : /\ merged[i].type = base[i].type
                               /\ merged[i].positive = base[i].positive
                               /\ merged[i].value = Union(r.rules, i)
  BY MergedParts
<1>3. ASSUME NEW i \in DOMAIN merged
      PROVE  Holds(merged[i].positive, merged[i].value,
                   q[<<merged[i].type, Default>>])
  <2> DEFINE c == r.rules[k].conditions[i]
  <2>1. i \in DOMAIN base /\ i \in DOMAIN r.rules[k].conditions
    BY <1>2, <1>3 DEF LineUp
  <2>2. shape(c) = shape(base[i])
    BY <1>2, <2>1 DEF LineUp
  <2>3. c.type = base[i].type
    BY <2>2 DEF shape
  <2>4. c.positive /\ base[i].positive
    BY <1>2, <2>1 DEF AllPositive
  <2>5. c.detail = Default
    BY <2>1 DEF DetailsKept
  <2>6. Holds(c.positive, ToSet(c.value), q[<<c.type, c.detail>>])
    BY <1>1, <2>1 DEF AlternativeMatches
  <2> DEFINE hit == q[<<base[i].type, Default>>]
  <2>7. ToSet(c.value) \intersect hit # {}
    BY <2>3, <2>4, <2>5, <2>6 DEF Holds
  <2>8. ToSet(c.value) \subseteq Union(r.rules, i)
    BY DEF Union
  <2>9. Union(r.rules, i) \intersect hit # {}
    <3> HIDE DEF hit, c
    <3> QED
      BY ONLY <2>7, <2>8
  <2>10. /\ merged[i].type = base[i].type /\ merged[i].positive
         /\ merged[i].value = Union(r.rules, i)
    BY <1>2, <2>1, <2>4
  <2> HIDE DEF merged, base, c
  <2> QED
    BY <2>9, <2>10 DEF Holds
<1>4. Built(merged, action).conditions = merged
  BY DEF Built
<1> QED
  BY <1>3, <1>4 DEF PayloadMatches

(* A position at which no two alternatives differ lists the same values    *)
(* in each of them.                                                        *)
LEMMA SteadyPosition ==
  ASSUME NEW r, NEW i \in DOMAIN r.rules[1].conditions,
         i \notin Differs(r.rules), NEW k \in DOMAIN r.rules
  PROVE  ToSet(r.rules[k].conditions[i].value) = Union(r.rules, i)
<1> DEFINE V(j) == ToSet(r.rules[j].conditions[i].value)
<1>1. \A j \in DOMAIN r.rules : V(j) = V(1)
  BY DEF Differs
<1>2. Union(r.rules, i) = UNION {V(j) : j \in DOMAIN r.rules}
  BY DEF Union
<1> HIDE DEF V
<1>3. V(k) = Union(r.rules, i)
  BY <1>1, <1>2
<1> QED
  BY <1>3 DEF V

(* The positions that differ are finitely many.                            *)
LEMMA DiffersFinite ==
  ASSUME NEW r \in Rule, 1 \in DOMAIN r.rules
  PROVE  /\ IsFiniteSet(DOMAIN r.rules[1].conditions)
         /\ IsFiniteSet(Differs(r.rules))
<1> DEFINE D == DOMAIN r.rules[1].conditions
<1>1. PICK n \in Nat : D = 1..n
  BY RuleParts, ConditionParts
<1>2. IsFiniteSet(D)
  BY <1>1, FS_Interval
<1>3. Differs(r.rules) \in SUBSET D
  BY DEF Differs
<1> QED
  BY <1>2, <1>3, FS_Subset

(* A merge in which at most one position differs matches nothing new: the  *)
(* alternative that lists a value the request hits at that position        *)
(* matches the request.                                                    *)
LEMMA MergeExact ==
  ASSUME NEW r \in Rule, r.rules # <<>>, Mergeable(r), AllPositive(r),
         DetailsKept(r), Cardinality(Differs(r.rules)) <= 1,
         NEW q, NEW action,
         PayloadMatches(Built(mergeAlternatives(r), action), q)
  PROVE  RuleMatches(r, q)
<1> DEFINE base == r.rules[1].conditions
           merged == mergeAlternatives(r)
           hit(i) == q[<<base[i].type, Default>>]
           V(k, i) == ToSet(r.rules[k].conditions[i].value)
<1>1. /\ 1 \in DOMAIN r.rules /\ LineUp(r.rules)
      /\ DOMAIN merged = DOMAIN base
      /\ \A i \in DOMAIN base : /\ merged[i].type = base[i].type
                               /\ merged[i].positive = base[i].positive
                               /\ merged[i].value = Union(r.rules, i)
  BY MergedParts
<1>2. ASSUME NEW i \in DOMAIN base
      PROVE  Union(r.rules, i) \intersect hit(i) # {}
  <2>1. base[i].positive
    BY <1>1, <1>2 DEF AllPositive
  <2>2. Built(merged, action).conditions = merged
    BY DEF Built
  <2>3. Holds(merged[i].positive, merged[i].value,
              q[<<merged[i].type, Default>>])
    BY <1>1, <1>2, <2>2 DEF PayloadMatches
  <2> HIDE DEF merged, base
  <2> QED
    BY <1>1, <1>2, <2>1, <2>3 DEF Holds
<1>3. ASSUME NEW k \in DOMAIN r.rules,
             \A i \in Differs(r.rules) : V(k, i) \intersect hit(i) # {}
      PROVE  RuleMatches(r, q)
  <2>1. ASSUME NEW i \in DOMAIN r.rules[k].conditions
        PROVE  Holds(r.rules[k].conditions[i].positive, V(k, i),
                     q[<<r.rules[k].conditions[i].type,
                         r.rules[k].conditions[i].detail>>])
    <3> DEFINE c == r.rules[k].conditions[i]
    <3>1. i \in DOMAIN base /\ shape(c) = shape(base[i])
      BY <1>1, <2>1 DEF LineUp
    <3>2. c.type = base[i].type
      BY <3>1 DEF shape
    <3>3. c.positive /\ c.detail = Default
      BY <2>1 DEF AllPositive, DetailsKept
    <3>4. V(k, i) \intersect hit(i) # {}
      <4>1. CASE i \in Differs(r.rules)
        BY <4>1, <1>3
      <4>2. CASE i \notin Differs(r.rules)
        <5>1. V(k, i) = Union(r.rules, i)
          BY <4>2, <3>1, SteadyPosition
        <5>2. Union(r.rules, i) \intersect hit(i) # {}
          BY <1>2, <3>1
        <5> HIDE DEF V, hit
        <5> QED
          BY <5>1, <5>2
      <4> QED
        BY <4>1, <4>2
    <3>5. q[<<c.type, c.detail>>] = hit(i)
      BY <3>2, <3>3
    <3> HIDE DEF c, base, hit, V
    <3>6. Holds(c.positive, V(k, i), q[<<c.type, c.detail>>])
      BY <3>3, <3>4, <3>5 DEF Holds
    <3> QED
      BY <3>6 DEF c, V
  <2> QED
    BY <2>1 DEF RuleMatches, AlternativeMatches
<1>4. CASE Differs(r.rules) = {}
  BY <1>1, <1>3, <1>4
<1>5. CASE Differs(r.rules) # {}
  <2>1. IsFiniteSet(Differs(r.rules))
    BY <1>1, DiffersFinite
  <2>2. /\ Cardinality(Differs(r.rules)) # 0
        /\ Cardinality(Differs(r.rules)) \in Nat
    BY <1>5, <2>1, FS_EmptySet, FS_CardinalityType
  <2>3. Cardinality(Differs(r.rules)) = 1
    BY <2>2
  <2>4. PICK j : Differs(r.rules) = {j}
    BY <2>1, <2>3, FS_Singleton
  <2>5. j \in DOMAIN base
    BY <2>4 DEF Differs
  <2>6. PICK v \in Union(r.rules, j) : v \in hit(j)
    BY <1>2, <2>5
  <2>7. PICK k \in DOMAIN r.rules : v \in V(k, j)
    BY <2>6 DEF Union
  <2>8. V(k, j) \intersect hit(j) # {}
    BY <2>6, <2>7
  <2> QED
    BY <1>3, <2>4, <2>8
<1> QED
  BY <1>4, <1>5

(* Where the first alternative lists one value per condition and none      *)
(* lists nothing, the code counts every position that differs.             *)
LEMMA DiffersVaries ==
  ASSUME NEW r \in Rule, 1 \in DOMAIN r.rules, LineUp(r.rules), NoneEmpty(r),
         \A i \in DOMAIN r.rules[1].conditions :
           Len(r.rules[1].conditions[i].value) = 1
  PROVE  Differs(r.rules) \subseteq Varying(r.rules)
<1> SUFFICES ASSUME NEW i \in DOMAIN r.rules[1].conditions,
                    i \notin Varying(r.rules)
             PROVE  i \notin Differs(r.rules)
  BY DEF Differs
<1> DEFINE U == Union(r.rules, i)
           V(k) == ToSet(r.rules[k].conditions[i].value)
<1>1. \A j \in DOMAIN r.rules :
        /\ r.rules[j] \in Alternative
        /\ i \in DOMAIN r.rules[j].conditions
  BY RuleParts DEF LineUp
<1>2. \A j \in DOMAIN r.rules : V(j) \subseteq Values /\ V(j) # {}
  BY <1>1, ConditionParts DEF NoneEmpty
<1>3. U \subseteq Values
  BY <1>2 DEF Union
<1>4. IsFiniteSet(U)
  BY <1>3, FiniteAlphabet, FS_Subset
<1>5. Cardinality(U) = 1
  BY DEF Varying
<1>6. PICK x : U = {x}
  BY <1>4, <1>5, FS_Singleton
<1>7. \A j \in DOMAIN r.rules : V(j) \subseteq U
  BY DEF Union
<1>8. \A j \in DOMAIN r.rules : V(j) = {x}
  <2> HIDE DEF U, V
  <2> QED
    BY <1>2, <1>6, <1>7
<1> QED
  BY <1>8 DEF Differs

(* The inductive invariant: a payload is what the translation answers.     *)
PayloadInv == rule \in Rule /\ payload \in {NotBuilt, Translation(rule)}

(* The translation keeps it.                                               *)
LEMMA PayloadInvariance == Spec => []PayloadInv
<1>1. Init => PayloadInv
  BY RuleSetsAreRules DEF Init, PayloadInv
<1>2. PayloadInv /\ [Next]_vars => PayloadInv'
  BY DEF PayloadInv, Next, JanusPayloadFromCustomWAFRule, vars
<1> QED
  BY <1>1, <1>2, PTL DEF Spec

(* What a built payload is.                                                *)
LEMMA BuiltPayload ==
  ASSUME PayloadInv, IsBuilt
  PROVE  /\ rule \in Rule /\ rule.rules # <<>> /\ Mergeable(rule)
         /\ payload = Built(mergeAlternatives(rule),
                            policyActionFor(rule.rules))
         /\ policyActionFor(rule.rules) # ""
<1>1. payload = Translation(rule)
  BY DEF PayloadInv, IsBuilt, NotBuilt
<1> QED
  BY <1>1, AcceptedRule DEF PayloadInv, IsBuilt

(* No merge of positive conditions loses a request that the validated rule *)
(* set matches, however many alternatives, conditions and values it has.   *)
THEOREM MergeLosesNothing == Spec => []NothingDropped
<1>1. PayloadInv => NothingDropped
  BY BuiltPayload, MergeCovers DEF NothingDropped
<1> QED
  BY <1>1, PayloadInvariance, PTL

(* The merge of a set that differs in at most one position is exact.       *)
THEOREM OneDifferenceExact == Spec => []ExactWhenOneDiffers
<1>1. ASSUME PayloadInv, IsBuilt, AllPositive(rule), DetailsKept(rule),
             Cardinality(Differs(rule.rules)) <= 1, NEW q \in Requests(rule)
      PROVE  PayloadMatches(payload, q) <=> RuleMatches(rule, q)
  <2>1. /\ rule \in Rule /\ rule.rules # <<>> /\ Mergeable(rule)
        /\ payload = Built(mergeAlternatives(rule),
                           policyActionFor(rule.rules))
    BY <1>1, BuiltPayload
  <2>2. RuleMatches(rule, q) => PayloadMatches(payload, q)
    BY <1>1, <2>1, MergeCovers
  <2>3. PayloadMatches(payload, q) => RuleMatches(rule, q)
    BY <1>1, <2>1, MergeExact
  <2> QED
    BY <2>2, <2>3
<1>2. PayloadInv => ExactWhenOneDiffers
  BY <1>1 DEF ExactWhenOneDiffers
<1> QED
  BY <1>2, PayloadInvariance, PTL

(* The merge of a set whose first alternative lists one value per          *)
(* condition, and in which no list is empty, is exact: what is accepted    *)
(* differs in at most one position.                                        *)
THEOREM SingleValuedMergeExact == Spec => []ExactWhenSingleValued
<1>1. ASSUME PayloadInv, IsBuilt, NoneEmpty(rule),
             \A i \in DOMAIN rule.rules[1].conditions :
               Len(rule.rules[1].conditions[i].value) = 1
      PROVE  Cardinality(Differs(rule.rules)) <= 1
  <2>1. rule \in Rule /\ rule.rules # <<>> /\ Mergeable(rule)
    BY <1>1, BuiltPayload
  <2>2. 1 \in DOMAIN rule.rules /\ LineUp(rule.rules)
    BY <2>1, MergedParts
  <2>3. PICK m \in Nat : DOMAIN rule.rules = 1..m /\ Len(rule.rules) = m
    BY <2>1, RuleParts
  <2>4. CASE m = 1
    <3>1. DOMAIN rule.rules = {1}
      BY <2>3, <2>4
    <3>2. Differs(rule.rules) = {}
      BY <3>1 DEF Differs
    <3>3. Cardinality({}) = 0
      BY FS_EmptySet
    <3> QED
      BY <3>2, <3>3
  <2>5. CASE m # 1
    <3>1. Len(rule.rules) > 1
      BY <2>2, <2>3, <2>5
    <3>2. Cardinality(Varying(rule.rules)) <= 1
      BY <2>1, <3>1 DEF Mergeable
    <3>3. Varying(rule.rules) \in SUBSET DOMAIN rule.rules[1].conditions
      BY DEF Varying
    <3>4. IsFiniteSet(Varying(rule.rules))
      BY <2>1, <2>2, <3>3, DiffersFinite, FS_Subset
    <3>5. Differs(rule.rules) \in SUBSET Varying(rule.rules)
      BY <1>1, <2>1, <2>2, DiffersVaries
    <3>6. /\ Cardinality(Differs(rule.rules)) <= Cardinality(Varying(rule.rules))
          /\ Cardinality(Differs(rule.rules)) \in Nat
          /\ Cardinality(Varying(rule.rules)) \in Nat
      BY <3>4, <3>5, FS_Subset, FS_CardinalityType
    <3> QED
      BY ONLY <3>2, <3>6
  <2> QED
    BY <2>4, <2>5
<1>2. PayloadInv /\ ExactWhenOneDiffers => ExactWhenSingleValued
  BY <1>1 DEF ExactWhenOneDiffers, ExactWhenSingleValued
<1> QED
  BY <1>2, PayloadInvariance, OneDifferenceExact, PTL

(* A payload carries one action that every alternative asked for.          *)
THEOREM OneActionForAll == Spec => []ActionAgrees
<1>1. ASSUME PayloadInv, IsBuilt
      PROVE  \A k \in DOMAIN rule.rules :
               rule.rules[k].action \in IF payload.action = "deny"
                                        THEN {"block", "deny"}
                                        ELSE {"alert", "monitor"}
  <2>1. /\ policyActionFor(rule.rules) # ""
        /\ payload.action = policyActionFor(rule.rules)
    <3>1. /\ payload = Built(mergeAlternatives(rule),
                             policyActionFor(rule.rules))
          /\ policyActionFor(rule.rules) # ""
      BY <1>1, BuiltPayload
    <3>2. \A m, p : Built(m, p).action = p
      BY DEF Built
    <3> QED
      BY <3>1, <3>2
  <2>2. PICK a \in DOMAIN PolicyAction :
          {rule.rules[k].action : k \in DOMAIN rule.rules} = {a}
    <3> DEFINE actions == {rule.rules[k].action : k \in DOMAIN rule.rules}
    <3>1. policyActionFor(rule.rules)
            = IF \E a \in DOMAIN PolicyAction : actions = {a}
              THEN PolicyAction[CHOOSE a \in actions : TRUE] ELSE ""
      BY DEF policyActionFor
    <3> HIDE DEF actions
    <3>2. \E a \in DOMAIN PolicyAction : actions = {a}
      BY <2>1, <3>1
    <3> QED
      BY <3>2 DEF actions
  <2>3. payload.action = PolicyAction[a]
    <3> DEFINE actions == {rule.rules[k].action : k \in DOMAIN rule.rules}
    <3>1. \E b \in DOMAIN PolicyAction : actions = {b}
      BY <2>2
    <3>2. payload.action = PolicyAction[CHOOSE b \in actions : TRUE]
      BY <2>1, <3>1 DEF policyActionFor
    <3>3. (CHOOSE b \in actions : TRUE) \in actions
      BY <2>2
    <3> QED
      BY <2>2, <3>2, <3>3
  <2>4. \A k \in DOMAIN rule.rules : rule.rules[k].action = a
    BY <2>2
  <2> QED
    BY <2>2, <2>3, <2>4 DEF PolicyAction
<1>2. PayloadInv => ActionAgrees
  BY <1>1 DEF ActionAgrees
<1> QED
  BY <1>2, PayloadInvariance, PTL

(* A list that repeats no value has as many places as values.              *)
LEMMA PlacesAreValues ==
  ASSUME NEW v \in Seq(Values), IsInjective(v)
  PROVE  Cardinality(ToSet(v)) = Len(v)
<1>1. Len(v) \in Nat /\ DOMAIN v = 1..Len(v)
  OBVIOUS
<1>2. IsFiniteSet(DOMAIN v) /\ Cardinality(DOMAIN v) = Len(v)
  <2> DEFINE n == Len(v)
  <2>1. 1 \in Int /\ n \in Int /\ n >= 0
    BY <1>1
  <2> HIDE DEF n
  <2>2. IsFiniteSet(1..n) /\ Cardinality(1..n) = IF 1 > n THEN 0 ELSE n - 1 + 1
    BY <2>1, FS_Interval
  <2>3. IsFiniteSet(1..n) /\ Cardinality(1..n) = n
    BY <2>1, <2>2
  <2> QED
    BY <1>1, <2>3 DEF n
<1>3. v \in [DOMAIN v -> ToSet(v)] /\ \A t \in ToSet(v) : \E i \in DOMAIN v : v[i] = t
  BY <1>1 DEF ToSet
<1>4. v \in Surjection(DOMAIN v, ToSet(v)) /\ v \in Injection(DOMAIN v, ToSet(v))
  BY <1>3 DEF Surjection, Injection
<1> QED
  BY <1>2, <1>4, FS_Surjection

(* Where no list of the first alternative repeats a value, a position that *)
(* the code counts as varying is one where two alternatives differ.        *)
LEMMA VaryingDiffers ==
  ASSUME NEW r \in Rule, 1 \in DOMAIN r.rules, NoRepeats(r.rules[1].conditions)
  PROVE  Varying(r.rules) \subseteq Differs(r.rules)
<1> SUFFICES ASSUME NEW i \in DOMAIN r.rules[1].conditions, i \notin Differs(r.rules)
             PROVE  i \notin Varying(r.rules)
  BY DEF Varying
<1> DEFINE v == r.rules[1].conditions[i].value
<1>1. r.rules[1] \in Alternative
  BY RuleParts
<1>2. r.rules[1].conditions[i] \in Condition
  BY <1>1, ConditionParts
<1>3. v \in Seq(Values)
  BY <1>2 DEF Condition
<1>4. IsInjective(v)
  BY DEF NoRepeats
<1>5. \A k \in DOMAIN r.rules : ToSet(r.rules[k].conditions[i].value) = ToSet(v)
  BY DEF Differs
<1>6. Union(r.rules, i) = ToSet(v)
  BY <1>5 DEF Union
<1>7. Cardinality(ToSet(v)) = Len(v)
  BY <1>3, <1>4, PlacesAreValues
<1> QED
  BY <1>6, <1>7 DEF Varying

(* A set that one AND list can express is not refused: counting the union  *)
(* never takes a position to vary where the alternatives agree, so that    *)
(* the count is within the limit.                                          *)
THEOREM ExpressibleIsTranslated == Spec => []ExpressibleIsBuilt
<1>1. ASSUME PayloadInv, payload # NotBuilt,
             rule.cve # "", rule.content = "akamai-custom-rule-set",
             rule.rules # <<>>, rule.combination = "OR",
             Conjunctions(rule.rules), LineUp(rule.rules),
             Cardinality(Differs(rule.rules)) <= 1,
             NoRepeats(rule.rules[1].conditions), policyActionFor(rule.rules) # ""
      PROVE  IsBuilt
  <2>1. rule \in Rule /\ payload = Translation(rule)
    BY <1>1 DEF PayloadInv
  <2>2. 1 \in DOMAIN rule.rules
    <3>1. rule.rules \in Seq(Alternative) /\ rule.rules # <<>>
      BY <1>1, <2>1 DEF Rule
    <3>2. PICK m \in Nat : DOMAIN rule.rules = 1..m /\ Len(rule.rules) = m
      BY <2>1, RuleParts
    <3>3. m # 0
      BY <3>1, <3>2
    <3> QED
      BY <3>2, <3>3
  <2>5. IsFiniteSet(Differs(rule.rules))
    BY <2>1, <2>2, DiffersFinite
  <2>6. Varying(rule.rules) \in SUBSET Differs(rule.rules)
    BY <1>1, <2>1, <2>2, VaryingDiffers
  <2>7. /\ Cardinality(Varying(rule.rules)) <= Cardinality(Differs(rule.rules))
        /\ Cardinality(Varying(rule.rules)) \in Nat /\ Cardinality(Differs(rule.rules)) \in Nat
    BY <2>5, <2>6, FS_Subset, FS_CardinalityType
  <2>8. Cardinality(Varying(rule.rules)) <= 1
    <3>1. Cardinality(Differs(rule.rules)) <= 1
      BY <1>1
    <3> QED
      BY ONLY <2>7, <3>1
  <2>9. Mergeable(rule)
    BY <1>1, <2>8 DEF Mergeable
  <2> QED
    BY <1>1, <2>1, <2>9 DEF Translation, Built, IsBuilt
<1>2. PayloadInv => ExpressibleIsBuilt
  BY <1>1 DEF ExpressibleIsBuilt
<1> QED
  BY <1>2, PayloadInvariance, PTL
=============================================================================
