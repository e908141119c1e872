----------------------------- MODULE RuleSources -----------------------------
(***************************************************************************)
(* Where a run takes its rule from (resolveRequestedRuleInput in           *)
(* api/lifecycle.go): the shared contract, a pair of locators, a row of    *)
(* the control-translation table, or the request itself.  Each resolver    *)
(* refuses or reports; what it refuses ends the run without a rule.        *)
(* SharedContract has what the first asks, LocatorResolver is the second.  *)
(***************************************************************************)
EXTENDS SharedContract

CONSTANTS
  Requests   \* the families of requests that a run may be given

VARIABLES
  request,
  upstreamInputMode,  \* the process reads upstream_inputs
  stage,              \* how far the resolution has come
  outcome             \* what it reports

vars == <<request, upstreamInputMode, stage, outcome>>

(* The lists of a decoded document are finite.                             *)
Listed(l) == l \in Seq(Range(l))

FiniteDocuments(cg, s, b) ==
  /\ Listed(cg.inputs) /\ Listed(s.artifacts)
  /\ Listed(s.components) /\ \A c \in Range(s.components) : IsFiniteSet(c.members)
  /\ Listed(s.groups) /\ \A g \in Range(s.groups) : Listed(g.members)
  /\ Listed(b.artifacts) /\ Listed(b.groups)
  /\ Listed(b.rules) /\ Listed(b.bindings)
  /\ \A m \in Range(b.mappings) : Listed(m.members)

(* A request asks for the shared contract (route_policy or profile_id),    *)
(* has locators, upstream_inputs, an inline candidate, or several of them. *)
(* cg, semantics and bundle are what its locators name, rows the table     *)
(* that its upstream_inputs name.  validate has refused requests that name *)
(* a producer by locators and anything else, and entries without a key.    *)
PossibleRequest(x) ==
  /\ {x.v2, x.locators} \subseteq BOOLEAN /\ x.candidate \in {"none", "rule"}
  /\ x.v2 => ~x.locators /\ FiniteDocuments(x.cg, x.semantics, x.bundle)
  /\ x.v2 \/ x.locators => x.upstream = <<>> /\ x.candidate = "none"
  /\ \A i \in DOMAIN x.upstream : x.upstream[i].key # ""

ASSUME RequestsArePossible == \A F \in Requests : \A x \in F : PossibleRequest(x)

NoRule == "no rule"
InlineRule == "the rule of the request"
UnitRule == "the match-rule artifact of the bundle"
LocatorRule == "the rule of the locators"

Stages == {"received", "semantics", "bundle", "unit", "locators", "upstream",
           "inline", "resolved", "failed"}

Init ==
  /\ \E F \in Requests : request \in F
  /\ upstreamInputMode \in BOOLEAN
  /\ stage = "received"
  /\ outcome = [rule |-> NoRule, source |-> "none", unverified |-> FALSE]

Step(from, to) ==
  /\ stage = from /\ stage' = to
  /\ UNCHANGED <<request, upstreamInputMode>>

(* reportResolvedRule, and resolutionFailed.                               *)
reportResolvedRule(from, rule, source, unverified) ==
  /\ Step(from, "resolved")
  /\ outcome' = [rule |-> rule, source |-> source, unverified |-> unverified]

resolutionFailed(from) == Step(from, "failed") /\ UNCHANGED outcome

Mode ==
  IF request.v2 THEN "semantics"
  ELSE IF request.locators THEN "locators"
  ELSE IF upstreamInputMode /\ request.upstream # <<>> THEN "upstream"
  ELSE "inline"

resolveRequestedRuleInput == Step("received", Mode) /\ UNCHANGED outcome

(***************************************************************************)
(* executeSharedContractV2, after the rows were authenticated.             *)
(***************************************************************************)
ValidateSemantics ==
  IF validateSharedCompleteness(request.cg, request.semantics)
    THEN Step("semantics", "bundle") /\ UNCHANGED outcome
    ELSE resolutionFailed("semantics")

ValidateBundle ==
  IF validateSharedBundle(request.bundle, request.semantics)
    THEN Step("bundle", "unit") /\ UNCHANGED outcome
    ELSE resolutionFailed("bundle")

ReadUnit ==
  IF sharedV2ApplicationUnit(request.bundle)
    THEN reportResolvedRule("unit", UnitRule, "shared", FALSE)
    ELSE resolutionFailed("unit")

executeScenarioByLocator ==
  \/ reportResolvedRule("locators", LocatorRule, "locators", FALSE)
  \/ resolutionFailed("locators")

(***************************************************************************)
(* executeScenarioUpstream.                                                *)
(***************************************************************************)

(* The first control-translation entry with a usable key.                  *)
Usable(entry) == entry.capability = "control-translation" /\ entry.key # ""

selectByCapability(entries) ==
  {i \in DOMAIN entries : Usable(entries[i]) /\ \A j \in 1..(i - 1) : ~Usable(entries[j])}

(* A digest is the content it is of, spaces around it included; the rule   *)
(* that is reported is the content without them.  A digest that is not     *)
(* given is not compared, but one on the candidate has to be on the        *)
(* artifact too.                                                           *)
HashesAgree(doc, artifact) ==
  doc.hash \in {"", artifact.hash} /\ artifact.hash \in {"", artifact.content}

ExtractCustomWAFRule(doc) ==
  /\ doc.parses /\ doc.capability \in {"", "control-translation"}
  /\ doc.state \in {"", "translated"}
  /\ doc.primary # "" /\ doc.primary \in DOMAIN doc.artifacts
  /\ LET artifact == doc.artifacts[doc.primary]
     IN  artifact.content # "" /\ HashesAgree(doc, artifact) /\ artifact.isJSON

(* The row is there, is a control-translation result, and has a rule.      *)
ReadCandidate(rows, key) ==
  /\ key \in DOMAIN rows
  /\ rows[key].parses /\ rows[key].capability = "control-translation"
  /\ ExtractCustomWAFRule(rows[key])

executeScenarioUpstream ==
  \/ resolutionFailed("upstream")   \* no reader, or the read fails
  \/ \E i \in selectByCapability(request.upstream) :
       LET key == request.upstream[i].key
           doc == request.rows[key]
       IN  /\ ReadCandidate(request.rows, key)
           /\ reportResolvedRule("upstream", doc.artifacts[doc.primary].trimmed,
                                 "upstream", FALSE)

(* reportInlineCandidate.                                                  *)
reportInlineCandidate ==
  IF request.candidate = "rule"
    THEN reportResolvedRule("inline", InlineRule, "inline", TRUE)
    ELSE resolutionFailed("inline")

Done == stage \in {"resolved", "failed"} /\ UNCHANGED vars

Next ==
  \/ resolveRequestedRuleInput
  \/ ValidateSemantics \/ ValidateBundle \/ ReadUnit
  \/ executeScenarioByLocator \/ executeScenarioUpstream \/ reportInlineCandidate
  \/ Done

Spec == Init /\ [][Next]_vars

(***************************************************************************)
(* Properties.                                                             *)
(***************************************************************************)
TypeOK ==
  /\ (\E F \in Requests : request \in F) /\ upstreamInputMode \in BOOLEAN
  /\ stage \in Stages
  /\ outcome.source \in {"none", "shared", "locators", "upstream", "inline"}
  /\ outcome.unverified \in BOOLEAN

(* Coverage as reachability: what is below a reference is the least set    *)
(* that is closed under the children of groups.                            *)
IsComponent(s, x) == x.kind = "component" /\ x.id \in Ids(s.components)
IsGroup(s, x) == x.kind = "coverage-group" /\ x.id \in Ids(s.groups)
Children(s, x) == IF IsGroup(s, x) THEN Named(s.groups, x.id).children ELSE {}

Reachable(s, roots) ==
  LET refs == roots \union UNION {g.children : g \in Range(s.groups)}
      closed == {S \in SUBSET refs : roots \subseteq S /\ \A x \in S : Children(s, x) \subseteq S}
  IN  {x \in refs : \A S \in closed : x \in S}

ComponentsBelow(s, roots) ==
  {Named(s.components, x.id) : x \in {y \in Reachable(s, roots) : IsComponent(s, y)}}
InputsBelow(s, root) == {x.id : x \in UNION {c.inputs : c \in ComponentsBelow(s, {root})}}
MembersBelow(s, root) == {x.id : x \in UNION {c.members : c \in ComponentsBelow(s, {root})}}

WellCovered(s, root) ==
  \A x \in Reachable(s, {root}) :
    \/ /\ IsComponent(s, x)
       /\ AllKind(Named(s.components, x.id).inputs, "test-input")
       /\ AllKind(Named(s.components, x.id).members, "source-member")
    \/ /\ IsGroup(s, x) /\ x \notin Reachable(s, Children(s, x))
       /\ LET listed == IdsOf(Named(s.groups, x.id).members)
          IN  Range(listed) = MembersBelow(s, x) /\ Len(listed) = Cardinality(Range(listed))

(* The closure walk of sharedCoverageRequirements refuses exactly the      *)
(* coverage that has a cycle, an unknown or foreign reference, or a group  *)
(* that misstates its members, shared groups being no cycle; and what it   *)
(* returns is what can be reached.                                         *)
CoverageIsReachability ==
  stage = "semantics" =>
    LET s == request.semantics
    IN  \A o \in Range(s.obligations) :
          LET coverage == sharedCoverageRequirements(o.coverage, s)
          IN  Distinct(s.components) /\ Distinct(s.groups) =>
                /\ coverage.ok <=> WellCovered(s, o.coverage)
                /\ coverage.ok => /\ coverage.inputs = InputsBelow(s, o.coverage)
                                  /\ coverage.members = MembersBelow(s, o.coverage)

(* Once validateSharedCompleteness has let the semantics pass, every       *)
(* member, artifact and input of the check-generation result is either     *)
(* represented by a test input or declared unsupported, never both and     *)
(* never neither, although the code mostly compares counts; and exactly    *)
(* the represented artifacts refer to the semantics.                       *)
SourcesPartitioned ==
  stage \in {"bundle", "unit"} \/ outcome.source = "shared" =>
    LET s == request.semantics
        cg == request.cg
        Either(x, A, B) == (x \in A) # (x \in B)
    IN  /\ \A x \in Ids(cg.members) : Either(x, RepresentedMembers(s), UnsupportedMembers(s))
        /\ \A x \in Ids(cg.artifacts) :
             Either(x, RepresentedArtifacts(s), UnsupportedArtifacts(s))
        /\ \A x \in Ids(cg.inputs) : Either(x, Ids(s.inputs), UnsupportedInputs(s))
        /\ RepresentedArtifacts(s) = {a.id : a \in Referring(cg)}

(* A unit that is reported as read back can be applied: in array order     *)
(* every artifact comes after what it depends on, it is in one atomic      *)
(* group, so that a rollback takes each once, and each obligation is       *)
(* mapped once, to the members that its coverage reaches.                  *)
UnitCanBeApplied ==
  outcome.source = "shared" =>
    LET b == request.bundle
        s == request.semantics
    IN  /\ \A i \in DOMAIN b.artifacts :
             Range(IdsOf(b.artifacts[i].dependsOn)) \subseteq {b.artifacts[j].id : j \in 1..(i - 1)}
        /\ \A a \in Range(b.artifacts) : \E i \in DOMAIN b.groups : Memberships(b, a.id) = {i}
        /\ \A o \in Range(s.obligations) : \E i \in DOMAIN b.mappings :
             /\ {j \in DOMAIN b.mappings : b.mappings[j].id = o.id} = {i}
             /\ Range(IdsOf(b.mappings[i].members)) = MembersBelow(s, o.coverage)

(* What a unit that is read back carries fits together: a rule has exactly *)
(* one carrier binding, and the bindings "cover the same rules": none is  *)
(* without its rule, although the code looks up rules among the bindings   *)
(* only and compares the numbers.  With two rules of one key the numbers   *)
(* say nothing; the code does not look for those.                          *)
RulesAndBindingsPair ==
  outcome.source = "shared" =>
    LET rules == request.bundle.rules
        bindings == request.bundle.bindings
    IN  /\ \A i \in DOMAIN rules : \E j \in DOMAIN bindings :
             {k \in DOMAIN bindings : Key(bindings[k]) = Key(rules[i])} = {j}
        /\ (\A i, j \in DOMAIN rules : Key(rules[i]) = Key(rules[j]) => i = j)
             => \A j \in DOMAIN bindings : \E i \in DOMAIN rules :
                  {k \in DOMAIN rules : Key(rules[k]) = Key(bindings[j])} = {i}
=============================================================================
