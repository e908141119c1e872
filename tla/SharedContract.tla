--------------------------- MODULE SharedContract ---------------------------
(***************************************************************************)
(* What the shared-contract resolver asks of the documents it has          *)
(* authenticated (api/shared_contract_v2.go): the attack semantics against *)
(* the check-generation result they are embedded in, the candidate bundle  *)
(* against the semantics, and the application unit against the bundle.     *)
(*                                                                         *)
(* A list is a sequence wherever repetition counts.  A typed reference is  *)
(* a kind and an id; one into another document has the kind "foreign".     *)
(* What is compared as a whole (signal ids, digests, URIs, policies) is    *)
(* one value or one Boolean.                                               *)
(***************************************************************************)
EXTENDS Naturals, Sequences, FiniteSets, Functions

Ids(items) == {items[i].id : i \in DOMAIN items}
IdsOf(refs) == [i \in DOMAIN refs |-> refs[i].id]
Named(items, id) == CHOOSE x \in Range(items) : x.id = id

(* No id is empty and none is there twice.                                 *)
Distinct(items) ==
  /\ "" \notin Ids(items)
  /\ \A i, j \in DOMAIN items : items[i].id = items[j].id => i = j

Count(s, v) == Cardinality({i \in DOMAIN s : s[i] = v})

sameStringSetLocal(a, b) ==
  Len(a) = Len(b) /\ \A v \in Range(b) : Count(b, v) <= Count(a, v)

(* The same, where the first list is keys(S).                              *)
sameAsKeys(S, b) ==
  Len(b) = Cardinality(S) /\ \A v \in Range(b) : v \in S /\ Count(b, v) <= 1

(* References of one kind into an index; checkedRefs refuses repetition.   *)
Into(refs, kind, ids) ==
  \A i \in DOMAIN refs : refs[i].kind = kind /\ refs[i].id \in ids

checkedRefs(refs, kind, ids) ==
  /\ Into(refs, kind, ids)
  /\ \A i, j \in DOMAIN refs : refs[i].id = refs[j].id => i = j

(***************************************************************************)
(* Coverage.                                                               *)
(***************************************************************************)
Uncovered == [ok |-> FALSE, inputs |-> {}, members |-> {}]

AllKind(refs, kind) == \A x \in refs : x.kind = kind

(* Mistake: a group may list members that nothing below it covers.         *)
GroupAncestry_Subset(group, members) == members \subseteq Range(IdsOf(group.members))

GroupAncestry(group, members) == sameAsKeys(members, IdsOf(group.members))

(* One call of the closure walk, where calls has what those below it       *)
(* return.  Its visiting set, which a call leaves as it found it, is a     *)
(* parameter here.                                                         *)
WalkCall(semantics, calls, ref, visiting) ==
  IF ref.kind = "component" /\ ref.id \in Ids(semantics.components)
  THEN LET c == Named(semantics.components, ref.id)
       IN  IF AllKind(c.inputs, "test-input") /\ AllKind(c.members, "source-member")
             THEN [ok |-> TRUE, inputs |-> {x.id : x \in c.inputs},
                   members |-> {x.id : x \in c.members}]
             ELSE Uncovered
  ELSE IF ref.kind = "coverage-group" /\ ref.id \in Ids(semantics.groups) \ visiting
  THEN LET g == Named(semantics.groups, ref.id)
           below == {calls[<<x, visiting \union {ref.id}>>] : x \in g.children}
           members == UNION {x.members : x \in below}
       IN  IF (\A x \in below : x.ok) /\ GroupAncestry(g, members)
             THEN [ok |-> TRUE, inputs |-> UNION {x.inputs : x \in below},
                   members |-> members]
             ELSE Uncovered
  ELSE Uncovered

Walk(semantics, refs) ==
  LET walk[call \in refs \X SUBSET Ids(semantics.groups)] ==
        WalkCall(semantics, walk, call[1], call[2])
  IN  walk

CoverageRefs(semantics, root) ==
  {root} \union UNION {g.children : g \in Range(semantics.groups)}

sharedCoverageRequirements(root, semantics) ==
  IF Distinct(semantics.components) /\ Distinct(semantics.groups)
    THEN Walk(semantics, CoverageRefs(semantics, root))[<<root, {}>>]
    ELSE Uncovered

(***************************************************************************)
(* validateSharedCompleteness.                                             *)
(***************************************************************************)

(* The source binding lists exactly the members and artifacts of the       *)
(* result, and no input that the result does not have.                     *)
SameSources(cg, s) ==
  /\ Distinct(cg.members) /\ Distinct(cg.artifacts) /\ Distinct(cg.inputs)
  /\ Distinct(s.members) /\ Distinct(s.artifacts) /\ Distinct(s.inputs)
  /\ Distinct(s.components)
  /\ Ids(s.members) = Ids(cg.members) /\ Len(s.members) = s.memberCount
  /\ Ids(s.artifacts) = Ids(cg.artifacts) /\ Len(s.artifacts) = s.artifactCount
  /\ Ids(s.inputs) \subseteq Ids(cg.inputs)

MembersTraced(cg, s) ==
  \A m \in Range(s.members) :
    LET outer == Named(cg.members, m.id)
    IN  /\ m.lineage = outer.lineage
        /\ sameStringSetLocal(IdsOf(m.artifacts), outer.artifacts)
        /\ m.positive <=> Len(m.artifacts) > 0
        /\ Into(m.artifacts, "source-artifact", Ids(s.artifacts))

(* "located": the content locator resolves, or its digest is the outer one.*)
ArtifactsTraced(cg, s) ==
  \A a \in Range(s.artifacts) :
    LET outer == Named(cg.artifacts, a.id)
    IN  /\ a.lineage = outer.lineage
        /\ sameStringSetLocal(IdsOf(a.members), outer.members)
        /\ Into(a.members, "source-member", Ids(s.members))
        /\ a.located
        /\ outer.refers =>
             /\ outer.sameSemantics
             /\ outer.components \subseteq Ids(s.components)
             /\ outer.obligations \subseteq Ids(s.obligations)

Referring(cg) == {a \in Range(cg.artifacts) : a.refers}

(* Nothing of the semantics is without an artifact that refers to it.      *)
AllReferenced(cg, s) ==
  /\ UNION {a.components : a \in Referring(cg)} = Ids(s.components)
  /\ UNION {a.obligations : a \in Referring(cg)} = Ids(s.obligations)

InputsTraced(cg, s) ==
  \A x \in Range(s.inputs) :
    LET outer == Named(cg.inputs, x.id)
    IN  /\ Into(<<x.artifact>>, "source-artifact", Ids(s.artifacts))
        /\ x.artifact.id = outer.artifact
        /\ sameStringSetLocal(IdsOf(x.members), outer.members)
        /\ Into(x.members, "source-member", Ids(s.members))

(* An obligation requires exactly the inputs that its coverage reaches.    *)
ObligationsCovered(s) ==
  /\ Distinct(s.obligations)
  /\ \A o \in Range(s.obligations) :
       LET coverage == sharedCoverageRequirements(o.coverage, s)
       IN  /\ o.required /\ coverage.ok
           /\ checkedRefs(o.inputs, "test-input", Ids(s.inputs))
           /\ sameAsKeys(coverage.inputs, IdsOf(o.inputs))

DimensionsValid(cg, s) ==
  \A d \in Range(s.unsupported) :
    /\ d.explained /\ Len(d.members) > 0
    /\ Into(d.members, "source-member", Ids(s.members))
    /\ Into(d.artifacts, "source-artifact", Ids(s.artifacts))
    /\ Into(d.inputs, "test-input", Ids(cg.inputs))

(* What the test inputs represent, and what is declared unsupported.       *)
RepresentedMembers(s) == UNION {Range(IdsOf(x.members)) : x \in Range(s.inputs)}
RepresentedArtifacts(s) == {x.artifact.id : x \in Range(s.inputs)}
UnsupportedMembers(s) == UNION {Range(IdsOf(d.members)) : d \in Range(s.unsupported)}
UnsupportedArtifacts(s) == UNION {Range(IdsOf(d.artifacts)) : d \in Range(s.unsupported)}
UnsupportedInputs(s) == UNION {Range(IdsOf(d.inputs)) : d \in Range(s.unsupported)}

(* Mistake: only the counts are compared.                                  *)
Partition_CountsOnly(A, B, S) == Cardinality(A) + Cardinality(B) = Cardinality(S)

(* intersectsLocal, and the counts add up.                                 *)
Partition(A, B, S) ==
  A \intersect B = {} /\ Cardinality(A) + Cardinality(B) = Cardinality(S)

SourcesAccounted(cg, s) ==
  /\ Partition(RepresentedMembers(s), UnsupportedMembers(s), Ids(s.members))
  /\ Ids(s.members) \subseteq RepresentedMembers(s) \union UnsupportedMembers(s)
  /\ Partition(RepresentedArtifacts(s), UnsupportedArtifacts(s), Ids(s.artifacts))
  /\ \A a \in Range(cg.artifacts) : a.id \in RepresentedArtifacts(s) <=> a.refers
  /\ Partition(Ids(s.inputs), UnsupportedInputs(s), Ids(cg.inputs))

validateSharedCompleteness(cg, s) ==
  /\ SameSources(cg, s) /\ MembersTraced(cg, s) /\ ArtifactsTraced(cg, s)
  /\ AllReferenced(cg, s) /\ InputsTraced(cg, s) /\ ObligationsCovered(s)
  /\ DimensionsValid(cg, s) /\ SourcesAccounted(cg, s)

(***************************************************************************)
(* validateSharedBundle.                                                   *)
(***************************************************************************)

(* Artifacts in their order, each with its content, and no content else.   *)
ArtifactsOrdered(b) ==
  /\ Distinct(b.artifacts) /\ Len(b.artifacts) > 0
  /\ \A i \in DOMAIN b.artifacts :
       b.artifacts[i].order = i - 1 /\ b.artifacts[i].located
  /\ Ids(b.artifacts) = b.contents

UnitComplete(b) ==
  /\ b.unitPolicy
  /\ checkedRefs(b.unit, "artifact", Ids(b.artifacts))
  /\ sameAsKeys(Ids(b.artifacts), IdsOf(b.unit))

Memberships(b, id) == {i \in DOMAIN b.groups : id \in Range(IdsOf(b.groups[i].artifacts))}

GroupsValid(b) ==
  /\ Distinct(b.groups)
  /\ \A g \in Range(b.groups) :
       g.policy /\ checkedRefs(g.artifacts, "artifact", Ids(b.artifacts))
  /\ \A a \in Range(b.artifacts) :
       /\ Into(<<a.group>>, "atomic-group", Ids(b.groups))
       /\ Cardinality(Memberships(b, a.id)) = 1

(* Mistake: an artifact may depend on itself and on its peers.             *)
DependenciesOrdered_Loose(b) ==
  \A a \in Range(b.artifacts) : checkedRefs(a.dependsOn, "artifact", Ids(b.artifacts))

DependenciesOrdered(b) ==
  \A a \in Range(b.artifacts) :
    /\ checkedRefs(a.dependsOn, "artifact", Ids(b.artifacts))
    /\ \A d \in Range(IdsOf(a.dependsOn)) : Named(b.artifacts, d).order < a.order

DirectivesValid(b) ==
  /\ Distinct(b.directives)
  /\ \A d \in Range(b.directives) : Into(<<d.artifact>>, "artifact", Ids(b.artifacts))

(* One exact mapping for every obligation, with the members of its         *)
(* coverage.                                                               *)
MappingsExact(b, s) ==
  /\ Ids(b.mappings) = Ids(s.obligations) /\ Distinct(b.mappings)
  /\ \A m \in Range(b.mappings) :
       LET o == Named(s.obligations, m.id)
           coverage == sharedCoverageRequirements(o.coverage, s)
       IN  /\ m.exact /\ m.coverage = <<o.coverage>> /\ coverage.ok
           /\ sameAsKeys(coverage.members, IdsOf(m.members))
           /\ AllKind(Range(m.members), "source-member")
           /\ checkedRefs(m.artifacts, "artifact", Ids(b.artifacts))
           /\ checkedRefs(m.directives, "directive", Ids(b.directives))

ProvenanceOrdered(b) ==
  /\ Len(b.provenance) > 0
  /\ \A i \in DOMAIN b.provenance : b.provenance[i] = i - 1

(* "bound": contract, digests and the binding to the semantics agree.      *)
validateSharedBundle(b, s) ==
  /\ b.bound
  /\ ArtifactsOrdered(b) /\ UnitComplete(b) /\ GroupsValid(b)
  /\ DependenciesOrdered(b) /\ DirectivesValid(b) /\ MappingsExact(b, s)
  /\ ProvenanceOrdered(b)

(***************************************************************************)
(* sharedV2ApplicationUnit.  A rule or binding is its component, carrier   *)
(* and name; strings.ToLower makes names in different cases one.           *)
(***************************************************************************)
Key(x) == [component |-> x.component, carrier |-> x.carrier, name |-> x.lowerName]

OfKind(b, kind) == {i \in DOMAIN b.artifacts : b.artifacts[i].kind = kind}

(* Mistake: a unit with more bindings than rules passes.                   *)
Counted_AtLeast(b) == Len(b.rules) > 0 /\ Len(b.rules) <= Len(b.bindings)

(* As many bindings as rules.                                              *)
Counted(b) == Len(b.rules) > 0 /\ Len(b.rules) = Len(b.bindings)

sharedV2ApplicationUnit(b) ==
  /\ Len(b.unit) = Cardinality(b.contents)
  /\ \A a \in Range(b.artifacts) : a.kind \in {"match-rule", "configuration-fragment"}
  /\ Cardinality(OfKind(b, "match-rule")) = 1
  /\ Cardinality(OfKind(b, "configuration-fragment")) = 1
  /\ b.readable /\ b.blocks /\ b.sameRuleSet
  /\ Counted(b)
  /\ \A i, j \in DOMAIN b.bindings : Key(b.bindings[i]) = Key(b.bindings[j]) => i = j
  /\ \A i \in DOMAIN b.rules : \E j \in DOMAIN b.bindings : Key(b.rules[i]) = Key(b.bindings[j])
=============================================================================
