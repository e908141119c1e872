---------------------------- MODULE MCRuleSources ----------------------------
(***************************************************************************)
(* A small instance of RuleSources for TLC.  One well-formed request of    *)
(* the shared contract, and the families that vary one part of it: the     *)
(* coverage graph, the accounting of the sources, the bundle, and every    *)
(* other condition once.  Then rows of the control-translation table.      *)
(***************************************************************************)
EXTENDS RuleSources

Ref(kind, id) == [kind |-> kind, id |-> id]
Refs(kind, ids) == [i \in DOMAIN ids |-> Ref(kind, ids[i])]
M(ids) == Refs("source-member", ids)
A(ids) == Refs("source-artifact", ids)
I(ids) == Refs("test-input", ids)

Graph == Ref("coverage-group", "g1")

(* Three members, of which m3 is not supported; a1 is tested by x1 and x2. *)
BaseCG ==
  [members |-> << [id |-> "m1", lineage |-> "l1", artifacts |-> <<"a1">>],
                  [id |-> "m2", lineage |-> "l2", artifacts |-> <<"a1">>],
                  [id |-> "m3", lineage |-> "l3", artifacts |-> <<"a2">>] >>,
   artifacts |-> << [id |-> "a1", lineage |-> "k1", members |-> <<"m1", "m2">>,
                     refers |-> TRUE, sameSemantics |-> TRUE,
                     components |-> {"c1", "c2"}, obligations |-> {"o1"}],
                    [id |-> "a2", lineage |-> "k2", members |-> <<"m3">>,
                     refers |-> FALSE, sameSemantics |-> FALSE,
                     components |-> {}, obligations |-> {}] >>,
   inputs |-> << [id |-> "x1", artifact |-> "a1", members |-> <<"m1">>],
                 [id |-> "x2", artifact |-> "a1", members |-> <<"m2">>],
                 [id |-> "x3", artifact |-> "a2", members |-> <<"m3">>] >>]

BaseSemantics ==
  [members |-> << [id |-> "m1", lineage |-> "l1", positive |-> TRUE, artifacts |-> A(<<"a1">>)],
                  [id |-> "m2", lineage |-> "l2", positive |-> TRUE, artifacts |-> A(<<"a1">>)],
                  [id |-> "m3", lineage |-> "l3", positive |-> TRUE, artifacts |-> A(<<"a2">>)] >>,
   memberCount |-> 3,
   artifacts |-> << [id |-> "a1", lineage |-> "k1", members |-> M(<<"m2", "m1">>), located |-> TRUE],
                    [id |-> "a2", lineage |-> "k2", members |-> M(<<"m3">>), located |-> TRUE] >>,
   artifactCount |-> 2,
   inputs |-> << [id |-> "x1", artifact |-> Ref("source-artifact", "a1"), members |-> M(<<"m1">>)],
                 [id |-> "x2", artifact |-> Ref("source-artifact", "a1"), members |-> M(<<"m2">>)] >>,
   components |-> << [id |-> "c1", inputs |-> {Ref("test-input", "x1")},
                      members |-> {Ref("source-member", "m1")}],
                     [id |-> "c2", inputs |-> {Ref("test-input", "x2")},
                      members |-> {Ref("source-member", "m2")}] >>,
   groups |-> << [id |-> "g1", children |-> {Ref("component", "c1"), Ref("coverage-group", "g2")},
                  members |-> M(<<"m1", "m2">>)],
                 [id |-> "g2", children |-> {Ref("component", "c2")}, members |-> M(<<"m2">>)] >>,
   obligations |-> << [id |-> "o1", required |-> TRUE, coverage |-> Graph,
                       inputs |-> I(<<"x1", "x2">>)] >>,
   unsupported |-> << [explained |-> TRUE, members |-> M(<<"m3">>), artifacts |-> A(<<"a2">>),
                       inputs |-> I(<<"x3">>)] >>]

Artifact(id, kind, order, deps) ==
  [id |-> id, kind |-> kind, order |-> order, located |-> TRUE,
   group |-> Ref("atomic-group", "t1"), dependsOn |-> Refs("artifact", deps)]

Rule(component, name) ==
  [component |-> component, carrier |-> "header", name |-> name,
   lowerName |-> IF name = "X-A" THEN "x-a" ELSE name]

BaseBundle ==
  [bound |-> TRUE,
   artifacts |-> << Artifact("b1", "configuration-fragment", 0, <<>>),
                    Artifact("b2", "match-rule", 1, <<"b1">>) >>,
   contents |-> {"b1", "b2"},
   unit |-> Refs("artifact", <<"b2", "b1">>), unitPolicy |-> TRUE,
   groups |-> << [id |-> "t1", policy |-> TRUE, artifacts |-> Refs("artifact", <<"b1", "b2">>)] >>,
   directives |-> << [id |-> "d1", artifact |-> Ref("artifact", "b2")] >>,
   mappings |-> << [id |-> "o1", exact |-> TRUE, coverage |-> <<Graph>>, members |-> M(<<"m2", "m1">>),
                    artifacts |-> Refs("artifact", <<"b2">>),
                    directives |-> Refs("directive", <<"d1">>)] >>,
   provenance |-> <<0, 1>>,
   readable |-> TRUE, blocks |-> TRUE, sameRuleSet |-> TRUE,
   rules |-> <<Rule("c1", "X-A"), Rule("c2", "x-a")>>,
   bindings |-> <<Rule("c2", "X-A"), Rule("c1", "x-a")>>]

Shared(cg, semantics, bundle) ==
  [v2 |-> TRUE, locators |-> FALSE, upstream |-> <<>>, candidate |-> "none",
   cg |-> cg, semantics |-> semantics, bundle |-> bundle, rows |-> << >>]
OfSemantics(s) == Shared(BaseCG, s, BaseBundle)
OfBundle(b) == Shared(BaseCG, BaseSemantics, b)

(* Coverage graphs of three groups and two components: every set of        *)
(* children of the first, cycles, shared groups and strange references,    *)
(* with several statements of the second group's members.                  *)
Below == {Ref("component", "c1"), Ref("component", "c2"), Ref("coverage-group", "g1"),
          Ref("coverage-group", "g2"), Ref("coverage-group", "g3")}
Strange == {Ref("component", "c3"), Ref("foreign", "c1")}
Group(id, children, members) == [id |-> id, children |-> children, members |-> M(members)]
Both == <<"m1", "m2">>

Graphs3 ==
  {OfSemantics([BaseSemantics EXCEPT
      !.groups = <<Group("g1", k1, Both), Group("g2", k2, n2), Group("g3", k3, <<"m2">>)>>]) :
     k1 \in SUBSET Below, k2 \in SUBSET (Below \ {Ref("component", "c1")}) \union {{x} : x \in Strange},
     k3 \in {{Ref("component", "c2")}, {Ref("component", "c2"), Ref("coverage-group", "g2")}},
     n2 \in {<<"m2">>, Both, <<"m2", "m2">>}}

(* The accounting: test inputs, referring artifacts, unsupported parts.    *)
Lists(S) == {<<>>} \union {<<x>> : x \in S}
              \union {<<x, y>> : x \in S, y \in S}
TestInputs ==
  {BaseSemantics.inputs, SubSeq(BaseSemantics.inputs, 1, 1),
   Append(BaseSemantics.inputs,
          [id |-> "x3", artifact |-> Ref("source-artifact", "a2"), members |-> M(<<"m3">>)]),
   [BaseSemantics.inputs EXCEPT ![2].id = "x1"],
   [BaseSemantics.inputs EXCEPT ![2].members = M(<<"m2", "m2">>)]}
Accounts ==
  {Shared([BaseCG EXCEPT !.artifacts[1].refers = u, !.artifacts[2].refers = v,
                         !.artifacts[2].sameSemantics = v],
          [BaseSemantics EXCEPT !.inputs = t, !.obligations[1].inputs = o,
             !.unsupported = <<[explained |-> TRUE, members |-> M(n), artifacts |-> A(f),
                                inputs |-> I(i)]>>],
          BaseBundle) :
     t \in TestInputs, o \in {I(<<"x1", "x2">>), I(<<"x1">>), I(<<"x1", "x1">>)},
     n \in Lists({"m2", "m3"}), f \in Lists({"a1", "a2"}), i \in Lists({"x2", "x3"}),
     u \in {TRUE}, v \in BOOLEAN}

(* Bundles of two artifacts: orders, dependencies, atomic groups.        *)
Bundles ==
  {OfBundle([BaseBundle EXCEPT
      !.artifacts = <<Artifact("b1", "configuration-fragment", n1, d1),
                      Artifact("b2", "match-rule", n2, d2)>>,
      !.groups = <<[id |-> "t1", policy |-> TRUE, artifacts |-> Refs("artifact", e1)],
                   [id |-> "t2", policy |-> TRUE, artifacts |-> Refs("artifact", e2)]>>,
      !.unit = Refs("artifact", u)]) :
     n1 \in 0..1, n2 \in 0..1, d1 \in Lists({"b2"}), d2 \in Lists({"b1", "b2"}),
     e1 \in Lists({"b1", "b2"}), e2 \in Lists({"b2"}),
     u \in {<<"b1", "b2">>, <<"b1", "b1">>, <<"b1">>}}

(* Rules and carrier bindings: lists of up to two keys, in either case.    *)
Keyed == {Rule("c1", "X-A"), Rule("c1", "x-a"), Rule("c2", "x-a")}
Units ==
  {OfBundle([BaseBundle EXCEPT !.rules = x, !.bindings = y]) :
     x \in Lists(Keyed), y \in Lists(Keyed)}

(* Every other condition, broken once.                                     *)
CGEdits ==
  {[BaseCG EXCEPT !.members[1].id = "m2"], [BaseCG EXCEPT !.members[1].lineage = "l2"],
   [BaseCG EXCEPT !.members[1].artifacts = <<"a2">>],
   [BaseCG EXCEPT !.artifacts[1].lineage = "k2"], [BaseCG EXCEPT !.artifacts[1].members = <<"m1">>],
   [BaseCG EXCEPT !.artifacts[1].sameSemantics = FALSE],
   [BaseCG EXCEPT !.artifacts[1].components = {"c1"}],
   [BaseCG EXCEPT !.artifacts[1].components = {"c1", "c2", "c3"}],
   [BaseCG EXCEPT !.artifacts[1].obligations = {}],
   [BaseCG EXCEPT !.inputs[1].artifact = "a2"], [BaseCG EXCEPT !.inputs[1].members = <<"m2">>]}
SemanticsEdits ==
  {[BaseSemantics EXCEPT !.memberCount = 2], [BaseSemantics EXCEPT !.artifactCount = 3],
   [BaseSemantics EXCEPT !.members[1].positive = FALSE],
   [BaseSemantics EXCEPT !.members[3].artifacts = Refs("foreign", <<"a2">>)],
   [BaseSemantics EXCEPT !.artifacts[2].located = FALSE],
   [BaseSemantics EXCEPT !.artifacts[2].members = Refs("foreign", <<"m3">>)],
   [BaseSemantics EXCEPT !.components[2].id = "c1"], [BaseSemantics EXCEPT !.groups[2].id = "g1"],
   [BaseSemantics EXCEPT !.components[1].inputs = {Ref("foreign", "x1")}],
   [BaseSemantics EXCEPT !.obligations[1].required = FALSE],
   [BaseSemantics EXCEPT !.obligations = @ \o @],
   [BaseSemantics EXCEPT !.unsupported[1].explained = FALSE]}
BundleEdits ==
  {[BaseBundle EXCEPT !.bound = FALSE], [BaseBundle EXCEPT !.contents = {"b1", "b2", "b3"}],
   [BaseBundle EXCEPT !.artifacts[1].located = FALSE], [BaseBundle EXCEPT !.unitPolicy = FALSE],
   [BaseBundle EXCEPT !.groups[1].policy = FALSE],
   [BaseBundle EXCEPT !.artifacts[1].group = Ref("atomic-group", "t2")],
   [BaseBundle EXCEPT !.directives[1].artifact = Ref("foreign", "b2")],
   [BaseBundle EXCEPT !.mappings = <<>>], [BaseBundle EXCEPT !.mappings = @ \o @],
   [BaseBundle EXCEPT !.mappings[1].exact = FALSE],
   [BaseBundle EXCEPT !.mappings[1].coverage = <<Ref("component", "c1")>>],
   [BaseBundle EXCEPT !.mappings[1].members = M(<<"m1">>)],
   [BaseBundle EXCEPT !.mappings[1].artifacts = Refs("artifact", <<"b3">>)],
   [BaseBundle EXCEPT !.mappings[1].directives = Refs("directive", <<"d1", "d1">>)],
   [BaseBundle EXCEPT !.provenance = <<>>], [BaseBundle EXCEPT !.provenance = <<1, 0>>],
   [BaseBundle EXCEPT !.artifacts[1].kind = "match-rule"],
   [BaseBundle EXCEPT !.artifacts[1].kind = "script"],
   [BaseBundle EXCEPT !.readable = FALSE], [BaseBundle EXCEPT !.blocks = FALSE],
   [BaseBundle EXCEPT !.sameRuleSet = FALSE], [BaseBundle EXCEPT !.rules = <<>>],
   [BaseBundle EXCEPT !.bindings[1] = Rule("c1", "x-a")],
   [BaseBundle EXCEPT !.rules[1] = Rule("c3", "x-a")]}

(* Rows of the control-translation table, and requests that name them.     *)
Doc(capability, state, primary, hash, artifact) ==
  [parses |-> primary # "a3", capability |-> capability, state |-> state, primary |-> primary,
   hash |-> hash, artifacts |-> [x \in {"a1"} |-> artifact]]
Docs ==
  {Doc(c, s, p, h, [content |-> n, trimmed |-> IF n = " R1" THEN "R1" ELSE n,
                    hash |-> g, isJSON |-> j]) :
     c \in {"", "control-translation", "other"}, s \in {"", "translated", "other"},
     p \in {"", "a1", "a2", "a3"}, h \in {"", "R1", "R2"}, n \in {"", "R1", " R1"},
     g \in {"", "R1", "R2", " R1"}, j \in BOOLEAN}
Entry(capability, key) == [capability |-> capability, key |-> key]
Named2 == [Shared(BaseCG, BaseSemantics, BaseBundle) EXCEPT !.v2 = FALSE]
Upstream ==
  {[Named2 EXCEPT !.upstream = u, !.candidate = c, !.rows = [k \in {"k1"} |-> d]] :
     u \in {<<Entry("control-translation", "k1")>>,
            <<Entry("check-generation", "k1"), Entry("control-translation", "k1")>>},
     c \in {"none", "rule"}, d \in Docs}
Plain ==
  {[Named2 EXCEPT !.locators = TRUE]}
    \union {[Named2 EXCEPT !.candidate = c] : c \in {"none", "rule"}}
    \union {[Named2 EXCEPT !.upstream = u, !.candidate = c] :
              u \in {<<Entry("control-translation", "k2")>>, <<Entry("check-generation", "k1")>>}, c \in {"none", "rule"}}

MCRequests ==
  {{OfSemantics(BaseSemantics)}, Graphs3, Accounts, Bundles, Units,
   {Shared(cg, BaseSemantics, BaseBundle) : cg \in CGEdits},
   {OfSemantics(s) : s \in SemanticsEdits}, {OfBundle(b) : b \in BundleEdits},
   Upstream, Plain}
=============================================================================
