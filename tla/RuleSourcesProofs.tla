-------------------------- MODULE RuleSourcesProofs --------------------------
(***************************************************************************)
(* What the shared-contract resolver establishes, for every document it    *)
(* may be given.  First the closure walk of sharedCoverageRequirements:    *)
(* that its recursion is well founded, and that it computes reachability.  *)
(* Then the counts that validateSharedCompleteness and                     *)
(* validateSharedBundle compare, and what their passing means.             *)
(***************************************************************************)
EXTENDS RuleSources, FiniteSetTheorems, WellFoundedInduction, TLAPS

(***************************************************************************)
(* Finite sets, lists and naturals.                                        *)
(***************************************************************************)

(* A set of naturals has a least element: the form of induction used here. *)
LEMMA LeastNatural ==
  ASSUME NEW T \in SUBSET Nat, T # {}
  PROVE  \E n \in T : \A m \in T : ~(m < n)
<1>1. IsWellFoundedOn(OpToRel(<, Nat), Nat)
  BY NatLessThanWellFounded
<1>2. PICK n \in T : \A m \in T : ~(<<m, n>> \in OpToRel(<, Nat))
  BY <1>1, WFMin
<1>3. \A m \in T : ~(m < n)
  BY <1>2 DEF OpToRel
<1> QED
  BY <1>3

(* The ids of finitely many items are finitely many.                       *)
LEMMA IdsFinite ==
  ASSUME NEW S, IsFiniteSet(S)
  PROVE  IsFiniteSet({x.id : x \in S})
<1> DEFINE f == [x \in S |-> x.id]
<1>1. f \in Surjection(S, {x.id : x \in S})
  BY DEF Surjection
<1> QED
  BY <1>1, FS_Surjection

(* The domain, the items and the ids of a list are finite.                 *)
LEMMA ListFinite ==
  ASSUME NEW l, Listed(l)
  PROVE  /\ Len(l) \in Nat /\ DOMAIN l = 1..Len(l)
         /\ IsFiniteSet(DOMAIN l) /\ Cardinality(DOMAIN l) = Len(l)
         /\ IsFiniteSet(Range(l)) /\ IsFiniteSet(Ids(l))
<1>1. Len(l) \in Nat /\ DOMAIN l = 1..Len(l)
  BY DEF Listed
<1>2. IsFiniteSet(DOMAIN l) /\ Cardinality(DOMAIN l) = Len(l)
  <2> DEFINE n == Len(l)
  <2>1. 1 \in Int /\ n \in Int /\ n >= 0
    BY <1>1
  <2> HIDE DEF n
  <2>2. IsFiniteSet(1..n) /\ Cardinality(1..n) = IF 1 > n THEN 0 ELSE n - 1 + 1
    BY <2>1, FS_Interval
  <2>3. IsFiniteSet(1..n) /\ Cardinality(1..n) = n
    BY <2>1, <2>2
  <2> QED
    BY <1>1, <2>3 DEF n
<1>3. l \in Surjection(DOMAIN l, Range(l))
  BY DEF Listed, Surjection, Range
<1>4. IsFiniteSet(Range(l))
  BY <1>2, <1>3, FS_Surjection
<1>5. Ids(l) = {x.id : x \in Range(l)}
  BY DEF Ids, Range
<1> QED
  BY <1>1, <1>2, <1>4, <1>5, IdsFinite

(* The list of ids of a list of references.                                *)
LEMMA IdsOfListed ==
  ASSUME NEW l, Listed(l)
  PROVE  Listed(IdsOf(l)) /\ Len(IdsOf(l)) = Len(l)
<1>1. Len(l) \in Nat /\ DOMAIN l = 1..Len(l)
  BY ListFinite
<1>2. IdsOf(l) = [i \in 1..Len(l) |-> l[i].id]
  BY <1>1 DEF IdsOf
<1>3. \A i \in 1..Len(l) : l[i].id \in Range(IdsOf(l))
  BY <1>2 DEF Range
<1> QED
  BY <1>1, <1>2, <1>3 DEF Listed

(* No value is in a list twice exactly when no two places hold the same.   *)
LEMMA CountOnce ==
  ASSUME NEW l, Listed(l), NEW v, Count(l, v) <= 1,
         NEW i \in DOMAIN l, NEW j \in DOMAIN l, l[i] = v, l[j] = v
  PROVE  i = j
<1> DEFINE P == {k \in DOMAIN l : l[k] = v}
<1>1. IsFiniteSet(P)
  BY ListFinite, FS_Subset
<1>2. {i, j} \in SUBSET P
  OBVIOUS
<1>3. Cardinality({i, j}) <= Cardinality(P) /\ IsFiniteSet({i, j}) /\ Cardinality(P) \in Nat
      /\ Cardinality({i, j}) \in Nat
  BY <1>1, <1>2, FS_Subset, FS_CardinalityType
<1>4. SUFFICES ASSUME i # j PROVE FALSE
  OBVIOUS
<1>5. Cardinality({i} \union {j}) = 2
  <2>1. IsFiniteSet({i}) /\ Cardinality({i}) = 1
    BY FS_Singleton
  <2>2. j \notin {i}
    BY <1>4
  <2> QED
    BY <2>1, <2>2, FS_AddElement
<1>6. {i} \union {j} = {i, j}
  OBVIOUS
<1> QED
  BY <1>3, <1>5, <1>6 DEF Count

(* sameAsKeys compares a count and looks every value up; it says that the  *)
(* list holds exactly the values of the set, each once.                    *)
LEMMA SameAsKeysExact ==
  ASSUME NEW S, IsFiniteSet(S), NEW l, Listed(l)
  PROVE  sameAsKeys(S, l) <=> Range(l) = S /\ Len(l) = Cardinality(Range(l))
<1>1. /\ IsFiniteSet(DOMAIN l) /\ Cardinality(DOMAIN l) = Len(l) /\ IsFiniteSet(Range(l))
      /\ l \in Surjection(DOMAIN l, Range(l))
  BY ListFinite DEF Listed, Surjection, Range
<1>2. Cardinality(Range(l)) = Len(l) <=> l \in Injection(DOMAIN l, Range(l))
  BY <1>1, FS_Surjection
<1>3. ASSUME sameAsKeys(S, l) PROVE Range(l) = S /\ Len(l) = Cardinality(Range(l))
  <2>1. l \in Injection(DOMAIN l, Range(l))
    <3>1. \A i, j \in DOMAIN l : l[i] = l[j] => i = j
      <4> SUFFICES ASSUME NEW i \in DOMAIN l, NEW j \in DOMAIN l, l[i] = l[j]
                   PROVE  i = j
        OBVIOUS
      <4>1. Count(l, l[i]) <= 1
        BY <1>3 DEF sameAsKeys, Range
      <4> QED
        BY <4>1, CountOnce
    <3> QED
      BY <3>1 DEF Injection, IsInjective, Listed, Range
  <2>2. Cardinality(Range(l)) = Cardinality(S)
    BY <1>2, <1>3, <2>1 DEF sameAsKeys
  <2>3. Range(l) \in SUBSET S
    BY <1>3 DEF sameAsKeys
  <2> QED
    BY <1>2, <2>1, <2>2, <2>3, FS_Subset
<1>4. ASSUME Range(l) = S, Len(l) = Cardinality(Range(l)) PROVE sameAsKeys(S, l)
  <2>1. l \in Injection(DOMAIN l, Range(l))
    BY <1>2, <1>4
  <2>2. ASSUME NEW v \in Range(l) PROVE Count(l, v) <= 1
    <3>1. PICK i \in DOMAIN l : l[i] = v
      BY DEF Range
    <3>2. {k \in DOMAIN l : l[k] = v} = {i}
      BY <2>1, <3>1 DEF Injection, IsInjective
    <3>3. Cardinality({i}) = 1
      BY FS_Singleton
    <3>4. Count(l, v) = 1
      BY <3>2, <3>3 DEF Count
    <3> QED
      BY <3>4
  <2> QED
    BY <1>4, <2>2 DEF sameAsKeys
<1> QED
  BY <1>3, <1>4

(***************************************************************************)
(* Reachability: Reachable(s, roots) is the least set that has the roots   *)
(* and is closed under Children.                                           *)
(***************************************************************************)

(* Named is one of the items that have the id.                             *)
LEMMA NamedIs ==
  ASSUME NEW items, NEW id \in Ids(items)
  PROVE  Named(items, id) \in Range(items) /\ Named(items, id).id = id
<1>1. \E x \in Range(items) : x.id = id
  BY DEF Ids, Range
<1> QED
  BY <1>1 DEF Named

(* Children are always children of a group that the document lists.        *)
LEMMA ChildrenListed ==
  ASSUME NEW s, NEW x
  PROVE  Children(s, x) \subseteq UNION {g.children : g \in Range(s.groups)}
<1>1. CASE IsGroup(s, x)
  BY <1>1, NamedIs DEF Children, IsGroup
<1>2. CASE ~IsGroup(s, x)
  BY <1>2 DEF Children
<1> QED
  BY <1>1, <1>2

(* The roots are reachable.                                                *)
LEMMA RootsReachable ==
  ASSUME NEW s, NEW roots
  PROVE  roots \subseteq Reachable(s, roots)
BY DEF Reachable

(* What is below something reachable is reachable.                         *)
LEMMA ReachableClosed ==
  ASSUME NEW s, NEW roots, NEW x \in Reachable(s, roots)
  PROVE  Children(s, x) \subseteq Reachable(s, roots)
BY ChildrenListed DEF Reachable

(* Nothing else is reachable.                                              *)
LEMMA ReachableLeast ==
  ASSUME NEW s, NEW roots, NEW S, roots \subseteq S,
         \A x \in S : Children(s, x) \subseteq S
  PROVE  Reachable(s, roots) \subseteq S
<1> DEFINE refs == roots \union UNION {g.children : g \in Range(s.groups)}
           T == S \intersect refs
<1>1. \A x \in T : Children(s, x) \subseteq T
  BY ChildrenListed
<1>2. T \in SUBSET refs /\ roots \subseteq T
  OBVIOUS
<1> QED
  BY <1>1, <1>2 DEF Reachable

(* What is reachable from a reference: itself, and what its children reach.*)
LEMMA ReachableFromOne ==
  ASSUME NEW s, NEW x
  PROVE  Reachable(s, {x}) = {x} \union Reachable(s, Children(s, x))
<1> DEFINE S == {x} \union Reachable(s, Children(s, x))
<1>1. \A y \in S : Children(s, y) \subseteq S
  BY RootsReachable, ReachableClosed
<1>2. Reachable(s, {x}) \subseteq S
  <2>1. {x} \subseteq S
    OBVIOUS
  <2> HIDE DEF S
  <2> QED
    BY <1>1, <2>1, ReachableLeast
<1>3. x \in Reachable(s, {x})
  BY RootsReachable
<1>4. Children(s, x) \subseteq Reachable(s, {x})
  BY <1>3, ReachableClosed
<1>5. \A y \in Reachable(s, {x}) : Children(s, y) \subseteq Reachable(s, {x})
  BY ReachableClosed
<1>6. Reachable(s, Children(s, x)) \subseteq Reachable(s, {x})
  BY <1>4, <1>5, ReachableLeast
<1> QED
  BY <1>2, <1>3, <1>6

(* What is reachable from several is what is reachable from one of them.   *)
LEMMA ReachableFromSeveral ==
  ASSUME NEW s, NEW roots
  PROVE  Reachable(s, roots) = UNION {Reachable(s, {y}) : y \in roots}
<1> DEFINE S == UNION {Reachable(s, {y}) : y \in roots}
<1>1. roots \subseteq S
  BY RootsReachable
<1>2. \A x \in S : Children(s, x) \subseteq S
  BY ReachableClosed
<1>3. Reachable(s, roots) \subseteq S
  <2> HIDE DEF S
  <2> QED
    BY <1>1, <1>2, ReachableLeast
<1>4. ASSUME NEW y \in roots PROVE Reachable(s, {y}) \subseteq Reachable(s, roots)
  <2>1. {y} \subseteq Reachable(s, roots)
    BY RootsReachable
  <2>2. \A x \in Reachable(s, roots) : Children(s, x) \subseteq Reachable(s, roots)
    BY ReachableClosed
  <2> QED
    BY <2>1, <2>2, ReachableLeast
<1> QED
  BY <1>3, <1>4

(* The members below a reference are finitely many.                        *)
LEMMA MembersBelowFinite ==
  ASSUME NEW s, Listed(s.components), \A c \in Range(s.components) : IsFiniteSet(c.members),
         NEW x
  PROVE  IsFiniteSet(MembersBelow(s, x))
<1> DEFINE C == ComponentsBelow(s, {x})
           F == {c.members : c \in C}
           f == [c \in C |-> c.members]
<1>1. C \in SUBSET Range(s.components)
  BY NamedIs DEF ComponentsBelow, IsComponent
<1>2. IsFiniteSet(C)
  BY <1>1, ListFinite, FS_Subset
<1>3. f \in Surjection(C, F)
  BY DEF Surjection
<1>4. IsFiniteSet(F)
  BY <1>2, <1>3, FS_Surjection
<1>5. \A T \in F : IsFiniteSet(T)
  BY <1>1
<1>6. IsFiniteSet(UNION F)
  <2> HIDE DEF F
  <2> QED
    BY <1>4, <1>5, FS_UNION
<1> QED
  BY <1>6, IdsFinite DEF MembersBelow

(***************************************************************************)
(* The closure walk.  A call below another one visits one group more, so   *)
(* there is a walk for the calls with at most n groups left to visit, for  *)
(* every n: the recursion is well founded, whatever cycles the document    *)
(* has.                                                                    *)
(***************************************************************************)
Left(s, visiting) == Cardinality(Ids(s.groups) \ visiting)

CallsWithin(s, refs, n) ==
  {p \in refs \X SUBSET Ids(s.groups) : Left(s, p[2]) <= n}

IsWalk(s, D, f) == f = [p \in D |-> WalkCall(s, f, p[1], p[2])]

(* A call depends on the calls that it makes only.                         *)
LEMMA WalkCallDepends ==
  ASSUME NEW s, NEW f, NEW h, NEW x, NEW v,
         IsGroup(s, x) /\ x.id \notin v =>
           \A y \in Children(s, x) : f[<<y, v \union {x.id}>>] = h[<<y, v \union {x.id}>>]
  PROVE  WalkCall(s, f, x, v) = WalkCall(s, h, x, v)
<1>1. CASE IsComponent(s, x)
  BY <1>1 DEF WalkCall, IsComponent
<1>2. CASE ~IsComponent(s, x) /\ IsGroup(s, x) /\ x.id \notin v
  <2> DEFINE g == Named(s.groups, x.id)
             w == v \union {x.id}
  <2>1. Children(s, x) = g.children
    BY <1>2 DEF Children
  <2>2. {f[<<y, w>>] : y \in g.children} = {h[<<y, w>>] : y \in g.children}
    BY <1>2, <2>1
  <2> QED
    BY <1>2, <2>2 DEF WalkCall, IsComponent, IsGroup
<1>3. CASE ~IsComponent(s, x) /\ ~(IsGroup(s, x) /\ x.id \notin v)
  BY <1>3 DEF WalkCall, IsComponent, IsGroup
<1> QED
  BY <1>1, <1>2, <1>3

(* Visiting a group leaves one group less.                                 *)
LEMMA OneLess ==
  ASSUME NEW s, Listed(s.groups), NEW v \in SUBSET Ids(s.groups),
         NEW id \in Ids(s.groups) \ v
  PROVE  /\ Left(s, v) \in Nat /\ Left(s, v \union {id}) \in Nat
         /\ Left(s, v \union {id}) = Left(s, v) - 1
<1> DEFINE U == Ids(s.groups) \ v
<1>1. IsFiniteSet(U)
  BY ListFinite, FS_Subset
<1>2. Ids(s.groups) \ (v \union {id}) = U \ {id}
  OBVIOUS
<1>3. Cardinality(U) \in Nat /\ Cardinality(U \ {id}) \in Nat
  BY <1>1, FS_RemoveElement, FS_CardinalityType
<1>4. Cardinality(U \ {id}) = Cardinality(U) - 1
  BY <1>1, FS_RemoveElement
<1> QED
  BY <1>2, <1>3, <1>4 DEF Left

(* The number of groups left is a natural number.                          *)
LEMMA LeftNat ==
  ASSUME NEW s, Listed(s.groups), NEW v \in SUBSET Ids(s.groups)
  PROVE  Left(s, v) \in Nat
BY ListFinite, FS_Subset, FS_CardinalityType DEF Left

(* From a walk of the calls with at most n groups left, one of the calls   *)
(* with at most n + 1.                                                     *)
LEMMA WalkExtends ==
  ASSUME NEW s, Listed(s.groups), NEW refs,
         UNION {g.children : g \in Range(s.groups)} \subseteq refs,
         NEW n \in Nat, NEW f, IsWalk(s, CallsWithin(s, refs, n), f)
  PROVE  \E h : IsWalk(s, CallsWithin(s, refs, n + 1), h)
<1> DEFINE D == CallsWithin(s, refs, n)
           E == CallsWithin(s, refs, n + 1)
           h == [p \in E |-> WalkCall(s, f, p[1], p[2])]
<1>1. D \subseteq E
  BY LeftNat DEF CallsWithin
<1>2. \A p \in D : h[p] = f[p]
  BY <1>1 DEF IsWalk
<1>3. ASSUME NEW p \in E PROVE WalkCall(s, f, p[1], p[2]) = WalkCall(s, h, p[1], p[2])
  <2> DEFINE x == p[1]
             v == p[2]
  <2>1. v \in SUBSET Ids(s.groups) /\ Left(s, v) <= n + 1
    BY DEF CallsWithin
  <2>2. ASSUME IsGroup(s, x), x.id \notin v, NEW y \in Children(s, x)
        PROVE  f[<<y, v \union {x.id}>>] = h[<<y, v \union {x.id}>>]
    <3>1. x.id \in Ids(s.groups) \ v
      BY <2>2 DEF IsGroup
    <3>2. Left(s, v) \in Nat /\ Left(s, v \union {x.id}) \in Nat
          /\ Left(s, v \union {x.id}) = Left(s, v) - 1
      BY <2>1, <3>1, OneLess
    <3>3. Left(s, v \union {x.id}) <= n
      BY <2>1, <3>2
    <3>4. y \in refs /\ v \union {x.id} \in SUBSET Ids(s.groups)
      BY <2>1, <2>2, <3>1, ChildrenListed
    <3>5. <<y, v \union {x.id}>> \in D
      BY <3>3, <3>4 DEF CallsWithin
    <3> HIDE DEF h, D
    <3> QED
      BY <1>2, <3>5
  <2> HIDE DEF h
  <2> QED
    BY <2>2, WalkCallDepends
<1>4. h = [p \in E |-> WalkCall(s, h, p[1], p[2])]
  <2> DEFINE k == [p \in E |-> WalkCall(s, h, p[1], p[2])]
  <2>1. DOMAIN k = E /\ DOMAIN h = E
    OBVIOUS
  <2>2. \A p \in E : h[p] = k[p]
    BY <1>3
  <2>3. h = [p \in E |-> h[p]] /\ k = [p \in E |-> k[p]]
    OBVIOUS
  <2>4. h = k
    <3> HIDE DEF h, k
    <3> QED
      BY <2>2, <2>3
  <2> QED
    BY <2>4
<1> HIDE DEF h
<1> QED
  BY <1>4 DEF IsWalk

(* There is a walk of all calls.                                           *)
LEMMA WalkExists ==
  ASSUME NEW s, Listed(s.groups), NEW refs,
         UNION {g.children : g \in Range(s.groups)} \subseteq refs
  PROVE  \E f : IsWalk(s, refs \X SUBSET Ids(s.groups), f)
<1> DEFINE D(n) == CallsWithin(s, refs, n)
           T == {n \in Nat : ~\E f : IsWalk(s, D(n), f)}
<1>1. T = {}
  <2> SUFFICES ASSUME T # {} PROVE FALSE
    OBVIOUS
  <2>1. T \in SUBSET Nat
    OBVIOUS
  <2>2. PICK n \in T : \A m \in T : ~(m < n)
    <3> HIDE DEF T
    <3> QED
      BY <2>1, LeastNatural
  <2>3. n # 0
    <3> SUFFICES \E f : IsWalk(s, D(0), f)
      OBVIOUS
    <3> DEFINE f == [p \in D(0) |-> WalkCall(s, <<>>, p[1], p[2])]
    <3>1. ASSUME NEW p \in D(0)
          PROVE  WalkCall(s, <<>>, p[1], p[2]) = WalkCall(s, f, p[1], p[2])
      <4> DEFINE x == p[1]
                 v == p[2]
      <4>1. v \in SUBSET Ids(s.groups) /\ Left(s, v) <= 0
        BY DEF CallsWithin
      <4>2. ~(IsGroup(s, x) /\ x.id \notin v)
        <5> SUFFICES ASSUME IsGroup(s, x), x.id \notin v PROVE FALSE
          OBVIOUS
        <5>1. x.id \in Ids(s.groups) \ v
          BY DEF IsGroup
        <5>2. Left(s, v) \in Nat /\ Left(s, v \union {x.id}) \in Nat
              /\ Left(s, v \union {x.id}) = Left(s, v) - 1
          BY <4>1, <5>1, OneLess
        <5> QED
          BY <4>1, <5>2
      <4> HIDE DEF f
      <4> QED
        BY <4>2, WalkCallDepends
    <3>2. f = [p \in D(0) |-> WalkCall(s, f, p[1], p[2])]
      <4> DEFINE k == [p \in D(0) |-> WalkCall(s, f, p[1], p[2])]
      <4>1. DOMAIN k = D(0) /\ DOMAIN f = D(0)
        OBVIOUS
      <4>2. \A p \in D(0) : f[p] = k[p]
        BY <3>1
      <4>3. f = [p \in D(0) |-> f[p]] /\ k = [p \in D(0) |-> k[p]]
        OBVIOUS
      <4> HIDE DEF f, k
      <4> QED
        BY <4>1, <4>2, <4>3 DEF k
    <3> HIDE DEF f
    <3> QED
      BY <3>2 DEF IsWalk
  <2>4. n - 1 \in Nat /\ n - 1 < n
    BY <2>1, <2>3
  <2>5. PICK f : IsWalk(s, D(n - 1), f)
    BY <2>2, <2>4
  <2>6. (n - 1) + 1 = n
    BY <2>1
  <2>7. \E h : IsWalk(s, D((n - 1) + 1), h)
    BY <2>4, <2>5, WalkExtends
  <2> QED
    BY <2>6, <2>7
<1>2. PICK n \in Nat : n = Cardinality(Ids(s.groups))
  BY ListFinite, FS_CardinalityType
<1>3. \A v \in SUBSET Ids(s.groups) : Left(s, v) <= n
  <2> TAKE v \in SUBSET Ids(s.groups)
  <2>1. Ids(s.groups) \ v \in SUBSET Ids(s.groups)
    OBVIOUS
  <2> QED
    BY <1>2, <2>1, ListFinite, FS_Subset DEF Left
<1>4. D(n) = refs \X SUBSET Ids(s.groups)
  BY <1>3 DEF CallsWithin
<1>5. \E f : IsWalk(s, D(n), f)
  BY <1>1
<1> QED
  BY <1>4, <1>5

(* So Walk is one: every call returns what WalkCall makes of the others.   *)
LEMMA WalkEquation ==
  ASSUME NEW s, Listed(s.groups), NEW refs,
         UNION {g.children : g \in Range(s.groups)} \subseteq refs
  PROVE  IsWalk(s, refs \X SUBSET Ids(s.groups), Walk(s, refs))
BY WalkExists DEF IsWalk, Walk

(***************************************************************************)
(* What a call returns: coverage exactly when everything reachable is as   *)
(* it has to be and no group that is being visited is reachable.           *)
(***************************************************************************)
FiniteSemantics(s) ==
  /\ Listed(s.components) /\ \A c \in Range(s.components) : IsFiniteSet(c.members)
  /\ Listed(s.groups) /\ \A g \in Range(s.groups) : Listed(g.members)

ComponentGood(s, x) ==
  /\ IsComponent(s, x)
  /\ AllKind(Named(s.components, x.id).inputs, "test-input")
  /\ AllKind(Named(s.components, x.id).members, "source-member")

GroupListed(s, x) ==
  LET listed == IdsOf(Named(s.groups, x.id).members)
  IN  Range(listed) = MembersBelow(s, x) /\ Len(listed) = Cardinality(Range(listed))

GroupGood(s, x) ==
  IsGroup(s, x) /\ x \notin Reachable(s, Children(s, x)) /\ GroupListed(s, x)

Clear(s, x, v) == \A y \in Reachable(s, {x}) : IsGroup(s, y) => y.id \notin v

Right(s, c, x, v) ==
  /\ c.ok <=> WellCovered(s, x) /\ Clear(s, x, v)
  /\ c.ok => c.inputs = InputsBelow(s, x) /\ c.members = MembersBelow(s, x)

(* WellCovered, by the parts named here.                                   *)
LEMMA WellCoveredParts ==
  ASSUME NEW s, NEW x
  PROVE  WellCovered(s, x) <=>
           \A y \in Reachable(s, {x}) : ComponentGood(s, y) \/ GroupGood(s, y)
BY DEF WellCovered, ComponentGood, GroupGood, GroupListed

(* A component has nothing below it but itself.                            *)
LEMMA BelowComponent ==
  ASSUME NEW s, NEW x, IsComponent(s, x)
  PROVE  LET c == Named(s.components, x.id)
         IN  /\ Reachable(s, {x}) = {x}
             /\ InputsBelow(s, x) = {y.id : y \in c.inputs}
             /\ MembersBelow(s, x) = {y.id : y \in c.members}
<1>1. Children(s, x) = {}
  BY DEF Children, IsGroup, IsComponent
<1>2. Reachable(s, {}) = {}
  BY ReachableLeast
<1>3. Reachable(s, {x}) = {x}
  BY <1>1, <1>2, ReachableFromOne
<1>4. ComponentsBelow(s, {x}) = {Named(s.components, x.id)}
  BY <1>3 DEF ComponentsBelow
<1> QED
  BY <1>3, <1>4 DEF InputsBelow, MembersBelow

(* An input is below a reference when a component that has it is reachable.*)
LEMMA InputBelow ==
  ASSUME NEW s, NEW x, NEW m
  PROVE  m \in InputsBelow(s, x) <=>
           \E z \in Reachable(s, {x}) :
             IsComponent(s, z) /\ \E r \in Named(s.components, z.id).inputs : m = r.id
<1>1. \A k : k \in ComponentsBelow(s, {x}) <=>
              \E z \in Reachable(s, {x}) : IsComponent(s, z) /\ k = Named(s.components, z.id)
  BY DEF ComponentsBelow
<1>2. m \in InputsBelow(s, x) <=> \E k \in ComponentsBelow(s, {x}) : \E r \in k.inputs : m = r.id
  BY DEF InputsBelow
<1> QED
  BY <1>1, <1>2

(* A member is below a reference when a component that has it is reachable.*)
LEMMA MemberBelow ==
  ASSUME NEW s, NEW x, NEW m
  PROVE  m \in MembersBelow(s, x) <=>
           \E z \in Reachable(s, {x}) :
             IsComponent(s, z) /\ \E r \in Named(s.components, z.id).members : m = r.id
<1>1. \A k : k \in ComponentsBelow(s, {x}) <=>
              \E z \in Reachable(s, {x}) : IsComponent(s, z) /\ k = Named(s.components, z.id)
  BY DEF ComponentsBelow
<1>2. m \in MembersBelow(s, x) <=> \E k \in ComponentsBelow(s, {x}) : \E r \in k.members : m = r.id
  BY DEF MembersBelow
<1> QED
  BY <1>1, <1>2

(* What is below a group is what is below its children.                    *)
LEMMA BelowGroup ==
  ASSUME NEW s, NEW x, IsGroup(s, x)
  PROVE  /\ \A m : m \in InputsBelow(s, x) <=> \E y \in Children(s, x) : m \in InputsBelow(s, y)
         /\ \A m : m \in MembersBelow(s, x) <=> \E y \in Children(s, x) : m \in MembersBelow(s, y)
<1> DEFINE K == Children(s, x)
<1>1. Reachable(s, {x}) = {x} \union Reachable(s, K)
  BY ReachableFromOne
<1>2. Reachable(s, K) = UNION {Reachable(s, {y}) : y \in K}
  BY ReachableFromSeveral
<1>3. ~IsComponent(s, x)
  BY DEF IsComponent, IsGroup
<1> HIDE DEF K
<1>4. \A z : z \in Reachable(s, {x}) /\ IsComponent(s, z) <=>
              \E y \in K : z \in Reachable(s, {y}) /\ IsComponent(s, z)
  BY <1>1, <1>2, <1>3
<1>5. ASSUME NEW m PROVE m \in InputsBelow(s, x) <=> \E y \in K : m \in InputsBelow(s, y)
  <2> DEFINE Has(z) == IsComponent(s, z) /\ \E r \in Named(s.components, z.id).inputs : m = r.id
  <2>1. ASSUME NEW y PROVE m \in InputsBelow(s, y) <=> \E z \in Reachable(s, {y}) : Has(z)
    BY InputBelow
  <2>2. \A z : Has(z) => IsComponent(s, z)
    OBVIOUS
  <2> HIDE DEF Has
  <2>3. m \in InputsBelow(s, x) <=> \E z : z \in Reachable(s, {x}) /\ IsComponent(s, z) /\ Has(z)
    BY <2>1, <2>2
  <2>4. (\E y \in K : m \in InputsBelow(s, y)) <=>
          \E z : (\E y \in K : z \in Reachable(s, {y}) /\ IsComponent(s, z)) /\ Has(z)
    BY <2>1, <2>2
  <2> QED
    BY <1>4, <2>3, <2>4
<1>6. ASSUME NEW m PROVE m \in MembersBelow(s, x) <=> \E y \in K : m \in MembersBelow(s, y)
  <2> DEFINE Has(z) == IsComponent(s, z) /\ \E r \in Named(s.components, z.id).members : m = r.id
  <2>1. ASSUME NEW y PROVE m \in MembersBelow(s, y) <=> \E z \in Reachable(s, {y}) : Has(z)
    BY MemberBelow
  <2>2. \A z : Has(z) => IsComponent(s, z)
    OBVIOUS
  <2> HIDE DEF Has
  <2>3. m \in MembersBelow(s, x) <=> \E z : z \in Reachable(s, {x}) /\ IsComponent(s, z) /\ Has(z)
    BY <2>1, <2>2
  <2>4. (\E y \in K : m \in MembersBelow(s, y)) <=>
          \E z : (\E y \in K : z \in Reachable(s, {y}) /\ IsComponent(s, z)) /\ Has(z)
    BY <2>1, <2>2
  <2> QED
    BY <1>4, <2>3, <2>4
<1> QED
  BY <1>5, <1>6 DEF K

(* A group that is not being visited: when its children were called right, *)
(* what the call makes of them is right.                                   *)
LEMMA GroupCallRight ==
  ASSUME NEW s, FiniteSemantics(s), NEW f, NEW x, NEW v,
         IsGroup(s, x), x.id \notin v,
         \A y \in Children(s, x) :
           Right(s, f[<<y, v \union {x.id}>>], y, v \union {x.id})
  PROVE  Right(s, WalkCall(s, f, x, v), x, v)
<1> DEFINE g == Named(s.groups, x.id)
           w == v \union {x.id}
           K == Children(s, x)
           below == {f[<<y, w>>] : y \in g.children}
           members == UNION {c.members : c \in below}
           inputs == UNION {c.inputs : c \in below}
           listed == IdsOf(g.members)
           c == WalkCall(s, f, x, v)
           Ok == (\A b \in below : b.ok) /\ sameAsKeys(members, listed)
<1>1. K = g.children /\ g \in Range(s.groups)
  BY NamedIs DEF Children, IsGroup
<1>2. c = IF Ok THEN [ok |-> TRUE, inputs |-> inputs, members |-> members] ELSE Uncovered
  BY DEF WalkCall, IsGroup, GroupAncestry
<1>3. /\ (c.ok <=> Ok)
      /\ c.ok => c.inputs = inputs /\ c.members = members
  <2> HIDE DEF Ok, inputs, members, c
  <2> QED
    BY <1>2 DEF Uncovered
<1>4. (\A b \in below : b.ok) <=> \A y \in K : WellCovered(s, y) /\ Clear(s, y, w)
  BY <1>1 DEF Right
<1>5. ASSUME \A b \in below : b.ok
      PROVE  inputs = InputsBelow(s, x) /\ members = MembersBelow(s, x)
  <2>1. \A y \in K : f[<<y, w>>].inputs = InputsBelow(s, y) /\ f[<<y, w>>].members = MembersBelow(s, y)
    BY <1>1, <1>5 DEF Right
  <2>2. \A m : m \in inputs <=> \E y \in K : m \in f[<<y, w>>].inputs
    BY <1>1
  <2>3. \A m : m \in members <=> \E y \in K : m \in f[<<y, w>>].members
    BY <1>1
  <2>4. /\ \A m : m \in InputsBelow(s, x) <=> \E y \in K : m \in InputsBelow(s, y)
        /\ \A m : m \in MembersBelow(s, x) <=> \E y \in K : m \in MembersBelow(s, y)
    BY BelowGroup
  <2> HIDE DEF inputs, members, K, w
  <2>5. ASSUME NEW m PROVE m \in inputs <=> m \in InputsBelow(s, x)
    BY <2>1, <2>2, <2>4
  <2>6. ASSUME NEW m PROVE m \in members <=> m \in MembersBelow(s, x)
    BY <2>1, <2>3, <2>4
  <2> QED
    BY <2>5, <2>6 DEF inputs, members, InputsBelow, MembersBelow
<1>6. sameAsKeys(MembersBelow(s, x), listed) <=> GroupListed(s, x)
  <2>1. Listed(listed)
    BY <1>1, IdsOfListed DEF FiniteSemantics
  <2>2. IsFiniteSet(MembersBelow(s, x))
    BY MembersBelowFinite DEF FiniteSemantics
  <2> QED
    BY <2>1, <2>2, SameAsKeysExact DEF GroupListed
<1>7. Ok <=> (\A y \in K : WellCovered(s, y) /\ Clear(s, y, w)) /\ GroupListed(s, x)
  BY <1>4, <1>5, <1>6
<1>8. Reachable(s, K) = UNION {Reachable(s, {y}) : y \in K}
  BY ReachableFromSeveral
<1>9. Reachable(s, {x}) = {x} \union Reachable(s, K)
  BY ReachableFromOne
<1> HIDE DEF Ok, inputs, members, c, below, g, K, listed
<1>10. ASSUME \A y \in K : WellCovered(s, y) /\ Clear(s, y, w), GroupListed(s, x)
       PROVE  WellCovered(s, x) /\ Clear(s, x, v)
  <2>1. x \notin Reachable(s, K)
    BY <1>8, <1>10 DEF Clear
  <2>2. GroupGood(s, x)
    BY <1>10, <2>1 DEF GroupGood, K
  <2>3. WellCovered(s, x)
    BY <1>8, <1>9, <1>10, <2>2, WellCoveredParts
  <2>4. Clear(s, x, v)
    BY <1>8, <1>9, <1>10 DEF Clear
  <2> QED
    BY <2>3, <2>4
<1>11. ASSUME WellCovered(s, x), Clear(s, x, v)
       PROVE  (\A y \in K : WellCovered(s, y) /\ Clear(s, y, w)) /\ GroupListed(s, x)
  <2>1. \A z \in Reachable(s, {x}) : ComponentGood(s, z) \/ GroupGood(s, z)
    BY <1>11, WellCoveredParts
  <2>2. GroupGood(s, x)
    BY <1>9, <2>1 DEF ComponentGood, IsComponent, IsGroup
  <2>3. ASSUME NEW y \in K PROVE WellCovered(s, y)
    BY <1>8, <1>9, <2>1, WellCoveredParts
  <2>4. ASSUME NEW y \in K, NEW z \in Reachable(s, {y}), IsGroup(s, z)
        PROVE  z.id \notin w
    <3>1. z \in Reachable(s, {x}) /\ z \in Reachable(s, K)
      BY <1>8, <1>9
    <3>2. z.id \notin v
      BY <1>11, <2>4, <3>1 DEF Clear
    <3>3. z \notin Reachable(s, Children(s, z))
      BY <2>1, <2>4, <3>1 DEF GroupGood, ComponentGood, IsComponent, IsGroup
    <3>4. ASSUME z.id = x.id PROVE FALSE
      <4>1. Children(s, z) = K
        BY <2>4, <3>4 DEF Children, K
      <4> QED
        BY <3>1, <3>3, <4>1
    <3> QED
      BY <3>2, <3>4
  <2> QED
    BY <2>2, <2>3, <2>4 DEF GroupGood, Clear
<1> QED
  BY <1>3, <1>5, <1>7, <1>10, <1>11 DEF Right, c, Ok

(* Every call is right when the calls that it makes are.                   *)
LEMMA CallRight ==
  ASSUME NEW s, FiniteSemantics(s), NEW f, NEW x, NEW v,
         IsGroup(s, x) /\ x.id \notin v =>
           \A y \in Children(s, x) :
             Right(s, f[<<y, v \union {x.id}>>], y, v \union {x.id})
  PROVE  Right(s, WalkCall(s, f, x, v), x, v)
<1>1. x \in Reachable(s, {x})
  BY RootsReachable
<1>2. CASE IsComponent(s, x)
  <2> DEFINE k == Named(s.components, x.id)
             Ok == AllKind(k.inputs, "test-input") /\ AllKind(k.members, "source-member")
             c == WalkCall(s, f, x, v)
  <2>1. c = IF Ok THEN [ok |-> TRUE, inputs |-> {y.id : y \in k.inputs},
                        members |-> {y.id : y \in k.members}]
                  ELSE Uncovered
    BY <1>2 DEF WalkCall, IsComponent
  <2>2. /\ Reachable(s, {x}) = {x}
        /\ InputsBelow(s, x) = {y.id : y \in k.inputs}
        /\ MembersBelow(s, x) = {y.id : y \in k.members}
    BY <1>2, BelowComponent
  <2>3. ~IsGroup(s, x)
    BY <1>2 DEF IsGroup, IsComponent
  <2>4. WellCovered(s, x) <=> Ok
    BY <1>2, <2>2, <2>3, WellCoveredParts DEF ComponentGood, GroupGood
  <2>5. Clear(s, x, v)
    BY <2>2, <2>3 DEF Clear
  <2> HIDE DEF Ok, c, k
  <2> QED
    BY <2>1, <2>2, <2>4, <2>5 DEF Right, Uncovered, c
<1>3. CASE IsGroup(s, x) /\ x.id \notin v
  BY <1>3, GroupCallRight
<1>4. CASE ~IsComponent(s, x) /\ ~(IsGroup(s, x) /\ x.id \notin v)
  <2>1. WalkCall(s, f, x, v) = Uncovered
    BY <1>4 DEF WalkCall, IsComponent, IsGroup
  <2>2. ~(WellCovered(s, x) /\ Clear(s, x, v))
    BY <1>1, <1>4, WellCoveredParts DEF ComponentGood, GroupGood, Clear
  <2> QED
    BY <2>1, <2>2 DEF Right, Uncovered
<1> QED
  BY <1>2, <1>3, <1>4

(* Every call of the walk is right: a call that is not, with the fewest    *)
(* groups left to visit, would contradict CallRight.                       *)
LEMMA WalkRight ==
  ASSUME NEW s, FiniteSemantics(s), NEW refs,
         UNION {g.children : g \in Range(s.groups)} \subseteq refs,
         NEW x \in refs, NEW v \in SUBSET Ids(s.groups)
  PROVE  Right(s, Walk(s, refs)[<<x, v>>], x, v)
<1> DEFINE W == Walk(s, refs)
           D == refs \X SUBSET Ids(s.groups)
           Wrong(n) == \E p \in D : Left(s, p[2]) = n /\ ~Right(s, W[p], p[1], p[2])
           T == {n \in Nat : Wrong(n)}
<1>1. Listed(s.groups)
  BY DEF FiniteSemantics
<1>2. \A p \in D : W[p] = WalkCall(s, W, p[1], p[2])
  <2>1. IsWalk(s, D, W)
    BY <1>1, WalkEquation
  <2> HIDE DEF D, W
  <2> QED
    BY <2>1 DEF IsWalk
<1>3. T = {}
  <2> SUFFICES ASSUME T # {} PROVE FALSE
    OBVIOUS
  <2>1. T \in SUBSET Nat
    OBVIOUS
  <2>2. PICK n \in T : \A m \in T : ~(m < n)
    <3> HIDE DEF T
    <3> QED
      BY <2>1, LeastNatural
  <2>3. PICK p \in D : Left(s, p[2]) = n /\ ~Right(s, W[p], p[1], p[2])
    OBVIOUS
  <2> DEFINE y == p[1]
             w == p[2]
  <2>4. ASSUME IsGroup(s, y), y.id \notin w, NEW z \in Children(s, y)
        PROVE  Right(s, W[<<z, w \union {y.id}>>], z, w \union {y.id})
    <3> DEFINE q == <<z, w \union {y.id}>>
    <3>1. y.id \in Ids(s.groups) \ w /\ w \in SUBSET Ids(s.groups)
      BY <2>4 DEF IsGroup
    <3>2. q \in D /\ q[1] = z /\ q[2] = w \union {y.id}
      BY <3>1, ChildrenListed
    <3>3. Left(s, w) \in Nat /\ Left(s, q[2]) \in Nat /\ Left(s, q[2]) = Left(s, w) - 1
      BY <1>1, <3>1, OneLess
    <3>4. Left(s, q[2]) < n
      BY <2>3, <3>3
    <3>5. Left(s, q[2]) \notin T
      <4> HIDE DEF T, q
      <4> QED
        BY <2>1, <2>2, <3>4
    <3>6. ~Wrong(Left(s, q[2]))
      BY <3>3, <3>5
    <3> HIDE DEF q, W, D
    <3>7. Right(s, W[q], q[1], q[2])
      BY <3>2, <3>6
    <3> QED
      BY <3>2, <3>7 DEF q
  <2>5. Right(s, WalkCall(s, W, y, w), y, w)
    <3> HIDE DEF W, y, w
    <3> QED
      BY <2>4, CallRight
  <2> QED
    BY <1>2, <2>3, <2>5
<1>4. Left(s, v) \in Nat
  BY <1>1, LeftNat
<1>5. ~Wrong(Left(s, v))
  BY <1>3, <1>4
<1>6. <<x, v>> \in D
  OBVIOUS
<1> HIDE DEF W, D
<1> QED
  BY <1>5, <1>6 DEF W

(* sharedCoverageRequirements computes reachability.                       *)
LEMMA CoverageRight ==
  ASSUME NEW s, FiniteSemantics(s), NEW root, Distinct(s.components), Distinct(s.groups)
  PROVE  LET coverage == sharedCoverageRequirements(root, s)
         IN  /\ coverage.ok <=> WellCovered(s, root)
             /\ coverage.ok => /\ coverage.inputs = InputsBelow(s, root)
                               /\ coverage.members = MembersBelow(s, root)
<1> DEFINE refs == CoverageRefs(s, root)
           coverage == sharedCoverageRequirements(root, s)
<1>1. root \in refs /\ UNION {g.children : g \in Range(s.groups)} \subseteq refs
  BY DEF CoverageRefs
<1>2. coverage = Walk(s, refs)[<<root, {}>>]
  BY DEF sharedCoverageRequirements
<1>3. {} \in SUBSET Ids(s.groups)
  OBVIOUS
<1> HIDE DEF refs, coverage
<1>4. Right(s, coverage, root, {})
  BY <1>1, <1>2, <1>3, WalkRight
<1>5. Clear(s, root, {})
  BY DEF Clear
<1> QED
  BY <1>4, <1>5 DEF Right, coverage

(***************************************************************************)
(* The resolution.  What each stage knows of the request is what the       *)
(* stages before it have checked.                                          *)
(***************************************************************************)
NothingReported == [rule |-> NoRule, source |-> "none", unverified |-> FALSE]

(* Reported as read back from the shared contract, or past a check of it.  *)
Past(stages) == stage \in stages \/ outcome.source = "shared"

SourcesInv ==
  /\ TypeOK
  /\ stage # "resolved" => outcome = NothingReported
  /\ Past({"semantics", "bundle", "unit"}) => request.v2
  /\ Past({"bundle", "unit"}) => validateSharedCompleteness(request.cg, request.semantics)
  /\ Past({"unit"}) => validateSharedBundle(request.bundle, request.semantics)
  /\ Past({}) => sharedV2ApplicationUnit(request.bundle)

(* Nothing has been checked and nothing reported at first.                 *)
LEMMA InitSources == Init => SourcesInv
<1> SUFFICES ASSUME Init PROVE SourcesInv
  OBVIOUS
<1>1. /\ stage = "received" /\ outcome = NothingReported
      /\ (\E F \in Requests : request \in F) /\ upstreamInputMode \in BOOLEAN
  BY DEF Init, NothingReported
<1>2. outcome.rule = "no rule" /\ outcome.source = "none" /\ outcome.unverified = FALSE
  BY <1>1 DEF NothingReported, NoRule
<1>3. TypeOK
  BY <1>1, <1>2 DEF TypeOK, Stages
<1> QED
  BY <1>1, <1>2, <1>3 DEF SourcesInv, Past

(* A step from one stage to the next that reports nothing.                 *)
LEMMA StageStep ==
  ASSUME SourcesInv, NEW from \in Stages \ {"resolved"}, NEW to \in Stages \ {"resolved"},
         Step(from, to), UNCHANGED outcome,
         to \in {"semantics", "bundle", "unit"} => request.v2,
         to \in {"bundle", "unit"} => validateSharedCompleteness(request.cg, request.semantics),
         to = "unit" => validateSharedBundle(request.bundle, request.semantics)
  PROVE  SourcesInv'
<1>1. /\ stage = from /\ stage' = to /\ request' = request
      /\ upstreamInputMode' = upstreamInputMode /\ outcome' = outcome
  BY DEF Step
<1>2. outcome = NothingReported
  BY <1>1 DEF SourcesInv
<1>3. outcome.rule = "no rule" /\ outcome.source = "none" /\ outcome.unverified = FALSE
  BY <1>2 DEF NothingReported, NoRule
<1>4. TypeOK'
  BY <1>1 DEF SourcesInv, TypeOK
<1>5. (Past({}) => sharedV2ApplicationUnit(request.bundle))'
  BY <1>1, <1>3 DEF Past
<1>7. (stage # "resolved" => outcome = NothingReported)'
  BY <1>1, <1>2 DEF NothingReported
<1>8. (Past({"semantics", "bundle", "unit"}) => request.v2)'
  BY <1>1, <1>3 DEF Past
<1>9. (Past({"bundle", "unit"}) => validateSharedCompleteness(request.cg, request.semantics))'
  BY <1>1, <1>3 DEF Past
<1>10. (Past({"unit"}) => validateSharedBundle(request.bundle, request.semantics))'
  BY <1>1, <1>3 DEF Past
<1> QED
  BY <1>1, <1>4, <1>5, <1>7, <1>8, <1>9, <1>10 DEF SourcesInv

(* A resolution that is refused leaves what it knew.                       *)
LEMMA FailedStep ==
  ASSUME SourcesInv, NEW from \in Stages \ {"resolved"}, resolutionFailed(from)
  PROVE  SourcesInv'
BY StageStep DEF resolutionFailed, Stages

(* Every step keeps the invariant.                                         *)
LEMMA SourcesStep == SourcesInv /\ [Next]_vars => SourcesInv'
<1> SUFFICES ASSUME SourcesInv, [Next]_vars PROVE SourcesInv'
  OBVIOUS
<1>1. CASE resolveRequestedRuleInput
  <2>1. Mode \in Stages \ {"resolved"} /\ "received" \in Stages \ {"resolved"}
    BY DEF Mode, Stages
  <2>2. Mode \notin {"bundle", "unit"} /\ (Mode = "semantics" => request.v2)
    BY DEF Mode
  <2> QED
    BY <1>1, <2>1, <2>2, StageStep DEF resolveRequestedRuleInput
<1>2. CASE ValidateSemantics
  <2>1. CASE resolutionFailed("semantics")
    BY <2>1, FailedStep DEF Stages
  <2>2. CASE /\ validateSharedCompleteness(request.cg, request.semantics)
             /\ Step("semantics", "bundle") /\ UNCHANGED outcome
    <3>1. request.v2
      BY <2>2 DEF SourcesInv, Past, Step
    <3> QED
      BY <2>2, <3>1, StageStep DEF Stages
  <2> QED
    BY <1>2, <2>1, <2>2 DEF ValidateSemantics
<1>3. CASE ValidateBundle
  <2>1. CASE resolutionFailed("bundle")
    BY <2>1, FailedStep DEF Stages
  <2>2. CASE /\ validateSharedBundle(request.bundle, request.semantics)
             /\ Step("bundle", "unit") /\ UNCHANGED outcome
    <3>1. request.v2 /\ validateSharedCompleteness(request.cg, request.semantics)
      BY <2>2 DEF SourcesInv, Past, Step
    <3> QED
      BY <2>2, <3>1, StageStep DEF Stages
  <2> QED
    BY <1>3, <2>1, <2>2 DEF ValidateBundle
<1>4. CASE ReadUnit
  <2>1. CASE resolutionFailed("unit")
    BY <2>1, FailedStep DEF Stages
  <2>2. CASE /\ sharedV2ApplicationUnit(request.bundle)
             /\ reportResolvedRule("unit", UnitRule, "shared", FALSE)
    BY <2>2 DEF SourcesInv, TypeOK, Stages, Past, reportResolvedRule, Step
  <2> QED
    BY <1>4, <2>1, <2>2 DEF ReadUnit
<1>5. CASE executeScenarioByLocator
  <2>1. CASE resolutionFailed("locators")
    BY <2>1, FailedStep DEF Stages
  <2>2. CASE reportResolvedRule("locators", LocatorRule, "locators", FALSE)
    BY <2>2 DEF SourcesInv, TypeOK, Stages, Past, reportResolvedRule, Step
  <2> QED
    BY <1>5, <2>1, <2>2 DEF executeScenarioByLocator
<1>6. CASE executeScenarioUpstream
  <2>1. CASE resolutionFailed("upstream")
    BY <2>1, FailedStep DEF Stages
  <2>2. ASSUME NEW i \in selectByCapability(request.upstream),
               ReadCandidate(request.rows, request.upstream[i].key),
               reportResolvedRule("upstream",
                 request.rows[request.upstream[i].key].artifacts[
                   request.rows[request.upstream[i].key].primary].trimmed, "upstream", FALSE)
        PROVE  SourcesInv'
    BY <2>2 DEF SourcesInv, TypeOK, Stages, Past, reportResolvedRule, Step
  <2> QED
    BY <1>6, <2>1, <2>2 DEF executeScenarioUpstream
<1>7. CASE reportInlineCandidate
  <2>1. CASE resolutionFailed("inline")
    BY <2>1, FailedStep DEF Stages
  <2>2. CASE reportResolvedRule("inline", InlineRule, "inline", TRUE)
    BY <2>2 DEF SourcesInv, TypeOK, Stages, Past, reportResolvedRule, Step
  <2> QED
    BY <1>7, <2>1, <2>2 DEF reportInlineCandidate
<1>8. CASE UNCHANGED vars
  <2>1. /\ request' = request /\ stage' = stage /\ outcome' = outcome
        /\ upstreamInputMode' = upstreamInputMode
    BY <1>8 DEF vars
  <2>2. TypeOK'
    BY <2>1 DEF SourcesInv, TypeOK
  <2>3. (Past({}) => sharedV2ApplicationUnit(request.bundle))'
    BY <2>1 DEF SourcesInv, Past
  <2>4. (Past({"semantics", "bundle", "unit"}) => request.v2)'
    BY <2>1 DEF SourcesInv, Past
  <2>5. (Past({"bundle", "unit"}) => validateSharedCompleteness(request.cg, request.semantics))'
    BY <2>1 DEF SourcesInv, Past
  <2>6. (Past({"unit"}) => validateSharedBundle(request.bundle, request.semantics))'
    BY <2>1 DEF SourcesInv, Past
  <2> QED
    BY <2>1, <2>2, <2>3, <2>4, <2>5, <2>6 DEF SourcesInv, NothingReported
<1> QED
  BY <1>1, <1>2, <1>3, <1>4, <1>5, <1>6, <1>7, <1>8 DEF Next, Done

(* The invariant holds in every state of every resolution.                 *)
THEOREM SourcesInvariance == Spec => []SourcesInv
<1> QED
  BY InitSources, SourcesStep, PTL DEF Spec

(* The documents of a request for the shared contract are finite.          *)
LEMMA DocumentsFinite ==
  ASSUME SourcesInv, request.v2
  PROVE  FiniteDocuments(request.cg, request.semantics, request.bundle)
<1>1. PICK F \in Requests : request \in F
  BY DEF SourcesInv, TypeOK
<1>2. PossibleRequest(request)
  BY <1>1, RequestsArePossible
<1> QED
  BY <1>2 DEF PossibleRequest

(* The closure walk finds exactly what can be reached, and refuses exactly *)
(* the coverage that has a cycle, an unknown or foreign reference, or a    *)
(* group that misstates its members: for every document.                   *)
THEOREM WalkIsReachability == Spec => []CoverageIsReachability
<1>1. SourcesInv => CoverageIsReachability
  <2> SUFFICES ASSUME SourcesInv, stage = "semantics",
                      NEW o \in Range(request.semantics.obligations),
                      Distinct(request.semantics.components), Distinct(request.semantics.groups)
               PROVE  LET s == request.semantics
                          coverage == sharedCoverageRequirements(o.coverage, s)
                      IN  /\ coverage.ok <=> WellCovered(s, o.coverage)
                          /\ coverage.ok => /\ coverage.inputs = InputsBelow(s, o.coverage)
                                            /\ coverage.members = MembersBelow(s, o.coverage)
    BY DEF CoverageIsReachability
  <2>1. request.v2
    BY DEF SourcesInv, Past
  <2>2. FiniteSemantics(request.semantics)
    BY <2>1, DocumentsFinite DEF FiniteDocuments, FiniteSemantics
  <2> QED
    BY <2>2, CoverageRight
<1> QED
  BY <1>1, SourcesInvariance, PTL

(***************************************************************************)
(* The counts that validateSharedCompleteness compares.                    *)
(***************************************************************************)

(* Two disjoint parts of a finite set whose sizes add up to its size are   *)
(* all of it.                                                              *)
LEMMA PartitionCovers ==
  ASSUME NEW S, IsFiniteSet(S), NEW A \in SUBSET S, NEW B \in SUBSET S, Partition(A, B, S)
  PROVE  A \union B = S /\ A \intersect B = {}
<1>1. IsFiniteSet(A) /\ IsFiniteSet(B) /\ Cardinality(A) \in Nat /\ Cardinality(B) \in Nat
  BY FS_Subset, FS_CardinalityType
<1>2. A \intersect B = {} /\ Cardinality(A) + Cardinality(B) = Cardinality(S)
  BY DEF Partition
<1>3. Cardinality(A \union B) = Cardinality(A) + Cardinality(B) - Cardinality(A \intersect B)
  BY <1>1, FS_Union
<1>4. Cardinality(A \intersect B) = 0
  BY <1>2, FS_EmptySet
<1>5. Cardinality(A \union B) = Cardinality(S)
  BY <1>1, <1>2, <1>3, <1>4
<1>6. A \union B \in SUBSET S
  OBVIOUS
<1> QED
  BY <1>2, <1>5, <1>6, FS_Subset

(* References into an index are ids of it.                                 *)
LEMMA IntoIds ==
  ASSUME NEW refs, NEW kind, NEW ids, Into(refs, kind, ids)
  PROVE  Range(IdsOf(refs)) \subseteq ids
BY DEF Into, IdsOf, Range

(* The reference that a list of one holds.                                 *)
LEMMA IntoOne ==
  ASSUME NEW ref, NEW kind, NEW ids, Into(<<ref>>, kind, ids)
  PROVE  ref.kind = kind /\ ref.id \in ids
<1>1. 1 \in DOMAIN <<ref>> /\ <<ref>>[1] = ref
  OBVIOUS
<1> QED
  BY <1>1 DEF Into

(* What validateSharedCompleteness has established about the sources.      *)
LEMMA CompletenessPartitions ==
  ASSUME NEW cg, NEW s, Listed(cg.inputs), Listed(s.artifacts), validateSharedCompleteness(cg, s)
  PROVE  LET Either(x, A, B) == (x \in A) # (x \in B)
         IN  /\ \A x \in Ids(cg.members) : Either(x, RepresentedMembers(s), UnsupportedMembers(s))
             /\ \A x \in Ids(cg.artifacts) :
                  Either(x, RepresentedArtifacts(s), UnsupportedArtifacts(s))
             /\ \A x \in Ids(cg.inputs) : Either(x, Ids(s.inputs), UnsupportedInputs(s))
             /\ RepresentedArtifacts(s) = {a.id : a \in Referring(cg)}
<1>1. /\ SameSources(cg, s) /\ InputsTraced(cg, s) /\ DimensionsValid(cg, s)
      /\ SourcesAccounted(cg, s)
  BY DEF validateSharedCompleteness
<1>2. ASSUME NEW x \in Ids(cg.members)
      PROVE  (x \in RepresentedMembers(s)) # (x \in UnsupportedMembers(s))
  BY <1>1 DEF SameSources, SourcesAccounted, Partition
<1>3. RepresentedArtifacts(s) \in SUBSET Ids(s.artifacts)
  <2>1. ASSUME NEW x \in Range(s.inputs) PROVE x.artifact.id \in Ids(s.artifacts)
    <3>1. Into(<<x.artifact>>, "source-artifact", Ids(s.artifacts))
      BY <1>1 DEF InputsTraced
    <3> QED
      BY <3>1, IntoOne
  <2> QED
    BY <2>1 DEF RepresentedArtifacts
<1>4. UnsupportedArtifacts(s) \in SUBSET Ids(s.artifacts) /\ UnsupportedInputs(s) \in SUBSET Ids(cg.inputs)
  <2>1. ASSUME NEW d \in Range(s.unsupported)
        PROVE  /\ Range(IdsOf(d.artifacts)) \subseteq Ids(s.artifacts)
               /\ Range(IdsOf(d.inputs)) \subseteq Ids(cg.inputs)
    BY <1>1, IntoIds DEF DimensionsValid
  <2> QED
    BY <2>1 DEF UnsupportedArtifacts, UnsupportedInputs
<1>5. Ids(s.inputs) \in SUBSET Ids(cg.inputs) /\ Ids(s.artifacts) = Ids(cg.artifacts)
  BY <1>1 DEF SameSources
<1>6. IsFiniteSet(Ids(s.artifacts)) /\ IsFiniteSet(Ids(cg.inputs))
  BY ListFinite
<1>7. ASSUME NEW x \in Ids(cg.artifacts)
      PROVE  (x \in RepresentedArtifacts(s)) # (x \in UnsupportedArtifacts(s))
  <2>1. Partition(RepresentedArtifacts(s), UnsupportedArtifacts(s), Ids(s.artifacts))
    BY <1>1 DEF SourcesAccounted
  <2>2. /\ RepresentedArtifacts(s) \union UnsupportedArtifacts(s) = Ids(s.artifacts)
        /\ RepresentedArtifacts(s) \intersect UnsupportedArtifacts(s) = {}
    BY <1>3, <1>4, <1>6, <2>1, PartitionCovers
  <2> QED
    BY <1>5, <2>2
<1>8. ASSUME NEW x \in Ids(cg.inputs)
      PROVE  (x \in Ids(s.inputs)) # (x \in UnsupportedInputs(s))
  <2>1. Partition(Ids(s.inputs), UnsupportedInputs(s), Ids(cg.inputs))
    BY <1>1 DEF SourcesAccounted
  <2>2. /\ Ids(s.inputs) \union UnsupportedInputs(s) = Ids(cg.inputs)
        /\ Ids(s.inputs) \intersect UnsupportedInputs(s) = {}
    BY <1>4, <1>5, <1>6, <2>1, PartitionCovers
  <2> QED
    BY <2>2
<1>9. RepresentedArtifacts(s) = {a.id : a \in Referring(cg)}
  <2>1. \A a \in Range(cg.artifacts) : a.id \in RepresentedArtifacts(s) <=> a.refers
    BY <1>1 DEF SourcesAccounted
  <2>2. ASSUME NEW x \in RepresentedArtifacts(s) PROVE x \in {a.id : a \in Referring(cg)}
    <3>1. PICK a \in Range(cg.artifacts) : a.id = x
      BY <1>3, <1>5 DEF Ids, Range
    <3> QED
      BY <2>1, <3>1 DEF Referring
  <2> QED
    BY <2>1, <2>2 DEF Referring
<1> QED
  BY <1>2, <1>7, <1>8, <1>9

(* Every member, artifact and input of a check-generation result that      *)
(* passed is represented or declared unsupported, and never both, although *)
(* the code compares counts: the parts are within the whole, disjoint, and *)
(* the whole is finite.                                                    *)
THEOREM SourcesArePartitioned == Spec => []SourcesPartitioned
<1>1. SourcesInv => SourcesPartitioned
  <2> SUFFICES ASSUME SourcesInv, stage \in {"bundle", "unit"} \/ outcome.source = "shared"
               PROVE  SourcesPartitioned
    BY DEF SourcesPartitioned
  <2>1. request.v2 /\ validateSharedCompleteness(request.cg, request.semantics)
    BY DEF SourcesInv, Past
  <2>2. Listed(request.cg.inputs) /\ Listed(request.semantics.artifacts)
    BY <2>1, DocumentsFinite DEF FiniteDocuments
  <2> QED
    BY <2>1, <2>2, CompletenessPartitions DEF SourcesPartitioned
<1> QED
  BY <1>1, SourcesInvariance, PTL

(***************************************************************************)
(* What validateSharedBundle has established about the unit.               *)
(***************************************************************************)

(* Where ids are distinct, Named finds the item that has the id.           *)
LEMMA NamedUnique ==
  ASSUME NEW items, Distinct(items), NEW x \in Range(items)
  PROVE  Named(items, x.id) = x
<1>1. x.id \in Ids(items)
  BY DEF Ids, Range
<1>2. Named(items, x.id) \in Range(items) /\ Named(items, x.id).id = x.id
  BY <1>1, NamedIs
<1> QED
  BY <1>2 DEF Distinct, Range

(* In array order an artifact comes after what it depends on.              *)
LEMMA DependenciesBefore ==
  ASSUME NEW b, Listed(b.artifacts), ArtifactsOrdered(b), DependenciesOrdered(b),
         NEW i \in DOMAIN b.artifacts, NEW d \in Range(IdsOf(b.artifacts[i].dependsOn))
  PROVE  \E j \in 1..(i - 1) : d = b.artifacts[j].id
<1> DEFINE a == b.artifacts[i]
           e == Named(b.artifacts, d)
<1>1. a \in Range(b.artifacts) /\ a.order = i - 1
  BY DEF ArtifactsOrdered, Range
<1>2. d \in Ids(b.artifacts) /\ e.order < a.order
  BY <1>1, IntoIds DEF DependenciesOrdered, checkedRefs
<1>3. e \in Range(b.artifacts) /\ e.id = d
  BY <1>2, NamedIs
<1>4. PICK j \in DOMAIN b.artifacts : e = b.artifacts[j]
  BY <1>3 DEF Range
<1>5. e.order = j - 1
  BY <1>4 DEF ArtifactsOrdered
<1>6. Len(b.artifacts) \in Nat /\ DOMAIN b.artifacts = 1..Len(b.artifacts)
  BY ListFinite
<1>7. i \in Nat /\ j \in Nat /\ 1 <= j
  BY <1>6
<1>8. j - 1 < i - 1
  BY <1>1, <1>2, <1>5
<1>9. j \in 1..(i - 1)
  BY <1>7, <1>8
<1> QED
  BY <1>3, <1>4, <1>9

(* An artifact is in one atomic group.                                     *)
LEMMA InOneGroup ==
  ASSUME NEW b, Listed(b.groups), GroupsValid(b), NEW a \in Range(b.artifacts)
  PROVE  \E i \in DOMAIN b.groups : Memberships(b, a.id) = {i}
<1> DEFINE M == Memberships(b, a.id)
<1>1. M \in SUBSET DOMAIN b.groups
  BY DEF Memberships
<1>2. IsFiniteSet(M)
  BY <1>1, ListFinite, FS_Subset
<1>3. Cardinality(M) = 1
  BY DEF GroupsValid
<1>4. PICK i : M = {i}
  BY <1>2, <1>3, FS_Singleton
<1> QED
  BY <1>1, <1>4

(* An obligation has one mapping, to the members that its coverage reaches.*)
LEMMA MappedOnce ==
  ASSUME NEW b, NEW s, FiniteSemantics(s), \A m \in Range(b.mappings) : Listed(m.members),
         Distinct(s.obligations), MappingsExact(b, s), NEW o \in Range(s.obligations)
  PROVE  \E i \in DOMAIN b.mappings :
           /\ {j \in DOMAIN b.mappings : b.mappings[j].id = o.id} = {i}
           /\ Range(IdsOf(b.mappings[i].members)) = MembersBelow(s, o.coverage)
<1>1. o.id \in Ids(b.mappings) /\ Distinct(b.mappings)
  BY DEF MappingsExact, Ids, Range
<1>2. PICK i \in DOMAIN b.mappings : b.mappings[i].id = o.id
  BY <1>1 DEF Ids
<1>3. {j \in DOMAIN b.mappings : b.mappings[j].id = o.id} = {i}
  BY <1>1, <1>2 DEF Distinct
<1> DEFINE m == b.mappings[i]
           coverage == sharedCoverageRequirements(o.coverage, s)
           listed == IdsOf(m.members)
<1>4. m \in Range(b.mappings)
  BY DEF Range
<1>5. Named(s.obligations, m.id) = o
  BY <1>2, NamedUnique
<1>6. coverage.ok /\ sameAsKeys(coverage.members, listed)
  BY <1>4, <1>5 DEF MappingsExact
<1>7. Distinct(s.components) /\ Distinct(s.groups)
  BY <1>6 DEF sharedCoverageRequirements, Uncovered
<1>8. coverage.members = MembersBelow(s, o.coverage)
  BY <1>6, <1>7, CoverageRight
<1>9. IsFiniteSet(MembersBelow(s, o.coverage))
  BY MembersBelowFinite DEF FiniteSemantics
<1>10. Listed(listed)
  BY <1>4, IdsOfListed
<1>11. Range(listed) = MembersBelow(s, o.coverage)
  BY <1>6, <1>8, <1>9, <1>10, SameAsKeysExact
<1> QED
  BY <1>3, <1>11

(* A unit that is reported as read back can be applied.                    *)
THEOREM UnitsCanBeApplied == Spec => []UnitCanBeApplied
<1>1. SourcesInv => UnitCanBeApplied
  <2> SUFFICES ASSUME SourcesInv, outcome.source = "shared" PROVE UnitCanBeApplied
    BY DEF UnitCanBeApplied
  <2> DEFINE b == request.bundle
             s == request.semantics
  <2>1. /\ request.v2 /\ validateSharedCompleteness(request.cg, s)
        /\ validateSharedBundle(b, s)
    BY DEF SourcesInv, Past
  <2>2. FiniteDocuments(request.cg, s, b)
    BY <2>1, DocumentsFinite
  <2>3. /\ ArtifactsOrdered(b) /\ GroupsValid(b) /\ DependenciesOrdered(b) /\ MappingsExact(b, s)
        /\ Distinct(s.obligations)
    BY <2>1 DEF validateSharedBundle, validateSharedCompleteness, ObligationsCovered
  <2>4. /\ Listed(b.artifacts) /\ Listed(b.groups) /\ FiniteSemantics(s)
        /\ \A m \in Range(b.mappings) : Listed(m.members)
    BY <2>2 DEF FiniteDocuments, FiniteSemantics
  <2>5. ASSUME NEW i \in DOMAIN b.artifacts
        PROVE  Range(IdsOf(b.artifacts[i].dependsOn)) \subseteq {b.artifacts[j].id : j \in 1..(i - 1)}
    BY <2>3, <2>4, DependenciesBefore
  <2>6. ASSUME NEW a \in Range(b.artifacts)
        PROVE  \E i \in DOMAIN b.groups : Memberships(b, a.id) = {i}
    BY <2>3, <2>4, InOneGroup
  <2>7. ASSUME NEW o \in Range(s.obligations)
        PROVE  \E i \in DOMAIN b.mappings :
                 /\ {j \in DOMAIN b.mappings : b.mappings[j].id = o.id} = {i}
                 /\ Range(IdsOf(b.mappings[i].members)) = MembersBelow(s, o.coverage)
    BY <2>3, <2>4, MappedOnce
  <2> QED
    BY <2>5, <2>6, <2>7 DEF UnitCanBeApplied
<1> QED
  BY <1>1, SourcesInvariance, PTL

(* A list in which no two items have the same key has as many keys as      *)
(* items.                                                                  *)
LEMMA KeysCounted ==
  ASSUME NEW l, Listed(l), \A i, j \in DOMAIN l : Key(l[i]) = Key(l[j]) => i = j
  PROVE  LET K == {Key(l[i]) : i \in DOMAIN l}
         IN  IsFiniteSet(K) /\ Cardinality(K) = Len(l)
<1> DEFINE K == {Key(l[i]) : i \in DOMAIN l}
           f == [i \in DOMAIN l |-> Key(l[i])]
<1>1. IsFiniteSet(DOMAIN l) /\ Cardinality(DOMAIN l) = Len(l)
  BY ListFinite
<1>2. /\ DOMAIN f = DOMAIN l /\ f \in [DOMAIN l -> K]
      /\ \A i \in DOMAIN l : f[i] = Key(l[i])
  OBVIOUS
<1>3. \A t \in K : \E i \in DOMAIN l : f[i] = t
  OBVIOUS
<1> HIDE DEF f, K
<1>4. f \in Surjection(DOMAIN l, K)
  BY <1>2, <1>3 DEF Surjection
<1>5. f \in Injection(DOMAIN l, K)
  BY <1>2 DEF Injection, IsInjective
<1>6. IsFiniteSet(K) /\ Cardinality(K) = Len(l)
  BY <1>1, <1>4, <1>5, FS_Surjection
<1> QED
  BY <1>6 DEF K

(* Rules and bindings of a unit that is read back belong to each other:    *)
(* the keys of the rules are among those of the bindings and as many, so   *)
(* they are all of them.                                                   *)
THEOREM RulesAndBindingsArePaired == Spec => []RulesAndBindingsPair
<1>1. SourcesInv => RulesAndBindingsPair
  <2> SUFFICES ASSUME SourcesInv, outcome.source = "shared" PROVE RulesAndBindingsPair
    BY DEF RulesAndBindingsPair
  <2> DEFINE rules == request.bundle.rules
             bindings == request.bundle.bindings
             KR == {Key(rules[i]) : i \in DOMAIN rules}
             KB == {Key(bindings[j]) : j \in DOMAIN bindings}
  <2>1. request.v2 /\ sharedV2ApplicationUnit(request.bundle)
    BY DEF SourcesInv, Past
  <2>2. Listed(rules) /\ Listed(bindings)
    BY <2>1, DocumentsFinite DEF FiniteDocuments
  <2>3. /\ Len(rules) = Len(bindings)
        /\ \A i, j \in DOMAIN bindings : Key(bindings[i]) = Key(bindings[j]) => i = j
        /\ \A i \in DOMAIN rules : \E j \in DOMAIN bindings : Key(rules[i]) = Key(bindings[j])
    BY <2>1 DEF sharedV2ApplicationUnit, Counted
  <2>4. IsFiniteSet(KB) /\ Cardinality(KB) = Len(bindings)
    BY <2>2, <2>3, KeysCounted
  <2>5. KR \in SUBSET KB
    BY <2>3
  <2>6. ASSUME NEW i \in DOMAIN rules
        PROVE  \E j \in DOMAIN bindings :
                 {k \in DOMAIN bindings : Key(bindings[k]) = Key(rules[i])} = {j}
    <3>1. PICK j \in DOMAIN bindings : Key(rules[i]) = Key(bindings[j])
      BY <2>3
    <3>2. {k \in DOMAIN bindings : Key(bindings[k]) = Key(rules[i])} = {j}
      BY <2>3, <3>1
    <3> QED
      BY <3>2
  <2>7. ASSUME \A i, j \in DOMAIN rules : Key(rules[i]) = Key(rules[j]) => i = j,
               NEW j \in DOMAIN bindings
        PROVE  \E i \in DOMAIN rules :
                 {k \in DOMAIN rules : Key(rules[k]) = Key(bindings[j])} = {i}
    <3>1. IsFiniteSet(KR) /\ Cardinality(KR) = Len(rules)
      BY <2>2, <2>7, KeysCounted
    <3>2. KR = KB
      BY <2>3, <2>4, <2>5, <3>1, FS_Subset
    <3>3. PICK i \in DOMAIN rules : Key(rules[i]) = Key(bindings[j])
      BY <3>2
    <3>4. {k \in DOMAIN rules : Key(rules[k]) = Key(bindings[j])} = {i}
      BY <2>7, <3>3
    <3> QED
      BY <3>4
  <2> QED
    BY <2>6, <2>7 DEF RulesAndBindingsPair
<1> QED
  BY <1>1, SourcesInvariance, PTL
=============================================================================
