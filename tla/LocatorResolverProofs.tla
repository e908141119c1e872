----------------------- MODULE LocatorResolverProofs -----------------------
(***************************************************************************)
(* What the resolution of locators guarantees for any number of            *)
(* executions, whatever documents the stores hold and whoever rewrites     *)
(* them.                                                                   *)
(***************************************************************************)
EXTENDS LocatorResolver, TLAPS

(* The locators of the request were accepted.                              *)
Validated ==
  IF Legacy THEN validateLocatorRequest(request)
  ELSE validateV2LocatorRequest(request)

(* The Defense Generation result held by x has been verified.              *)
DocGood(x) ==
  /\ x.doc = request.defense.digest.of
  /\ x.doc.id = request.defense.id
  /\ x.doc.content \in Supported[request.route]

(* The Check Generation result held by x has been verified.                *)
CheckGood(x) ==
  /\ x.check = [result |-> request.check.digest.result,
                evidence |-> request.check.digest.evidence]
  /\ x.check.result.id = request.check.id
  /\ validateSharedCGDocument(request, x.check.result)

(* A payload of the row passes all that is asked of it.                    *)
Passes(row, stored) ==
  /\ verifyLogical(request, row, stored)
  /\ validateSharedCGDocument(request, stored.result)

(* What an execution has verified, place by place.                         *)
Verifying(x) ==
  /\ x.pc \in {"defense", "check", "volume", "resolved"} =>
       Validated
  /\ x.pc \in {"check", "volume"} /\ Legacy => DocGood(x)
  /\ x.pc = "defense" /\ ~Legacy => CheckGood(x)
  /\ x.pc = "resolved" => DocGood(x) /\ CheckGood(x)
  /\ x.pc = "resolved" /\ ~Legacy => x.doc.bound = x.check.result
  /\ x.pc = "volume" => x.row \in CheckRow /\ x.row.json \in Manifest

(* Everything is as the producers of o left it.                            *)
Untouched(o) ==
  /\ request = requestOf(o)
  /\ defenseTable = <<defenseRowOf(o)>>
  /\ checkTable = <<checkRowOf(o)>>
  /\ o.manifest => volume[storedOf(o)] = storedOf(o)
  /\ \A e \in Executions :
       /\ exec[e].pc # "refused"
       /\ exec[e].pc = "volume" => exec[e].row = checkRowOf(o) /\ o.manifest

(* The inductive invariant of the resolution.                              *)
ResolverInv ==
  /\ TypeOK
  /\ \A e \in Executions : Verifying(exec[e])
  /\ honest => \E o \in Originals : Untouched(o)

-----------------------------------------------------------------------------
(* What a producer publishes are documents, rows and locators.             *)
LEMMA PublishedTypes ==
  ASSUME NEW o \in Originals
  PROVE  /\ o \in Original /\ Sound(o)
         /\ resultOf(o) \in Result /\ docOf(o) \in DefenseDoc
         /\ defenseRowOf(o) \in DefenseRow
         /\ storedOf(o) \in Stored /\ storedOf(o) \in Payloads
         /\ checkRowOf(o) \in CheckRow
         /\ requestOf(o) \in Request
<1>1. o \in Original /\ Sound(o)
  BY LocatorConstants
<1>2. resultOf(o) \in Result
  BY <1>1 DEF Original, resultOf, Result
<1>3. docOf(o) \in DefenseDoc
  BY <1>1, <1>2 DEF Original, docOf, DefenseDoc
<1>4. defenseDigestOf(o) \in DefenseDigest
  BY <1>3 DEF defenseDigestOf, DefenseDigest
<1>5. defenseRowOf(o) \in DefenseRow
  BY <1>1, <1>3, <1>4 DEF Original, defenseRowOf, DefenseRow
<1>6. storedOf(o) \in Stored /\ storedOf(o) \in Payloads
  BY <1>1, <1>2 DEF Original, storedOf, Stored, Payloads
<1>7. jsonOf(o) \in Stored \union Manifest
  BY <1>6 DEF jsonOf, Manifest
<1>8. coreOf(o) \in Core
  BY <1>1, <1>2 DEF Original, coreOf, Core
<1>9. checkRowOf(o) \in CheckRow
  <2> DEFINE c == [wellFormed |-> TRUE, contract |-> o.route, id |-> o.checkId,
                   digest |-> coreOf(o), evidence |-> o.evidence, at |-> o.at,
                   zone |-> "Z"]
  <2>1. c \in Completion
    BY <1>1, <1>8 DEF Original, Completion, Zones
  <2> HIDE DEF c
  <2>2. [id |-> o.checkId, json |-> jsonOf(o), sha |-> jsonOf(o), at |-> o.at,
         completion |-> c] \in CheckRow
    BY <1>1, <1>7, <2>1 DEF Original, CheckRow
  <2> QED
    BY <2>2 DEF checkRowOf, c
<1>10. requestOf(o) \in Request
  BY <1>1, <1>4, <1>8 DEF Original, requestOf, Request, DefenseLocator,
                          CheckLocator
<1> QED
  BY <1>1, <1>2, <1>3, <1>5, <1>6, <1>9, <1>10

(* The resolution starts in the invariant.                                 *)
LEMMA InitResolver == Init => ResolverInv
<1> SUFFICES ASSUME Init PROVE ResolverInv
  OBVIOUS
<1>1. PICK o \in Originals :
        /\ request \in Requests \union {requestOf(o)}
        /\ honest = (request = requestOf(o))
        /\ defenseTable = <<defenseRowOf(o)>>
        /\ checkTable = <<checkRowOf(o)>>
        /\ volume = [f \in Payloads |-> IF o.manifest /\ f = storedOf(o)
                                        THEN f ELSE NoFile]
        /\ exec = [e \in Executions |-> Fresh]
  BY DEF Init
<1>2. /\ defenseRowOf(o) \in DefenseRow /\ checkRowOf(o) \in CheckRow
      /\ requestOf(o) \in Request /\ storedOf(o) \in Stored
      /\ storedOf(o) \in Payloads
  BY PublishedTypes
<1>3. Fresh \in Execution
  BY DEF Fresh, Execution, Places
<1>4. volume \in [Payloads -> File]
  BY <1>1, <1>2 DEF File
<1>5. TypeOK
  BY <1>1, <1>2, <1>3, <1>4, LocatorConstants DEF TypeOK
<1>6. \A e \in Executions : Verifying(exec[e])
  BY <1>1 DEF Fresh, Verifying
<1>7. honest => Untouched(o)
  BY <1>1, <1>2 DEF Untouched, Fresh
<1> QED
  BY <1>1, <1>5, <1>6, <1>7 DEF ResolverInv

(* An execution that moves on keeps the invariant if what it holds is      *)
(* verified and, as long as nobody interfered, it is not refused.          *)
LEMMA OwnStep ==
  ASSUME ResolverInv, NEW e \in Executions, NEW y \in Execution, Become(e, y),
         Verifying(y),
         \A o \in Originals : honest /\ Untouched(o) =>
           /\ y.pc # "refused"
           /\ y.pc = "volume" => y.row = checkRowOf(o) /\ o.manifest
  PROVE  ResolverInv'
<1>1. /\ exec' = [exec EXCEPT ![e] = y]
      /\ UNCHANGED <<request, defenseTable, checkTable, volume, honest>>
  BY DEF Become
<1>2. TypeOK'
  BY <1>1 DEF ResolverInv, TypeOK
<1>3. \A f \in Executions : exec'[f] = IF f = e THEN y ELSE exec[f]
  BY <1>1 DEF ResolverInv, TypeOK
<1>4. \A f \in Executions : Verifying(exec[f])'
  <2> SUFFICES ASSUME NEW f \in Executions PROVE Verifying(exec[f])'
    OBVIOUS
  <2>1. Verifying(exec'[f])
    BY <1>3 DEF ResolverInv
  <2>2. UNCHANGED request
    BY <1>1
  <2> QED
    BY <2>1, <2>2 DEF Verifying, DocGood, CheckGood, Legacy, Validated
<1>5. honest' => \E o \in Originals : Untouched(o)'
  <2> SUFFICES ASSUME honest PROVE \E o \in Originals : Untouched(o)'
    BY <1>1
  <2>1. PICK o \in Originals : Untouched(o)
    BY DEF ResolverInv
  <2>2. Untouched(o)'
    BY <1>1, <1>3, <2>1 DEF Untouched
  <2> QED
    BY <2>2
<1> QED
  BY <1>2, <1>4, <1>5 DEF ResolverInv

(* An execution before its step.                                           *)
LEMMA BeforeStep ==
  ASSUME ResolverInv, NEW e \in Executions
  PROVE  exec[e] \in Execution /\ Verifying(exec[e]) /\ request \in Request
BY DEF ResolverInv, TypeOK

(* What producers published passes every check.                            *)
LEMMA HonestAccepted ==
  ASSUME NEW o \in Originals, request = requestOf(o)
  PROVE  /\ Validated
         /\ verifyDefenseRow(request, defenseRowOf(o))
         /\ verifyPhysical(request, checkRowOf(o))
         /\ Passes(checkRowOf(o), storedOf(o))
         /\ Passes(checkRowOf(o), AsRead(storedOf(o)))
<1>1. o \in Original /\ Sound(o)
  BY PublishedTypes
<1>2. Validated
  BY <1>1 DEF Sound, requestOf, Validated, Legacy, validateLocatorRequest,
              validateV2LocatorRequest, Related, Original, Routes
<1>3. verifyDefenseRow(request, defenseRowOf(o))
  <2>1. defenseDigestOf(o) = unsigned(o.route, docOf(o))
    BY <1>1 DEF defenseDigestOf, unsigned, Digest, docOf, Original, Routes
  <2> QED
    BY <1>1, <2>1 DEF Sound, requestOf, defenseRowOf, docOf, verifyDefenseRow
<1>4. verifyPhysical(request, checkRowOf(o))
  <2>1. CASE o.manifest
    BY <2>1 DEF requestOf, checkRowOf, jsonOf, verifyPhysical, AsRead
  <2>2. CASE ~o.manifest
    BY <2>2 DEF requestOf, checkRowOf, jsonOf, storedOf, verifyPhysical, NoSha
  <2> QED
    BY <2>1, <2>2
<1>5. ASSUME NEW s, s.id = o.checkId, s.result = resultOf(o)
      PROVE  Passes(checkRowOf(o), s)
  <2> DEFINE c == checkRowOf(o).completion
  <2>1. core(c, resultOf(o), o.zone) = coreOf(o)
    BY DEF core, coreOf, checkRowOf
  <2>2. o.zone \in {"Z", "+00:00"} /\ c.zone = "Z"
    BY <1>1 DEF Original, Zones, checkRowOf
  <2>3. logicalMatches(request, c, resultOf(o))
    BY <2>1, <2>2 DEF logicalMatches, requestOf
  <2>4. verifyLogical(request, checkRowOf(o), s)
    BY <1>5, <2>3 DEF verifyLogical, requestOf, checkRowOf, resultOf
  <2>5. validateSharedCGDocument(request, s.result)
    BY <1>1, <1>5 DEF Sound, validateSharedCGDocument, requestOf, resultOf
  <2> QED
    BY <2>4, <2>5 DEF Passes
<1>6. Passes(checkRowOf(o), storedOf(o))
  BY <1>5 DEF storedOf
<1>7. Passes(checkRowOf(o), AsRead(storedOf(o)))
  BY <1>5 DEF storedOf, AsRead
<1> QED
  BY <1>2, <1>3, <1>4, <1>6, <1>7

(* The payload that passes verifyLogical is the one the locator pins.      *)
LEMMA LogicalIsPinned ==
  ASSUME NEW q, NEW row, NEW stored, verifyLogical(q, row, stored)
  PROVE  /\ stored.result = q.check.digest.result
         /\ row.completion.evidence = q.check.digest.evidence
         /\ stored.result.id = q.check.id
<1> DEFINE c == row.completion
<1>1. PICK zone : core(c, stored.result, zone) = q.check.digest
  BY DEF verifyLogical, logicalMatches
<1>2. /\ core(c, stored.result, zone).result = stored.result
      /\ core(c, stored.result, zone).evidence = c.evidence
  BY DEF core
<1> QED
  BY <1>1, <1>2 DEF verifyLogical

(* Starting, and giving up on a call, keep the invariant.                  *)
LEMMA SmallSteps ==
  ASSUME ResolverInv, NEW e \in Executions,
         \/ Resolve(e) \/ ResolveV2(e)
         \/ StatementFails(e) \/ FileRequestFails(e)
  PROVE  ResolverInv'
<1>1. exec[e] \in Execution /\ Verifying(exec[e]) /\ request \in Request
  BY BeforeStep
<1>2. PICK pc \in {"refused", "defense", "check", "unavailable"} :
        /\ GiveUp(e, pc)
        /\ pc = "refused" => ~Validated
        /\ pc = "defense" => Validated /\ Legacy
        /\ pc = "check" => Validated /\ ~Legacy
  BY DEF Resolve, ResolveV2, StatementFails, FileRequestFails, Validated
<1> DEFINE y == [exec[e] EXCEPT !.pc = pc]
<1>3. y \in Execution /\ y.pc = pc
  BY <1>1 DEF Execution, Places
<1>4. Become(e, y)
  BY <1>2 DEF GiveUp
<1>5. Verifying(y)
  BY <1>2, <1>3 DEF Verifying
<1>6. ASSUME NEW o \in Originals, Untouched(o)
      PROVE  y.pc # "refused" /\ y.pc # "volume"
  BY <1>2, <1>3, <1>6, HonestAccepted DEF Untouched
<1> HIDE DEF y
<1> QED
  BY <1>3, <1>4, <1>5, <1>6, OwnStep

(* Reading the Defense Generation row keeps the invariant.                 *)
LEMMA DefenseStep ==
  ASSUME ResolverInv, NEW e \in Executions,
         ReadDefense(e) \/ ReadSharedDefense(e)
  PROVE  ResolverInv'
<1> DEFINE x == exec[e]
           doc == defenseTable[1].doc
           ok == /\ Len(defenseTable) = 1
                 /\ verifyDefenseRow(request, defenseTable[1])
                 /\ ~Legacy => validateSharedBundle(doc, x.check.result)
<1>1. x \in Execution /\ Verifying(x) /\ request \in Request /\ x.pc = "defense"
  BY BeforeStep DEF ReadDefense, ReadSharedDefense
<1>2. CASE ok
  <2> DEFINE pc == IF Legacy THEN "check" ELSE "resolved"
             y == [x EXCEPT !.doc = doc, !.pc = pc]
  <2>1. Become(e, y)
    BY <1>2 DEF ReadDefense, ReadSharedDefense, validateSharedDefenseRow
  <2>2. doc \in DefenseDoc
    <3>1. defenseTable \in Seq(DefenseRow) /\ Len(defenseTable) = 1
      BY <1>2 DEF ResolverInv, TypeOK
    <3>2. defenseTable[1] \in DefenseRow
      BY <3>1
    <3> QED
      BY <3>2 DEF DefenseRow
  <2>3. /\ y \in Execution /\ y.pc = pc /\ y.doc = doc /\ y.check = x.check
    BY <1>1, <2>2 DEF Execution, Places
  <2>4. DocGood(y)
    <3>1. /\ doc.id = request.defense.id
          /\ unsigned(request.route, doc) = request.defense.digest
          /\ doc.content \in Supported[request.route]
      BY <1>2 DEF verifyDefenseRow
    <3>2. unsigned(request.route, doc).of = doc
      BY DEF unsigned, Digest
    <3> QED
      BY <2>3, <3>1, <3>2 DEF DocGood
  <2>5. ~Legacy => CheckGood(y) /\ y.doc.bound = y.check.result
    <3>1. ~Legacy => CheckGood(y)
      BY <1>1, <2>3 DEF Verifying, CheckGood
    <3> QED
      BY <1>2, <2>3, <3>1 DEF validateSharedBundle
  <2>6. Verifying(y)
    <3>1. Validated
      BY <1>1 DEF Verifying
    <3>2. pc \in {"check", "resolved"} /\ (pc = "check" <=> Legacy)
      OBVIOUS
    <3> HIDE DEF y, pc
    <3> QED
      BY <2>3, <2>4, <2>5, <3>1, <3>2 DEF Verifying
  <2>7. y.pc # "refused" /\ y.pc # "volume"
    BY <2>3
  <2> HIDE DEF y
  <2> QED
    BY <2>1, <2>3, <2>6, <2>7, OwnStep
<1>3. CASE ~ok
  <2> DEFINE y == [x EXCEPT !.pc = "refused"]
  <2>1. Become(e, y)
    BY <1>3 DEF ReadDefense, ReadSharedDefense, validateSharedDefenseRow,
                GiveUp
  <2>2. y \in Execution /\ y.pc = "refused"
    BY <1>1 DEF Execution, Places
  <2>3. Verifying(y)
    BY <2>2 DEF Verifying
  <2>4. ASSUME NEW o \in Originals, Untouched(o)
        PROVE  FALSE
    <3>1. defenseTable = <<defenseRowOf(o)>> /\ request = requestOf(o)
      BY <2>4 DEF Untouched
    <3>2. Len(defenseTable) = 1 /\ defenseTable[1] = defenseRowOf(o)
      BY <3>1
    <3>3. verifyDefenseRow(request, defenseTable[1])
      BY <3>1, <3>2, HonestAccepted
    <3>4. ~Legacy => validateSharedBundle(doc, x.check.result)
      <4> SUFFICES ASSUME ~Legacy
                   PROVE  doc.bundle /\ doc.bound = x.check.result
        BY DEF validateSharedBundle
      <4>1. doc = docOf(o)
        BY <3>2 DEF defenseRowOf
      <4>2. x.check.result = request.check.digest.result
        BY <1>1 DEF Verifying, CheckGood
      <4>3. request.check.digest.result = resultOf(o)
        BY <3>1 DEF requestOf, coreOf
      <4>4. o.route = "shared-attack-contracts-v2"
        BY <1>1, <3>1 DEF requestOf, Legacy, Request, Routes
      <4>5. docOf(o).bundle <=> o.route = "shared-attack-contracts-v2"
        BY DEF docOf
      <4>6. docOf(o).bound = resultOf(o)
        BY DEF docOf
      <4>7. doc.bundle
        BY <4>1, <4>4, <4>5
      <4> QED
        BY <4>1, <4>2, <4>3, <4>6, <4>7
    <3> QED
      BY <1>3, <3>2, <3>3, <3>4
  <2> HIDE DEF y
  <2> QED
    BY <2>1, <2>2, <2>3, <2>4, OwnStep
<1> QED
  BY <1>2, <1>3

(* The end of verifyCheckRow keeps the invariant, whatever payload it has  *)
(* found for the row.                                                      *)
LEMMA VerifiedStep ==
  ASSUME ResolverInv, NEW e \in Executions, exec[e].pc \in {"check", "volume"},
         NEW row \in CheckRow, NEW stored \in Stored,
         Become(e, Verified(exec[e], row, stored)),
         \A o \in Originals :
           Untouched(o) => Passes(row, stored)
  PROVE  ResolverInv'
<1> DEFINE x == exec[e]
           y == Verified(x, row, stored)
           pc == IF Legacy THEN "resolved" ELSE "defense"
           found == [result |-> stored.result,
                     evidence |-> row.completion.evidence]
<1>1. x \in Execution /\ Verifying(x) /\ request \in Request
  BY BeforeStep
<1>2. found \in Checked
  BY DEF Checked, Stored, CheckRow, Completion
<1>3. CASE Passes(row, stored)
  <2>1. y = [x EXCEPT !.check = found, !.row = Nothing, !.pc = pc]
    BY <1>3 DEF Verified, Passes
  <2>2. /\ y \in Execution /\ y.pc = pc /\ y.check = found
        /\ y.doc = x.doc
    BY <1>1, <1>2, <2>1 DEF Execution, Places
  <2>3. CheckGood(y)
    <3>1. /\ stored.result = request.check.digest.result
          /\ row.completion.evidence = request.check.digest.evidence
          /\ stored.result.id = request.check.id
      BY <1>3, LogicalIsPinned DEF Passes
    <3> QED
      BY <1>3, <2>2, <3>1 DEF CheckGood, Passes
  <2>4. Legacy => DocGood(y)
    BY <1>1, <2>2 DEF Verifying, DocGood
  <2>5. Validated
    BY <1>1 DEF Verifying
  <2>6. pc \in {"defense", "resolved"} /\ (pc = "resolved" <=> Legacy)
    OBVIOUS
  <2> HIDE DEF y, pc
  <2>7. Verifying(y)
    BY <2>2, <2>3, <2>4, <2>5, <2>6 DEF Verifying
  <2>8. y.pc # "refused" /\ y.pc # "volume"
    BY <2>2, <2>6
  <2> QED
    BY <2>2, <2>7, <2>8, OwnStep DEF y
<1>4. CASE ~Passes(row, stored)
  <2>1. y = [x EXCEPT !.row = Nothing, !.pc = "refused"]
    BY <1>4 DEF Verified, Passes
  <2>2. y \in Execution /\ y.pc = "refused"
    BY <1>1, <2>1 DEF Execution, Places
  <2> HIDE DEF y
  <2>3. Verifying(y)
    BY <2>2 DEF Verifying
  <2> QED
    BY <1>4, <2>2, <2>3, OwnStep DEF y
<1> QED
  BY <1>3, <1>4

(* Reading the Check Generation row keeps the invariant.                   *)
LEMMA CheckStep ==
  ASSUME ResolverInv, NEW e \in Executions, ReadCheck(e)
  PROVE  ResolverInv'
<1> DEFINE x == exec[e]
           row == checkTable[1]
           ok == Len(checkTable) = 1 /\ verifyPhysical(request, row)
<1>1. x \in Execution /\ Verifying(x) /\ request \in Request /\ x.pc = "check"
  BY BeforeStep DEF ReadCheck
<1>2. ASSUME Len(checkTable) = 1
      PROVE  row \in CheckRow /\ row.json \in Stored \union Manifest
  <2>1. checkTable \in Seq(CheckRow)
    BY DEF ResolverInv, TypeOK
  <2>2. row \in CheckRow
    BY <1>2, <2>1
  <2> QED
    BY <2>2 DEF CheckRow
<1>3. ASSUME NEW o \in Originals, Untouched(o)
      PROVE  ok /\ row = checkRowOf(o)
  <2>1. checkTable = <<checkRowOf(o)>> /\ request = requestOf(o)
    BY <1>3 DEF Untouched
  <2> QED
    BY <2>1, HonestAccepted
<1>4. CASE ~ok
  <2> DEFINE y == [x EXCEPT !.pc = "refused"]
  <2>1. Become(e, y)
    BY <1>4 DEF ReadCheck, GiveUp
  <2>2. y \in Execution /\ y.pc = "refused"
    BY <1>1 DEF Execution, Places
  <2>3. Verifying(y)
    BY <2>2 DEF Verifying
  <2> HIDE DEF y
  <2> QED
    BY <1>3, <1>4, <2>1, <2>2, <2>3, OwnStep
<1>5. CASE ok /\ row.json.kind = "manifest"
  <2> DEFINE y == [x EXCEPT !.pc = "volume", !.row = row]
  <2>1. Become(e, y)
    BY <1>5 DEF ReadCheck
  <2>2. row \in CheckRow /\ row.json \in Manifest
    BY <1>2, <1>5 DEF Stored
  <2>3. y \in Execution /\ y.pc = "volume" /\ y.row = row /\ y.doc = x.doc
    BY <1>1, <2>2 DEF Execution, Places
  <2>4. Verifying(y)
    BY <1>1, <2>2, <2>3 DEF Verifying, DocGood
  <2>5. ASSUME NEW o \in Originals, Untouched(o)
        PROVE  y.row = checkRowOf(o) /\ o.manifest
    <3>1. row = checkRowOf(o)
      BY <1>3, <2>5
    <3>2. jsonOf(o).kind = "manifest"
      BY <1>5, <3>1 DEF checkRowOf
    <3>3. o.manifest
      BY <3>2 DEF jsonOf, storedOf
    <3> QED
      BY <2>3, <3>1, <3>3
  <2> HIDE DEF y
  <2> QED
    BY <2>1, <2>3, <2>4, <2>5, OwnStep
<1>6. CASE ok /\ row.json.kind # "manifest"
  <2>1. row \in CheckRow /\ AsRead(row.json) \in Stored
    BY <1>2, <1>6 DEF Manifest, Stored, AsRead, Notations
  <2>2. Become(e, Verified(x, row, AsRead(row.json)))
    BY <1>6 DEF ReadCheck
  <2>3. ASSUME NEW o \in Originals, Untouched(o)
        PROVE  Passes(row, AsRead(row.json))
    <3>1. row = checkRowOf(o) /\ request = requestOf(o)
      BY <1>3, <2>3 DEF Untouched
    <3>2. row.json = storedOf(o)
      BY <1>6, <3>1 DEF checkRowOf, jsonOf
    <3> QED
      BY <3>1, <3>2, HonestAccepted
  <2> QED
    BY <1>1, <2>1, <2>2, <2>3, VerifiedStep
<1> QED
  BY <1>4, <1>5, <1>6

(* Reading the payload file keeps the invariant.                           *)
LEMMA VolumeStep ==
  ASSUME ResolverInv, NEW e \in Executions, ReadVolume(e)
  PROVE  ResolverInv'
<1> DEFINE x == exec[e]
           row == x.row
           file == volume[row.json.payload]
<1>1. x \in Execution /\ Verifying(x) /\ request \in Request /\ x.pc = "volume"
  BY BeforeStep DEF ReadVolume
<1>2. row \in CheckRow /\ row.json.payload \in Stored
  BY <1>1 DEF Verifying, Manifest
<1>3. ASSUME NEW o \in Originals, Untouched(o)
      PROVE  /\ row = checkRowOf(o) /\ row.json.payload = storedOf(o)
             /\ file = storedOf(o)
  <2>1. row = checkRowOf(o) /\ o.manifest /\ volume[storedOf(o)] = storedOf(o)
    BY <1>1, <1>3 DEF Untouched
  <2>2. row.json.payload = storedOf(o)
    BY <2>1 DEF checkRowOf, jsonOf
  <2> QED
    BY <2>1, <2>2
<1>4. CASE file = row.json.payload
  <2>1. Become(e, Verified(x, row, file))
    BY <1>4 DEF ReadVolume
  <2>2. ASSUME NEW o \in Originals, Untouched(o)
        PROVE  Passes(row, file)
    BY <1>3, <2>2, HonestAccepted DEF Untouched
  <2> QED
    BY <1>1, <1>2, <1>4, <2>1, <2>2, VerifiedStep
<1>5. CASE file # row.json.payload
  <2> DEFINE y == [x EXCEPT !.pc = "refused"]
  <2>1. Become(e, y)
    BY <1>5 DEF ReadVolume, GiveUp
  <2>2. y \in Execution /\ y.pc = "refused"
    BY <1>1 DEF Execution, Places
  <2>3. Verifying(y)
    BY <2>2 DEF Verifying
  <2>4. \A o \in Originals : ~Untouched(o)
    BY <1>3, <1>5
  <2> HIDE DEF y
  <2> QED
    BY <2>1, <2>2, <2>3, <2>4, OwnStep
<1> QED
  BY <1>4, <1>5

(* A rewrite of a store keeps the invariant.                               *)
LEMMA RewriteSteps ==
  ASSUME ResolverInv, RewriteDefense \/ RewriteCheck \/ RewriteFile
  PROVE  ResolverInv'
<1>1. UNCHANGED <<request, exec>> /\ honest' = FALSE
  BY DEF RewriteDefense, RewriteCheck, RewriteFile
<1>2. request \in Request /\ request.route \in Routes
  BY DEF ResolverInv, TypeOK, Request
<1>3. TypeOK'
  <2>1. CASE RewriteDefense
    <3>1. PICK row \in DefenseRows[request.route], n \in 0..2 :
            defenseTable' = Copies(row, n)
      BY <2>1 DEF RewriteDefense
    <3>2. row \in DefenseRow
      BY <1>2, <3>1, LocatorConstants
    <3>3. defenseTable' \in Seq(DefenseRow)
      BY <3>1, <3>2 DEF Copies
    <3> QED
      BY <1>1, <2>1, <3>3 DEF ResolverInv, TypeOK, RewriteDefense
  <2>2. CASE RewriteCheck
    <3>1. PICK row \in CheckRows[request.route], n \in 0..2 :
            checkTable' = Copies(row, n)
      BY <2>2 DEF RewriteCheck
    <3>2. row \in CheckRow
      BY <1>2, <3>1, LocatorConstants
    <3>3. checkTable' \in Seq(CheckRow)
      BY <3>1, <3>2 DEF Copies
    <3> QED
      BY <1>1, <2>2, <3>3 DEF ResolverInv, TypeOK, RewriteCheck
  <2>3. CASE RewriteFile
    <3>1. PICK p \in Payloads, f \in Files :
            volume' = [volume EXCEPT ![p] = f]
      BY <2>3 DEF RewriteFile
    <3>2. f \in File
      BY <3>1, LocatorConstants
    <3>3. volume' \in [Payloads -> File]
      BY <3>1, <3>2 DEF ResolverInv, TypeOK
    <3> QED
      BY <1>1, <2>3, <3>3 DEF ResolverInv, TypeOK, RewriteFile
  <2> QED
    BY <2>1, <2>2, <2>3
<1>4. \A e \in Executions : Verifying(exec[e])'
  BY <1>1 DEF ResolverInv, Verifying, DocGood, CheckGood, Legacy,
              Validated
<1> QED
  BY <1>1, <1>3, <1>4 DEF ResolverInv

(* The invariant holds throughout.                                         *)
LEMMA ResolverInvariance == Spec => []ResolverInv
<1>1. ResolverInv /\ [Next]_vars => ResolverInv'
  <2> SUFFICES ASSUME ResolverInv, [Next]_vars PROVE ResolverInv'
    OBVIOUS
  <2>1. CASE UNCHANGED vars
    BY <2>1 DEF vars, ResolverInv, TypeOK, Verifying, DocGood, CheckGood,
                Legacy, Validated, Untouched
  <2>2. CASE Next
    BY <2>2, SmallSteps, DefenseStep, CheckStep, VolumeStep, RewriteSteps
       DEF Next
  <2> QED
    BY <2>1, <2>2
<1> QED
  BY <1>1, InitResolver, PTL DEF Spec

-----------------------------------------------------------------------------
(* Type correctness of the stores and of what executions hold.             *)
THEOREM ResolverTypeCorrect == Spec => []TypeOK
<1>1. ResolverInv => TypeOK
  BY DEF ResolverInv
<1> QED
  BY <1>1, ResolverInvariance, PTL

(* What the invariant says of a resolution that has succeeded.             *)
LEMMA ResolvedPair == ResolverInv => ResolvedIsPinned /\ LineageHolds
<1>1. ResolverInv => ResolvedIsPinned /\ LineageHolds
  <2> SUFFICES ASSUME ResolverInv, NEW e \in Executions,
                      exec[e].pc = "resolved"
               PROVE  /\ exec[e].doc = request.defense.digest.of
                      /\ exec[e].doc.content \in Supported[request.route]
                      /\ validateSharedCGDocument(request,
                                                  exec[e].check.result)
                      /\ exec[e].check.result = request.check.digest.result
                      /\ exec[e].check.evidence = request.check.digest.evidence
                      /\ Correlation[exec[e].doc.id] = request.correlation
                      /\ Correlation[exec[e].check.result.id]
                           = request.correlation
                      /\ exec[e].check.result.id = request.check.id
                      /\ request.route = "shared-attack-contracts-v2" =>
                           exec[e].doc.bound = exec[e].check.result
    BY DEF ResolvedIsPinned, LineageHolds, validateSharedCGDocument
  <2>1. /\ Validated
        /\ DocGood(exec[e]) /\ CheckGood(exec[e])
        /\ ~Legacy => exec[e].doc.bound = exec[e].check.result
    BY DEF ResolverInv, Verifying
  <2>2. /\ Correlation[request.defense.id] = request.correlation
        /\ Correlation[request.check.id] = request.correlation
    BY <2>1 DEF Validated, validateLocatorRequest, validateV2LocatorRequest,
                Related
  <2>3. /\ exec[e].doc = request.defense.digest.of
        /\ exec[e].doc.id = request.defense.id
        /\ exec[e].doc.content \in Supported[request.route]
    BY <2>1 DEF DocGood
  <2>4. /\ exec[e].check.result = request.check.digest.result
        /\ exec[e].check.evidence = request.check.digest.evidence
        /\ exec[e].check.result.id = request.check.id
        /\ validateSharedCGDocument(request, exec[e].check.result)
    BY <2>1 DEF CheckGood
  <2>5. request.route = "shared-attack-contracts-v2" => ~Legacy
    BY DEF Legacy
  <2> QED
    BY <2>1, <2>2, <2>3, <2>4, <2>5
<1> QED
  BY <1>1

(* Resolve and ResolveV2 return what the digests of the request pin,       *)
(* whoever rewrites what and when.                                         *)
THEOREM ResolutionPinned == Spec => []ResolvedIsPinned
<1>1. ResolverInv => ResolvedIsPinned
  BY ResolvedPair
<1> QED
  BY <1>1, ResolverInvariance, PTL

(* The two results that Resolve and ResolveV2 return belong together.      *)
THEOREM ResolutionRelated == Spec => []LineageHolds
<1>1. ResolverInv => LineageHolds
  BY ResolvedPair
<1> QED
  BY <1>1, ResolverInvariance, PTL

(* Untouched results of honest producers are never refused, in whatever    *)
(* form they were published.                                               *)
THEOREM HonestResolve == Spec => []HonestNotRefused
<1>1. ResolverInv => HonestNotRefused
  BY DEF ResolverInv, HonestNotRefused, Untouched
<1> QED
  BY <1>1, ResolverInvariance, PTL
=============================================================================
