-------------------------- MODULE LocatorResolver --------------------------
(***************************************************************************)
(* Reference-only inputs (api/executor_locator.go, and the resolution half *)
(* of api/shared_contract_v2.go): a request carries two locators, which    *)
(* pin the result of Defense Generation and the result of Check Generation *)
(* by their digests.  Each execution of the run reads the two rows, and a  *)
(* payload file if the Check Generation row is a manifest, by separate     *)
(* calls, while others may rewrite, duplicate or remove any of them.       *)
(*                                                                         *)
(* SHA-256 is taken to be injective: the digest of a document is a record  *)
(* of what was digested and how it was written, and stands for the size in *)
(* bytes too.  An identity stands for all the fields of a document that a  *)
(* locator repeats (capability, contract, run, request, result and         *)
(* correlation ids, status, terminal state and, for Defense Generation,    *)
(* reference and creation time).  A column of type VARIANT gives numbers   *)
(* back in another notation ("plain"); RFC 8785 does not tell them apart,  *)
(* a digest of the bytes does.                                             *)
(***************************************************************************)
EXTENDS Naturals, Sequences

CONSTANTS
  Executions,     \* executions of the run
  Ids,            \* identities of producer results
  Correlation,    \* the correlation id that each identity includes
  Contents,       \* a candidate with its evidence; a check run's content
  Supported,      \* the contents that have a usable candidate, per route
  Complete,       \* the check runs with complete attack semantics
  Instants,       \* creation times
  Requests,       \* the requests that are executed
  DefenseRows,    \* rows that may replace the published ones, per route
  CheckRows,
  Files,          \* files that may replace the published ones
  Originals       \* what honest producers may have published

Routes == {"registered-waf-route-v1", "shared-attack-contracts-v2"}
Zones == {"Z", "+00:00"}
Notations == {"lexical", "plain"}

-----------------------------------------------------------------------------
(***************************************************************************)
(* Documents, digests and locators.                                        *)
(***************************************************************************)

Result == [id : Ids, content : Contents]    \* run_result

(* bound is the Check Generation result a candidate bundle is made for.    *)
DefenseDoc ==
  [id : Ids, content : Contents, artifactHash : Contents,
   bundle : BOOLEAN, bound : Result]
DefenseDigest == [of : DefenseDoc, by : {"fields", "rfc8785"}]
DefenseRow == [id : Ids, doc : DefenseDoc, advertised : DefenseDigest]

(* The document a Check Generation digest is about: completion_json with   *)
(* the run_result in it.                                                   *)
Core ==
  [id : Ids, evidence : Contents, at : Instants, zone : Zones, result : Result]

(* The persisted wrapper, in the row itself or in a file of the Volume.    *)
Stored ==
  [kind : {"stored"}, id : Ids, result : Result, numbers : Notations]
Manifest == [kind : {"manifest"}, wellFormed : BOOLEAN, payload : Stored]
Completion ==
  [wellFormed : BOOLEAN, contract : Routes, id : Ids, digest : Core,
   evidence : Contents, at : Instants, zone : Zones]
NoSha == [kind |-> "none"]     \* result_sha256 or its size is malformed
CheckRow ==
  [id : Ids, json : Stored \union Manifest,
   sha : Stored \union Manifest \union {NoSha},
   completion : Completion, at : Instants]

(* Of a file, nothing, a part, or something else may be there.             *)
NoFile == [kind |-> "missing"]
File == Stored \union {NoFile}

DefenseLocator == [wellFormed : BOOLEAN, id : Ids, digest : DefenseDigest]
CheckLocator ==
  [wellFormed : BOOLEAN, contract : Routes, id : Ids, at : Instants,
   digest : Core]
Request ==
  [route : Routes, defense : DefenseLocator, check : CheckLocator,
   correlation : {Correlation[i] : i \in Ids}, referenceOnly : BOOLEAN]

(***************************************************************************)
(* What the producers do, as far as the code relies on it.  The legacy     *)
(* route takes results without a bundle.  Defense Generation digests a     *)
(* result with a bundle by RFC 8785, and one without in the order of its   *)
(* fields.  Check Generation digests its creation time in either notation, *)
(* completes with Z, and digests the bytes it stores before the column     *)
(* changes their numbers.                                                  *)
(***************************************************************************)
Original ==
  [route : Routes, defenseId : Ids, content : Contents,
   checkId : Ids, checkContent : Contents, evidence : Contents,
   at : Instants, zone : Zones, numbers : Notations, manifest : BOOLEAN]

Sound(o) ==
  /\ o.content \in Supported[o.route]
  /\ o.route = "shared-attack-contracts-v2" => o.checkContent \in Complete
  /\ Correlation[o.defenseId] = Correlation[o.checkId]

resultOf(o) == [id |-> o.checkId, content |-> o.checkContent]

docOf(o) ==
  [id |-> o.defenseId, content |-> o.content, artifactHash |-> o.content,
   bundle |-> o.route = "shared-attack-contracts-v2", bound |-> resultOf(o)]

defenseDigestOf(o) ==
  [of |-> docOf(o), by |-> IF docOf(o).bundle THEN "rfc8785" ELSE "fields"]

defenseRowOf(o) ==
  [id |-> o.defenseId, doc |-> docOf(o), advertised |-> defenseDigestOf(o)]

coreOf(o) ==
  [id |-> o.checkId, evidence |-> o.evidence, at |-> o.at, zone |-> o.zone,
   result |-> resultOf(o)]

storedOf(o) ==
  [kind |-> "stored", id |-> o.checkId, result |-> resultOf(o),
   numbers |-> o.numbers]

jsonOf(o) ==
  IF o.manifest
  THEN [kind |-> "manifest", wellFormed |-> TRUE, payload |-> storedOf(o)]
  ELSE storedOf(o)

checkRowOf(o) ==
  [id |-> o.checkId, json |-> jsonOf(o), sha |-> jsonOf(o), at |-> o.at,
   completion |->
     [wellFormed |-> TRUE, contract |-> o.route, id |-> o.checkId,
      digest |-> coreOf(o), evidence |-> o.evidence, at |-> o.at,
      zone |-> "Z"]]

requestOf(o) ==
  [route |-> o.route,
   defense |-> [wellFormed |-> TRUE, id |-> o.defenseId,
                digest |-> defenseDigestOf(o)],
   check |-> [wellFormed |-> TRUE, contract |-> o.route, id |-> o.checkId,
              at |-> o.at, digest |-> coreOf(o)],
   correlation |-> Correlation[o.defenseId], referenceOnly |-> TRUE]

ASSUME LocatorConstants ==
  /\ Requests \subseteq Request
  /\ DefenseRows \in [Routes -> SUBSET DefenseRow]
  /\ CheckRows \in [Routes -> SUBSET CheckRow]
  /\ Files \subseteq File
  /\ Supported \in [Routes -> SUBSET Contents]
  /\ Complete \subseteq Contents
  /\ Originals \subseteq {o \in Original : Sound(o)}

VARIABLES
  request,       \* the request of the run
  defenseTable,  \* the rows with the result_id of the defense locator
  checkTable,    \* the rows with the result_id of the check locator
  volume,        \* the file at the path of each payload digest
  honest,        \* nobody but the honest producers has written anything
  exec           \* the executions

vars == <<request, defenseTable, checkTable, volume, honest, exec>>

Places == {"idle", "defense", "check", "volume", "resolved", "unavailable",
           "refused"}

(* What an execution holds; Nothing until it has found it.                 *)
Nothing == [kind |-> "nothing"]
Checked == [result : Result, evidence : Contents]
Execution ==
  [pc : Places,
   doc : DefenseDoc \union {Nothing},     \* verified Defense Generation result
   row : CheckRow \union {Nothing},       \* row whose manifest is followed
   check : Checked \union {Nothing}]      \* verified run_result, evidence_refs

Fresh == [pc |-> "idle", doc |-> Nothing, row |-> Nothing, check |-> Nothing]

(* The digests of which there may be a file.                               *)
Payloads ==
  {storedOf(o) : o \in Originals} \union
  UNION {{row.json.payload :
            row \in {q \in CheckRows[r] : q.json.kind = "manifest"}} :
         r \in Routes}

Init ==
  \E o \in Originals :
    /\ request \in Requests \union {requestOf(o)}
    /\ honest = (request = requestOf(o))
    /\ defenseTable = <<defenseRowOf(o)>>
    /\ checkTable = <<checkRowOf(o)>>
    /\ volume = [f \in Payloads |-> IF o.manifest /\ f = storedOf(o)
                                    THEN f ELSE NoFile]
    /\ exec = [e \in Executions |-> Fresh]

-----------------------------------------------------------------------------
(***************************************************************************)
(* The checks.                                                             *)
(***************************************************************************)

(* Both locators are complete, allowlisted and of the request's            *)
(* correlation, and no content comes with them.                            *)
Related(q) ==
  /\ q.defense.wellFormed /\ q.check.wellFormed
  /\ Correlation[q.defense.id] = Correlation[q.check.id]
  /\ Correlation[q.defense.id] = q.correlation
  /\ q.referenceOnly

validateLocatorRequest(q) ==
  Related(q) /\ q.check.contract = "registered-waf-route-v1"

validateV2LocatorRequest(q) ==
  Related(q) /\ q.check.contract = "shared-attack-contracts-v2"

Digest(doc, by) == [of |-> doc, by |-> by]

(* The legacy route digests the fields in the producer's order; the shared *)
(* contract does so only when there is no bundle.                          *)
unsigned(route, doc) ==
  Digest(doc, IF route = "shared-attack-contracts-v2" /\ doc.bundle
              THEN "rfc8785" ELSE "fields")

(* Mistake: the digest in the row is compared with the locator, but not    *)
(* with the document it comes with.                                        *)
verifyDefenseRow_Advertised(q, row) ==
  /\ row.id = q.defense.id
  /\ row.doc.id = q.defense.id
  /\ row.advertised = q.defense.digest
  /\ row.doc.content \in Supported[q.route]
  /\ row.doc.artifactHash = row.doc.content

verifyDefenseRow(q, row) ==
  /\ row.id = q.defense.id
  /\ row.doc.id = q.defense.id
  /\ row.advertised = unsigned(q.route, row.doc)
  /\ row.advertised = q.defense.digest
  /\ row.doc.content \in Supported[q.route]
  /\ row.doc.artifactHash = row.doc.content

(* Mistake: the bundle is verified, but not what it was made for.          *)
validateSharedBundle_Unbound(doc, result) == doc.bundle

(* The semantics binding of the bundle: the digest of the very run_result  *)
(* that was resolved.                                                      *)
validateSharedBundle(doc, result) == doc.bundle /\ doc.bound = result

validateSharedDefenseRow(q, row, result) ==
  verifyDefenseRow(q, row) /\ validateSharedBundle(row.doc, result)

(* TO_JSON of a VARIANT column.                                            *)
AsRead(json) ==
  IF json.kind = "stored" THEN [json EXCEPT !.numbers = "plain"] ELSE json

(* The first half of verifyCheckRow: what can be said of the row itself.   *)
verifyPhysical(q, row) ==
  /\ row.id = q.check.id
  /\ \/ AsRead(row.json) = row.sha
     \/ row.json.kind = "stored" /\ row.sha # NoSha
  /\ row.json.kind = "manifest" => row.json.wellFormed

core(completion, result, zone) ==
  [id |-> completion.id, evidence |-> completion.evidence,
   at |-> completion.at, zone |-> zone, result |-> result]

(* Mistake: the completion's own notation of the time is the only one.     *)
logicalMatches_AsWritten(q, completion, result) ==
  core(completion, result, completion.zone) = q.check.digest

(* The producer digests +00:00 and stores Z.                               *)
logicalMatches(q, completion, result) ==
  \/ core(completion, result, completion.zone) = q.check.digest
  \/ /\ completion.zone = "Z"
     /\ core(completion, result, "+00:00") = q.check.digest

(* The second half of verifyCheckRow: wrapper, completion and digest.      *)
verifyLogical(q, row, stored) ==
  LET c == row.completion
  IN  /\ stored.id = q.check.id
      /\ c.wellFormed /\ c.contract = q.check.contract
      /\ c.id = q.check.id /\ c.digest = q.check.digest
      /\ stored.result.id = q.check.id
      /\ logicalMatches(q, c, stored.result)
      /\ c.at = q.check.at /\ row.at = q.check.at

-----------------------------------------------------------------------------
(***************************************************************************)
(* Resolve and ResolveV2.                                                  *)
(***************************************************************************)

(* What the shared contract asks of the Check Generation result itself.    *)
validateSharedCGDocument(q, result) ==
  q.route = "shared-attack-contracts-v2" => result.content \in Complete

Become(e, x) ==
  /\ exec' = [exec EXCEPT ![e] = x]
  /\ UNCHANGED <<request, defenseTable, checkTable, volume, honest>>

GiveUp(e, pc) == Become(e, [exec[e] EXCEPT !.pc = pc])

Legacy == request.route = "registered-waf-route-v1"

(* The legacy route reads the Defense Generation row first.                *)
Resolve(e) ==
  /\ Legacy
  /\ exec[e].pc = "idle"
  /\ GiveUp(e, IF validateLocatorRequest(request) THEN "defense" ELSE "refused")

(* The shared contract reads the Check Generation row first.               *)
ResolveV2(e) ==
  /\ ~Legacy
  /\ exec[e].pc = "idle"
  /\ GiveUp(e, IF validateV2LocatorRequest(request) THEN "check" ELSE "refused")

(* A statement, or a file request, that gets no complete answer.           *)
StatementFails(e) ==
  exec[e].pc \in {"defense", "check"} /\ GiveUp(e, "unavailable")

FileRequestFails(e) ==
  exec[e].pc = "volume" /\ GiveUp(e, "unavailable")

ReadDefense(e) ==
  /\ Legacy
  /\ exec[e].pc = "defense"
  /\ IF Len(defenseTable) = 1 /\ verifyDefenseRow(request, defenseTable[1])
     THEN Become(e, [exec[e] EXCEPT !.doc = defenseTable[1].doc, !.pc = "check"])
     ELSE GiveUp(e, "refused")

ReadSharedDefense(e) ==
  /\ ~Legacy
  /\ exec[e].pc = "defense"
  /\ IF /\ Len(defenseTable) = 1
        /\ validateSharedDefenseRow(request, defenseTable[1],
                                    exec[e].check.result)
     THEN Become(e, [exec[e] EXCEPT !.doc = defenseTable[1].doc,
                                    !.pc = "resolved"])
     ELSE GiveUp(e, "refused")

(* The end of verifyCheckRow, with the payload it has found.               *)
Verified(x, row, stored) ==
  IF /\ verifyLogical(request, row, stored)
     /\ validateSharedCGDocument(request, stored.result)
  THEN [x EXCEPT !.check = [result |-> stored.result,
                            evidence |-> row.completion.evidence],
                 !.row = Nothing,
                 !.pc = IF Legacy THEN "resolved" ELSE "defense"]
  ELSE [x EXCEPT !.row = Nothing, !.pc = "refused"]

ReadCheck(e) ==
  /\ exec[e].pc = "check"
  /\ IF ~(Len(checkTable) = 1 /\ verifyPhysical(request, checkTable[1]))
     THEN GiveUp(e, "refused")
     ELSE IF checkTable[1].json.kind = "manifest"
     THEN Become(e, [exec[e] EXCEPT !.pc = "volume", !.row = checkTable[1]])
     ELSE Become(e, Verified(exec[e], checkTable[1], AsRead(checkTable[1].json)))

(* The path is made of the digest in the manifest.                         *)
ReadVolume(e) ==
  LET row == exec[e].row
      file == volume[row.json.payload]
  IN  /\ exec[e].pc = "volume"
      /\ IF file = row.json.payload THEN Become(e, Verified(exec[e], row, file))
         ELSE GiveUp(e, "refused")

-----------------------------------------------------------------------------
(***************************************************************************)
(* The stores: anybody who may write to them does what he likes.  A        *)
(* rewrite matters only if somebody is still going to read.                *)
(***************************************************************************)

Reading == \E e \in Executions : exec[e].pc \in {"defense", "check", "volume"}

Copies(row, n) == [k \in 1..n |-> row]

(* The query has LIMIT 2, and of two rows only the number is looked at.    *)
RewriteDefense ==
  /\ Reading
  /\ \E row \in DefenseRows[request.route], n \in 0..2 :
       /\ defenseTable' = Copies(row, n)
       /\ honest' = FALSE
       /\ UNCHANGED <<request, checkTable, volume, exec>>

RewriteCheck ==
  /\ Reading
  /\ \E row \in CheckRows[request.route], n \in 0..2 :
       /\ checkTable' = Copies(row, n)
       /\ honest' = FALSE
       /\ UNCHANGED <<request, defenseTable, volume, exec>>

RewriteFile ==
  /\ Reading
  /\ \E p \in Payloads, f \in Files :
       /\ volume' = [volume EXCEPT ![p] = f]
       /\ honest' = FALSE
       /\ UNCHANGED <<request, defenseTable, checkTable, exec>>

Next ==
  \/ \E e \in Executions :
       \/ Resolve(e) \/ ResolveV2(e)
       \/ ReadDefense(e) \/ ReadSharedDefense(e)
       \/ ReadCheck(e) \/ ReadVolume(e)
       \/ StatementFails(e) \/ FileRequestFails(e)
  \/ RewriteDefense \/ RewriteCheck \/ RewriteFile

Spec == Init /\ [][Next]_vars

-----------------------------------------------------------------------------
(***************************************************************************)
(* Properties.                                                             *)
(***************************************************************************)

(* The request, the stores and the executions hold what they may hold.     *)
TypeOK ==
  /\ request \in Request
  /\ defenseTable \in Seq(DefenseRow)
  /\ checkTable \in Seq(CheckRow)
  /\ volume \in [Payloads -> File]
  /\ honest \in BOOLEAN
  /\ exec \in [Executions -> Execution]

(* What Resolve and ResolveV2 return is exactly what the two digests of    *)
(* the request pin, whatever was rewritten before, between and after the   *)
(* reads; so all executions of a run that resolve anything resolve the     *)
(* same.                                                                   *)
ResolvedIsPinned ==
  \A e \in Executions : exec[e].pc = "resolved" =>
    /\ exec[e].doc = request.defense.digest.of
    /\ exec[e].doc.content \in Supported[request.route]
    /\ request.route = "shared-attack-contracts-v2"
         => exec[e].check.result.content \in Complete
    /\ exec[e].check.result = request.check.digest.result
    /\ exec[e].check.evidence = request.check.digest.evidence

(* The two results belong together: they are the ones the locators name,   *)
(* both of the request's correlation, and a candidate bundle was made for  *)
(* the very Check Generation result it is resolved with.                   *)
LineageHolds ==
  \A e \in Executions : exec[e].pc = "resolved" =>
    /\ Correlation[exec[e].doc.id] = request.correlation
    /\ Correlation[exec[e].check.result.id] = request.correlation
    /\ exec[e].check.result.id = request.check.id
    /\ request.route = "shared-attack-contracts-v2" =>
         exec[e].doc.bound = exec[e].check.result

(* What an honest producer published is never refused: not for the         *)
(* notation of its numbers or of its creation time, nor for having been    *)
(* stored as a manifest.  Only a call without an answer can fail.          *)
HonestNotRefused == honest => \A e \in Executions : exec[e].pc # "refused"
=============================================================================
