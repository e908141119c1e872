------------------------- MODULE MCLocatorResolver -------------------------
(***************************************************************************)
(* A small instance of LocatorResolver for TLC: what two honest producers  *)
(* publish, inline and as a manifest and in both notations, a later        *)
(* version of it, and rows and requests that differ in one respect.        *)
(***************************************************************************)
EXTENDS LocatorResolver

MCCorrelation == [d |-> "c", k |-> "c", other |-> "c2"]
MCComplete == {"x", "y"}
MCSupported == [r \in Routes |-> {"x", "y"}]

Published(route, content, zone, numbers, manifest) ==
  [route |-> route, defenseId |-> "d", content |-> content, checkId |-> "k",
   checkContent |-> content, evidence |-> content, at |-> "t1",
   zone |-> zone, numbers |-> numbers, manifest |-> manifest]

MCOriginals ==
  {Published(r, "x", "+00:00", "lexical", m) : r \in Routes, m \in BOOLEAN}
    \union {Published(r, "x", "Z", "plain", m) : r \in Routes, m \in BOOLEAN}

Inline(r) == Published(r, "x", "+00:00", "lexical", FALSE)
External(r) == Published(r, "x", "+00:00", "lexical", TRUE)
Later(r) == Published(r, "y", "+00:00", "lexical", FALSE)

Stray == [id |-> "other", content |-> "x"]

(* A row and a request with the digest of another document.                *)
Digested(row, doc) == [row EXCEPT !.doc = doc, !.advertised.of = doc]
Pinned(q, doc) == [q EXCEPT !.defense.digest.of = doc]

(* Documents that are what their digest says, and still not acceptable: no *)
(* supported candidate, or a bundle for another check run.                 *)
Unacceptable(r) ==
  LET doc == docOf(Inline(r))
  IN  {[doc EXCEPT !.content = "z", !.artifactHash = "z"],
       [doc EXCEPT !.artifactHash = "y"],
       [doc EXCEPT !.bound = Stray]}

MCDefenseRows ==
  [r \in Routes |->
    LET row == defenseRowOf(Inline(r))
    IN  {row, defenseRowOf(Later(r)),
         [row EXCEPT !.id = "other"],
         [row EXCEPT !.doc.id = "other"],
         [row EXCEPT !.doc.content = "y", !.doc.artifactHash = "y"],
         [row EXCEPT !.doc.content = "y"]}
        \union {Digested(row, doc) : doc \in Unacceptable(r)}]

MCCheckRows ==
  [r \in Routes |->
    LET row == checkRowOf(Inline(r))
        pointer == checkRowOf(External(r))
    IN  {row, pointer, checkRowOf(Later(r)),
         [row EXCEPT !.id = "other"],
         [row EXCEPT !.sha = NoSha], [pointer EXCEPT !.sha = NoSha],
         [row EXCEPT !.json.result.content = "y"],
         [row EXCEPT !.json.result.content = "z",
                     !.completion.digest.result.content = "z"],
         [row EXCEPT !.json.result.id = "other"],
         [row EXCEPT !.json.id = "other"],
         [row EXCEPT !.completion.evidence = "y"],
         [row EXCEPT !.completion.id = "other"],
         [row EXCEPT !.at = "t2"]}]

MCFiles == {NoFile, storedOf(Later("registered-waf-route-v1"))}

MCRequests ==
  UNION {
    LET q == requestOf(Inline(r))
    IN  {[q EXCEPT !.defense.wellFormed = FALSE],
         [q EXCEPT !.referenceOnly = FALSE],
         [q EXCEPT !.correlation = "c2"],
         [q EXCEPT !.check.id = "other"],
         [q EXCEPT !.check.at = "t2"],
         [q EXCEPT !.check.digest.result.id = "other"],
         [q EXCEPT !.check.digest.result.content = "z"]}
        \union {Pinned(q, doc) : doc \in Unacceptable(r)} : r \in Routes}
=============================================================================
