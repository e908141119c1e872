-------------------------- MODULE SubmissionProofs --------------------------
(***************************************************************************)
(* Proofs about Submission, for every number of submissions, any set of    *)
(* requests and any size of the pool.                                      *)
(***************************************************************************)
EXTENDS Submission, TLAPS

(* Rows that may differ only in whether the run has ended.                 *)
Alike(a, b) == a.run = b.run /\ a.digest = b.digest /\ a.target = b.target

(* What handler s knows, place by place: while its insert is not committed *)
(* nobody has the key, and what it read still stands.                      *)
Knows(s) ==
  LET h == handler[s]
      row == ledger[h.req.key]
  IN  /\ h.pc \notin {"idle", "finished"}
           => h.req \in Requests /\ h.req.body \in ValidBodies
      /\ h.mine # NoRow => /\ h.pc \in {"inserted", "read"}
                           /\ h.mine = NewRow(s)
                           /\ row = NoRow
      /\ h.pc = "inserted" /\ h.mine = NoRow => row # NoRow
      /\ h.pc = "read" => /\ h.stored # NoRow
                          /\ h.mine # NoRow => h.stored = h.mine
                          /\ h.mine = NoRow => row # NoRow
                                               /\ Alike(h.stored, row)
      /\ h.pc = "committed" => /\ h.stored # NoRow /\ row # NoRow
                               /\ Alike(h.stored, row)

(* At most one transaction has an open insert of a key.                    *)
Exclusive ==
  \A s, t \in Submissions :
    /\ handler[s].mine # NoRow /\ handler[t].mine # NoRow
    /\ handler[s].req.key = handler[t].req.key
    => s = t

(* A conflict is real, and stays so.                                       *)
ConflictIsReal ==
  \A a \in answers :
    a.code \in Conflicts
      => /\ ledger[a.req.key] # NoRow
         /\ \/ ledger[a.req.key].digest # normalizedRequest(a.req)
            \/ ledger[a.req.key].target # a.req.target

SubmissionInv ==
  /\ TypeOK
  /\ \A s \in Submissions : Knows(s)
  /\ Exclusive
  /\ AcceptedIsStored
  /\ ConflictIsReal

(* The parts of a request.                                                 *)
LEMMA RequestParts ==
  ASSUME NEW req \in Requests
  PROVE  req.key \in Keys /\ req.correlation \in Correlations
         /\ req.target \in Targets \union {NoTarget}
BY SubmissionConstants DEF Request

(* The row that a submission inserts.                                      *)
LEMMA NewRowIsRow ==
  ASSUME NEW s \in Submissions, handler[s].req \in Requests,
         handler[s].req.body \in ValidBodies
  PROVE  NewRow(s) \in Row /\ NewRow(s) # NoRow
<1>1. NewRow(s) \in Row
  BY RequestParts DEF NewRow, normalizedRequest, Row, Digest
<1> QED
  BY <1>1, Sentinels

(* The initial state.                                                      *)
LEMMA InitHolds == Init => SubmissionInv
<1> SUFFICES ASSUME Init PROVE SubmissionInv
  OBVIOUS
<1>1. \A s \in Submissions : handler[s] = Resting("idle")
  BY DEF Init
<1>2. Resting("idle") \in Handler
  BY DEF Resting, Handler, Places
<1>3. TypeOK
  BY <1>2 DEF Init, TypeOK
<1>4. \A s \in Submissions : Knows(s)
  BY <1>1 DEF Knows, Resting
<1>5. Exclusive
  BY <1>1 DEF Exclusive, Resting
<1>6. AcceptedIsStored /\ ConflictIsReal
  BY DEF Init, AcceptedIsStored, Accepted, ConflictIsReal
<1> QED
  BY <1>3, <1>4, <1>5, <1>6 DEF SubmissionInv

(* Rows are not taken back; at most runs end.                              *)
Grows == \A k \in Keys : ledger[k] # NoRow => /\ ledger'[k] # NoRow
                                              /\ Alike(ledger[k], ledger'[k])

(* What a handler that does not move knows outlasts a step that grows the  *)
(* ledger and leaves its key alone while its insert is open.               *)
LEMMA KnowledgeLasts ==
  ASSUME SubmissionInv, Grows, NEW t \in Submissions,
         handler'[t] = handler[t],
         handler[t].mine # NoRow => ledger'[handler[t].req.key] = NoRow
  PROVE  Knows(t)'
<1> DEFINE h == handler[t]
           k == h.req.key
<1>1. Knows(t) /\ h \in Handler
  BY DEF SubmissionInv, TypeOK
<1>2. h.mine # NoRow => h.mine = NewRow(t)' \/ h.mine # NewRow(t)
  BY DEF NewRow
<1>3. CASE h.pc \in {"idle", "finished"}
  <2>1. h.mine = NoRow
    BY <1>1, <1>3 DEF Knows
  <2> QED
    BY <1>3, <2>1 DEF Knows
<1>4. CASE h.pc \notin {"idle", "finished"}
  <2>1. h.req \in Requests /\ k \in Keys
    BY <1>1, <1>4, RequestParts DEF Knows
  <2>2. ledger[k] # NoRow => ledger'[k] # NoRow /\ Alike(ledger[k], ledger'[k])
    BY <2>1 DEF Grows
  <2> QED
    BY <1>1, <1>2, <1>4, <2>1, <2>2 DEF Knows, Alike
<1> QED
  BY <1>3, <1>4

(* Answers outlast it as well.                                             *)
LEMMA AnswersLast ==
  ASSUME SubmissionInv, Grows, UNCHANGED answers
  PROVE  AcceptedIsStored' /\ ConflictIsReal'
<1>1. \A a \in answers : a.req.key \in Keys
  BY RequestParts DEF SubmissionInv, TypeOK, Answer
<1>2. AcceptedIsStored'
  BY <1>1 DEF SubmissionInv, AcceptedIsStored, Accepted, Grows, Alike,
              normalizedRequest
<1>3. ConflictIsReal'
  BY <1>1 DEF SubmissionInv, ConflictIsReal, Grows, Alike, normalizedRequest
<1> QED
  BY <1>2, <1>3

(* A step of one handler that leaves the ledger and the answers alone.     *)
LEMMA QuietStep ==
  ASSUME SubmissionInv, NEW s \in Submissions, NEW h \in Handler, Step(s, h),
         UNCHANGED <<ledger, answers>>, Knows(s)',
         h.mine # NoRow => /\ h.req = handler[s].req
                           /\ h.mine = handler[s].mine \/ ~Locked(s)
  PROVE  SubmissionInv'
<1>1. /\ handler' \in [Submissions -> Handler]
      /\ handler'[s] = h
      /\ \A t \in Submissions \ {s} : handler'[t] = handler[t]
  BY DEF SubmissionInv, TypeOK, Step
<1>2. TypeOK'
  BY <1>1 DEF SubmissionInv, TypeOK
<1>3. Grows
  BY DEF Grows, Alike
<1>4. ASSUME NEW t \in Submissions \ {s} PROVE Knows(t)'
  <2>1. handler[t].mine # NoRow => ledger[handler[t].req.key] = NoRow
    BY DEF SubmissionInv, Knows
  <2> QED
    BY <1>1, <1>3, <2>1, KnowledgeLasts
<1>5. Exclusive'
  BY <1>1 DEF Exclusive, SubmissionInv, Locked
<1> QED
  BY <1>2, <1>3, <1>4, <1>5, AnswersLast DEF SubmissionInv

(* A handler that stops knows nothing and holds nothing.                   *)
LEMMA RestingIsHandler ==
  ASSUME NEW place \in Places
  PROVE  Resting(place) \in Handler /\ Resting(place).mine = NoRow
BY DEF Resting, Handler

(* Refusals, failures before the commit, and crashes.                      *)
LEMMA StopHolds ==
  ASSUME SubmissionInv, NEW s \in Submissions, Step(s, Resting("finished")),
         UNCHANGED <<ledger, answers>>
  PROVE  SubmissionInv'
<1> DEFINE h == Resting("finished")
<1>1. h \in Handler /\ h.mine = NoRow /\ h.pc = "finished"
  BY RestingIsHandler DEF Places, Resting
<1>2. handler'[s] = h
  BY DEF SubmissionInv, TypeOK, Step
<1> HIDE DEF h
<1>3. Knows(s)'
  BY <1>1, <1>2 DEF Knows
<1> QED
  BY <1>1, <1>3, QuietStep DEF h

(* A submission is refused or goes on to the ledger.                       *)
LEMMA ReceiveHolds ==
  ASSUME SubmissionInv, NEW s \in Submissions, Receive(s)
  PROVE  SubmissionInv'
<1>1. PICK req \in Requests, hosts \in SUBSET Targets :
        Step(s, IF Refused(req, hosts) THEN Resting("finished")
                ELSE [Resting("received") EXCEPT !.req = req])
  BY DEF Receive
<1>2. UNCHANGED <<ledger, answers>>
  BY DEF Receive
<1>3. CASE Refused(req, hosts)
  BY <1>1, <1>2, <1>3, StopHolds
<1>4. CASE ~Refused(req, hosts)
  <2> DEFINE h == [Resting("received") EXCEPT !.req = req]
  <2>1. /\ h \in Handler /\ h.mine = NoRow /\ h.pc = "received"
        /\ h.req = req
    BY DEF Resting, Handler, Places
  <2>2. Step(s, h)
    BY <1>1, <1>4
  <2>3. handler'[s] = h
    BY <2>2 DEF SubmissionInv, TypeOK, Step
  <2>4. req.body \in ValidBodies
    BY <1>4 DEF Refused
  <2> HIDE DEF h
  <2>5. Knows(s)'
    BY <2>1, <2>3, <2>4 DEF Knows
  <2> QED
    BY <1>2, <2>1, <2>2, <2>5, QuietStep
<1> QED
  BY <1>3, <1>4

(* A transaction begins.                                                   *)
LEMMA BeginHolds ==
  ASSUME SubmissionInv, NEW s \in Submissions, BeginTx(s)
  PROVE  SubmissionInv'
<1> DEFINE h == [handler[s] EXCEPT !.pc = "begun", !.conn = TRUE]
<1>1. /\ handler[s] \in Handler /\ Knows(s) /\ handler[s].pc = "received"
  BY DEF SubmissionInv, TypeOK, BeginTx, At
<1>2. Step(s, h) /\ UNCHANGED <<ledger, answers>>
  BY DEF BeginTx
<1>3. /\ h \in Handler /\ h.mine = handler[s].mine /\ h.pc = "begun"
      /\ h.req = handler[s].req
  BY <1>1 DEF Handler, Places
<1>4. handler'[s] = h
  BY <1>2 DEF SubmissionInv, TypeOK, Step
<1> HIDE DEF h
<1>5. h.mine = NoRow
  BY <1>1, <1>3 DEF Knows
<1>6. Knows(s)'
  BY <1>1, <1>3, <1>4, <1>5 DEF Knows
<1> QED
  BY <1>2, <1>3, <1>5, <1>6, QuietStep

(* The insert takes the key if nobody has it.                              *)
LEMMA InsertHolds ==
  ASSUME SubmissionInv, NEW s \in Submissions, Insert(s)
  PROVE  SubmissionInv'
<1> DEFINE k == handler[s].req.key
           row == IF ledger[k] = NoRow THEN NewRow(s) ELSE NoRow
           h == [handler[s] EXCEPT !.pc = "inserted", !.mine = row]
<1>1. handler[s] \in Handler /\ Knows(s) /\ handler[s].pc = "begun"
  BY DEF SubmissionInv, TypeOK, Insert, At
<1>2. Step(s, h) /\ UNCHANGED <<ledger, answers>> /\ ~Locked(s)
  BY DEF Insert
<1>3. handler[s].req \in Requests /\ handler[s].req.body \in ValidBodies
  BY <1>1 DEF Knows
<1>4. NewRow(s) \in Row /\ NewRow(s) # NoRow
  BY <1>3, NewRowIsRow
<1>5. /\ h \in Handler /\ h.mine = row /\ h.pc = "inserted"
      /\ h.req = handler[s].req
  BY <1>1, <1>4 DEF Handler, Places
<1>6. handler'[s] = h
  BY <1>2 DEF SubmissionInv, TypeOK, Step
<1> HIDE DEF h
<1>7. NewRow(s)' = NewRow(s)
  BY <1>5, <1>6 DEF NewRow, normalizedRequest
<1>8. Knows(s)'
  BY <1>2, <1>3, <1>4, <1>5, <1>6, <1>7 DEF Knows
<1> QED
  BY <1>2, <1>5, <1>8, QuietStep

(* The read inside the transaction.                                        *)
LEMMA ReadHolds ==
  ASSUME SubmissionInv, NEW s \in Submissions, Read(s)
  PROVE  SubmissionInv'
<1> DEFINE k == handler[s].req.key
           row == IF handler[s].mine # NoRow THEN handler[s].mine ELSE ledger[k]
           h == [handler[s] EXCEPT !.pc = "read", !.stored = row]
<1>1. handler[s] \in Handler /\ Knows(s) /\ handler[s].pc = "inserted"
  BY DEF SubmissionInv, TypeOK, Read, At
<1>2. Step(s, h) /\ UNCHANGED <<ledger, answers>>
  BY DEF Read
<1>3. /\ handler[s].req \in Requests /\ handler[s].req.body \in ValidBodies
      /\ k \in Keys
  BY <1>1, RequestParts DEF Knows
<1>4. row \in Row \union {NoRow} /\ row # NoRow
  BY <1>1, <1>3 DEF Knows, Handler, SubmissionInv, TypeOK
<1>5. /\ h \in Handler /\ h.mine = handler[s].mine /\ h.pc = "read"
      /\ h.req = handler[s].req /\ h.stored = row
  BY <1>1, <1>4 DEF Handler, Places
<1>6. handler'[s] = h
  BY <1>2 DEF SubmissionInv, TypeOK, Step
<1> HIDE DEF h
<1>7. NewRow(s)' = NewRow(s)
  BY <1>5, <1>6 DEF NewRow, normalizedRequest
<1>8. Knows(s)'
  BY <1>1, <1>2, <1>3, <1>4, <1>5, <1>6, <1>7 DEF Knows, Alike
<1> QED
  BY <1>2, <1>5, <1>8, QuietStep

(* A commit adds the row of s under a key that had none, and leaves every  *)
(* other key alone.                                                        *)
LEMMA CommitGrows ==
  ASSUME SubmissionInv, NEW s \in Submissions, At(s, "read"),
         ledger' = Committed(s)
  PROVE  /\ ledger' \in [Keys -> Row \union {NoRow}]
         /\ Grows
         /\ \A k \in Keys : k # handler[s].req.key => ledger'[k] = ledger[k]
         /\ handler[s].mine = NoRow => ledger' = ledger
         /\ ledger'[handler[s].req.key] # NoRow
         /\ Alike(handler[s].stored, ledger'[handler[s].req.key])
<1> DEFINE k == handler[s].req.key
<1>1. /\ handler[s] \in Handler /\ Knows(s) /\ handler[s].pc = "read"
      /\ ledger \in [Keys -> Row \union {NoRow}]
  BY DEF SubmissionInv, TypeOK, At
<1>2. k \in Keys
  BY <1>1, RequestParts DEF Knows
<1>3. CASE handler[s].mine = NoRow
  BY <1>1, <1>2, <1>3 DEF Committed, Knows, Grows, Alike
<1>4. CASE handler[s].mine # NoRow
  <2>1. ledger' = [ledger EXCEPT ![k] = handler[s].mine]
    BY <1>4 DEF Committed
  <2>2. handler[s].mine \in Row /\ ledger[k] = NoRow
        /\ handler[s].stored = handler[s].mine
    BY <1>1, <1>4 DEF Handler, Knows
  <2>3. \A j \in Keys : ledger'[j] = IF j = k THEN handler[s].mine ELSE ledger[j]
    BY <1>1, <1>2, <2>1
  <2>4. ledger' \in [Keys -> Row \union {NoRow}]
    BY <1>1, <1>2, <2>1, <2>2
  <2>5. Grows
    BY <2>2, <2>3 DEF Grows, Alike
  <2> QED
    BY <1>2, <1>4, <2>2, <2>3, <2>4, <2>5 DEF Alike
<1> QED
  BY <1>3, <1>4

(* A step that commits, whether or not the handler hears of it.            *)
LEMMA CommitHolds ==
  ASSUME SubmissionInv, NEW s \in Submissions, At(s, "read"),
         ledger' = Committed(s), UNCHANGED answers,
         NEW h \in Handler, Step(s, h), h.mine = NoRow,
         \/ h.pc = "finished"
         \/ h.pc = "committed" /\ h.req = handler[s].req
            /\ h.stored = handler[s].stored
  PROVE  SubmissionInv'
<1> DEFINE k == handler[s].req.key
<1>1. /\ handler' \in [Submissions -> Handler]
      /\ handler'[s] = h
      /\ \A t \in Submissions \ {s} : handler'[t] = handler[t]
  BY DEF SubmissionInv, TypeOK, Step
<1>2. /\ ledger' \in [Keys -> Row \union {NoRow}]
      /\ Grows
      /\ \A j \in Keys : j # k => ledger'[j] = ledger[j]
      /\ handler[s].mine = NoRow => ledger' = ledger
      /\ ledger'[k] # NoRow
      /\ Alike(handler[s].stored, ledger'[k])
  BY CommitGrows
<1>3. TypeOK'
  BY <1>1, <1>2 DEF SubmissionInv, TypeOK
<1>4. ASSUME NEW t \in Submissions \ {s} PROVE Knows(t)'
  <2>1. SUFFICES ASSUME handler[t].mine # NoRow
                 PROVE  ledger'[handler[t].req.key] = NoRow
    BY <1>1, <1>2, KnowledgeLasts
  <2>2. /\ ledger[handler[t].req.key] = NoRow
        /\ handler[t].req.key \in Keys
    BY <2>1, RequestParts DEF SubmissionInv, Knows
  <2>3. CASE handler[s].mine = NoRow
    BY <1>2, <2>2, <2>3
  <2>4. CASE handler[s].mine # NoRow
    <3>1. handler[t].req.key # k
      BY <2>1, <2>4 DEF SubmissionInv, Exclusive
    <3> QED
      BY <1>2, <2>2, <3>1
  <2> QED
    BY <2>3, <2>4
<1>5. Knows(s)'
  <2>1. Knows(s) /\ handler[s].pc = "read"
    BY DEF SubmissionInv, At
  <2>2. handler[s].req \in Requests /\ handler[s].req.body \in ValidBodies
        /\ handler[s].stored # NoRow
    BY <2>1 DEF Knows
  <2> QED
    BY <1>1, <1>2, <2>2 DEF Knows
<1>6. Exclusive'
  BY <1>1 DEF SubmissionInv, Exclusive
<1> QED
  BY <1>2, <1>3, <1>4, <1>5, <1>6, AnswersLast DEF SubmissionInv

(* The verdict says what the stored row is.                                *)
LEMMA VerdictTells ==
  ASSUME NEW s \in Submissions
  PROVE  /\ Verdict(s) \in Accepting \union Conflicts
         /\ Verdict(s) \in Accepting
              => /\ handler[s].stored.digest = normalizedRequest(handler[s].req)
                 /\ handler[s].stored.target = handler[s].req.target
         /\ Verdict(s) \in Conflicts
              => \/ handler[s].stored.digest # normalizedRequest(handler[s].req)
                 \/ handler[s].stored.target # handler[s].req.target
<1> DEFINE stored == handler[s].stored
           req == handler[s].req
<1>1. CASE stored.digest # normalizedRequest(req)
  BY <1>1 DEF Verdict, Accepting, Conflicts
<1>2. CASE stored.digest = normalizedRequest(req) /\ stored.target # req.target
  BY <1>2 DEF Verdict, Accepting, Conflicts
<1>3. CASE stored.digest = normalizedRequest(req) /\ stored.target = req.target
  BY <1>3 DEF Verdict, Accepting, Conflicts
<1> QED
  BY <1>1, <1>2, <1>3

(* The answer.                                                             *)
LEMMA RespondHolds ==
  ASSUME SubmissionInv, NEW s \in Submissions, Respond(s)
  PROVE  SubmissionInv'
<1> DEFINE a == [req |-> handler[s].req, code |-> Verdict(s),
                 run |-> submissionFrom(s)]
           h == Resting("finished")
           k == handler[s].req.key
<1>1. /\ handler[s] \in Handler /\ Knows(s) /\ handler[s].pc = "committed"
  BY DEF SubmissionInv, TypeOK, Respond, At
<1>2. Step(s, h) /\ ledger' = ledger /\ answers' = answers \union {a}
  BY DEF Respond
<1>3. h \in Handler /\ h.mine = NoRow /\ h.pc = "finished"
  BY RestingIsHandler DEF Places, Resting
<1>4. /\ handler' \in [Submissions -> Handler]
      /\ handler'[s] = h
      /\ \A t \in Submissions \ {s} : handler'[t] = handler[t]
  BY <1>2, <1>3 DEF SubmissionInv, TypeOK, Step
<1> HIDE DEF h
<1>5. /\ handler[s].req \in Requests /\ handler[s].stored \in Row
      /\ ledger[k] # NoRow /\ Alike(handler[s].stored, ledger[k])
  BY <1>1 DEF Knows, Handler
<1>6. a \in Answer
  BY <1>5, VerdictTells DEF Answer, Row, submissionFrom
<1>7. TypeOK'
  BY <1>2, <1>4, <1>6 DEF SubmissionInv, TypeOK
<1>8. ASSUME NEW t \in Submissions PROVE Knows(t)'
  <2>1. CASE t = s
    BY <1>3, <1>4, <2>1 DEF Knows
  <2>2. CASE t # s
    <3>1. Grows
      BY <1>2 DEF Grows, Alike
    <3>2. handler[t].mine # NoRow => ledger'[handler[t].req.key] = NoRow
      BY <1>2 DEF SubmissionInv, Knows
    <3> QED
      BY <1>4, <2>2, <3>1, <3>2, KnowledgeLasts
  <2> QED
    BY <2>1, <2>2
<1>9. Exclusive'
  BY <1>3, <1>4 DEF SubmissionInv, Exclusive
<1>10. AcceptedIsStored'
  <2> SUFFICES ASSUME NEW b \in answers', b.code \in Accepting
               PROVE  /\ ledger[b.req.key] # NoRow
                      /\ ledger[b.req.key].run = b.run
                      /\ ledger[b.req.key].digest = normalizedRequest(b.req)
                      /\ ledger[b.req.key].target = b.req.target
    BY <1>2 DEF AcceptedIsStored, Accepted, normalizedRequest
  <2>1. CASE b \in answers
    BY <2>1 DEF SubmissionInv, AcceptedIsStored, Accepted
  <2>2. CASE b = a
    BY <1>5, <2>2, VerdictTells DEF Alike, submissionFrom
  <2> QED
    BY <1>2, <2>1, <2>2
<1>11. ConflictIsReal'
  <2> SUFFICES ASSUME NEW b \in answers', b.code \in Conflicts
               PROVE  /\ ledger[b.req.key] # NoRow
                      /\ \/ ledger[b.req.key].digest # normalizedRequest(b.req)
                         \/ ledger[b.req.key].target # b.req.target
    BY <1>2 DEF ConflictIsReal, normalizedRequest
  <2>1. CASE b \in answers
    BY <2>1 DEF SubmissionInv, ConflictIsReal
  <2>2. CASE b = a
    BY <1>5, <2>2, VerdictTells DEF Alike
  <2> QED
    BY <1>2, <2>1, <2>2
<1> QED
  BY <1>7, <1>8, <1>9, <1>10, <1>11 DEF SubmissionInv

(* A run ends.                                                             *)
LEMMA RunEndsHolds ==
  ASSUME SubmissionInv, NEW k \in Keys, RunEnds(k)
  PROVE  SubmissionInv' /\ Grows
<1>1. /\ ledger \in [Keys -> Row \union {NoRow}]
      /\ ledger[k] # NoRow
      /\ ledger' = [ledger EXCEPT ![k] = [ledger[k] EXCEPT !.ended = TRUE]]
      /\ UNCHANGED <<handler, answers>>
  BY DEF SubmissionInv, TypeOK, RunEnds
<1>2. /\ [ledger[k] EXCEPT !.ended = TRUE] \in Row
      /\ Alike(ledger[k], [ledger[k] EXCEPT !.ended = TRUE])
  BY <1>1 DEF Row, Alike
<1> DEFINE ended == [ledger[k] EXCEPT !.ended = TRUE]
<1>3. ended # NoRow
  BY <1>2, Sentinels
<1> HIDE DEF ended
<1>4. \A j \in Keys : ledger'[j] = IF j = k THEN ended ELSE ledger[j]
  BY <1>1 DEF ended
<1>5. TypeOK'
  BY <1>1, <1>2 DEF SubmissionInv, TypeOK
<1>6. Grows
  <2>1. Alike(ledger[k], ended)
    BY <1>2 DEF ended
  <2> QED
    BY <1>3, <1>4, <2>1 DEF Grows, Alike
<1>7. ASSUME NEW t \in Submissions PROVE Knows(t)'
  <2>1. SUFFICES ASSUME handler[t].mine # NoRow
                 PROVE  ledger'[handler[t].req.key] = NoRow
    BY <1>1, <1>6, KnowledgeLasts
  <2>2. /\ ledger[handler[t].req.key] = NoRow
        /\ handler[t].req.key \in Keys
    BY <2>1, RequestParts DEF SubmissionInv, Knows
  <2> QED
    BY <1>1, <1>4, <2>2
<1>8. Exclusive'
  BY <1>1 DEF SubmissionInv, Exclusive
<1> QED
  BY <1>1, <1>5, <1>6, <1>7, <1>8, AnswersLast DEF SubmissionInv

(* One step per action.                                                    *)
LEMMA NextHolds ==
  ASSUME SubmissionInv, [Next]_vars
  PROVE  SubmissionInv'
<1>1. CASE UNCHANGED vars
  BY <1>1 DEF SubmissionInv, TypeOK, Knows, NewRow, Exclusive, vars,
              AcceptedIsStored, Accepted, ConflictIsReal
<1>2. CASE \E k \in Keys : RunEnds(k)
  BY <1>2, RunEndsHolds
<1>3. ASSUME NEW s \in Submissions,
             \/ Receive(s) \/ Handle(s) \/ Fail(s) \/ CommitUnknown(s)
             \/ Crash(s)
      PROVE  SubmissionInv'
  <2>1. CASE Receive(s)
    BY <2>1, ReceiveHolds
  <2>2. CASE BeginTx(s)
    BY <2>2, BeginHolds
  <2>3. CASE Insert(s)
    BY <2>3, InsertHolds
  <2>4. CASE Read(s)
    BY <2>4, ReadHolds
  <2>5. CASE Commit(s)
    <3> DEFINE h == [handler[s] EXCEPT !.pc = "committed", !.conn = FALSE,
                                       !.mine = NoRow]
    <3>1. handler[s] \in Handler
      BY DEF SubmissionInv, TypeOK
    <3>2. /\ h \in Handler /\ h.mine = NoRow /\ h.pc = "committed"
          /\ h.req = handler[s].req /\ h.stored = handler[s].stored
      BY <3>1 DEF Handler, Places
    <3>3. /\ At(s, "read") /\ ledger' = Committed(s) /\ Step(s, h)
          /\ UNCHANGED answers
      BY <2>5 DEF Commit
    <3> QED
      BY <3>2, <3>3, CommitHolds
  <2>6. CASE CommitUnknown(s)
    <3>1. /\ Resting("finished") \in Handler
          /\ Resting("finished").mine = NoRow
          /\ Resting("finished").pc = "finished"
      BY RestingIsHandler DEF Places, Resting
    <3> QED
      BY <2>6, <3>1, CommitHolds DEF CommitUnknown
  <2>7. CASE Respond(s)
    BY <2>7, RespondHolds
  <2>8. CASE Fail(s) \/ Crash(s)
    BY <2>8, StopHolds DEF Fail, Crash
  <2> QED
    BY <1>3, <2>1, <2>2, <2>3, <2>4, <2>5, <2>6, <2>7, <2>8 DEF Handle
<1> QED
  BY <1>1, <1>2, <1>3 DEF Next

(* The inductive invariant holds throughout.                               *)
LEMMA SubmissionInvariance == Spec => []SubmissionInv
<1>1. SubmissionInv /\ [Next]_vars => SubmissionInv'
  BY NextHolds
<1> QED
  BY InitHolds, <1>1, PTL DEF Spec

(* Type correctness of the ledger, the handlers and the answers of         *)
(* POST /runs.                                                             *)
THEOREM SubmissionTypeCorrect == Spec => []TypeOK
<1>1. SubmissionInv => TypeOK
  BY DEF SubmissionInv
<1> QED
  BY <1>1, SubmissionInvariance, PTL

(* A run that handleAsyncSubmit accepted is committed with the request and *)
(* the callback it accepted, through every failure and retry.              *)
THEOREM AcceptanceDurable == Spec => []AcceptedIsStored
<1>1. SubmissionInv => AcceptedIsStored
  BY DEF SubmissionInv
<1> QED
  BY <1>1, SubmissionInvariance, PTL

(* The retry of an accepted submission is never answered 409: a conflict   *)
(* stays real because no statement changes a committed row.                *)
THEOREM RetriesSafe == Spec => []RetryNeverConflicts
<1>1. SubmissionInv => RetryNeverConflicts
  BY DEF SubmissionInv, AcceptedIsStored, ConflictIsReal, Accepted,
         RetryNeverConflicts, Same, normalizedRequest
<1> QED
  BY <1>1, SubmissionInvariance, PTL

(* However often a request is submitted, its key has one run.              *)
THEOREM Idempotent == Spec => []OneRunPerKey
<1>1. SubmissionInv => OneRunPerKey
  <2> SUFFICES ASSUME SubmissionInv, NEW a \in Accepted, NEW b \in Accepted,
                      a.req.key = b.req.key
               PROVE  Same(a.req, b.req) /\ a.run = b.run
    BY DEF OneRunPerKey
  <2>1. a.run = b.run /\ a.req.target = b.req.target
    BY DEF SubmissionInv, AcceptedIsStored
  <2>2. normalizedRequest(a.req) = normalizedRequest(b.req)
    BY DEF SubmissionInv, AcceptedIsStored
  <2> QED
    BY <2>1, <2>2 DEF Same, normalizedRequest
<1> QED
  BY <1>1, SubmissionInvariance, PTL

(* A submission never touches a committed row.                             *)
THEOREM CommittedRowsFinal == Spec => RowImmutable
<1> DEFINE Kept == \A k \in Keys :
                     ledger[k] # NoRow
                       => ledger'[k] \in {ledger[k],
                                          [ledger[k] EXCEPT !.ended = TRUE]}
<1>1. SubmissionInv /\ [Next]_vars => [Kept]_vars
  <2> SUFFICES ASSUME SubmissionInv, Next PROVE Kept
    BY DEF vars
  <2>1. ASSUME NEW s \in Submissions, At(s, "read"), ledger' = Committed(s)
        PROVE  Kept
    <3>1. Knows(s) /\ handler[s].pc = "read" /\ handler[s].req.key \in Keys
          /\ ledger \in [Keys -> Row \union {NoRow}]
      BY <2>1, RequestParts DEF SubmissionInv, TypeOK, At, Knows
    <3> QED
      BY <2>1, <3>1 DEF Committed, Knows
  <2>2. ASSUME NEW j \in Keys, RunEnds(j) PROVE Kept
    BY <2>2 DEF RunEnds, SubmissionInv, TypeOK
  <2>3. CASE UNCHANGED ledger
    BY <2>3
  <2>4. ASSUME NEW s \in Submissions,
               \/ Receive(s) \/ Handle(s) \/ Fail(s) \/ CommitUnknown(s)
               \/ Crash(s)
        PROVE  \/ UNCHANGED ledger
               \/ At(s, "read") /\ ledger' = Committed(s)
    BY <2>4 DEF Receive, Handle, Fail, CommitUnknown, Crash, BeginTx, Insert,
                Read, Commit, Respond
  <2> QED
    BY <2>1, <2>2, <2>3, <2>4 DEF Next
<1> QED
  BY <1>1, SubmissionInvariance, PTL DEF Spec, RowImmutable
=============================================================================
