----------------------------- MODULE Submission -----------------------------
(***************************************************************************)
(* POST /runs (handleAsyncSubmit in api/lifecycle.go, CreateOrGet in       *)
(* api/lifecycle_store.go): concurrent submissions, retries of the same    *)
(* request among them, meet in one table with a unique index on            *)
(* request_id.  What follows a run's creation is in RunLedger; here a run  *)
(* may end, which decides between the answers 202 and 200.                 *)
(*                                                                         *)
(* The transaction runs at READ COMMITTED.  Its INSERT ... ON CONFLICT DO  *)
(* NOTHING waits while another transaction has inserted the same           *)
(* request_id and neither committed nor rolled back.  A transaction holds  *)
(* one connection of the pool from BeginTx to its end, also while it       *)
(* waits.  The error codes of a refusal are not told apart, SHA-256 is     *)
(* taken to be injective, and a run id, drawn at random, is named by the   *)
(* submission that drew it.                                                *)
(***************************************************************************)
EXTENDS Naturals, FiniteSets

CONSTANTS
  Submissions,   \* HTTP requests, retries included; their number bounds them
  Keys,          \* values of Idempotency-Key; "" when it is missing
  Correlations,  \* values of X-Correlation-ID; "" when it is missing
  Bodies,        \* contents of a request body, apart from the two identities
  ValidBodies,   \* those that decode, validate and carry no callback
  Layouts,       \* ways to write the same JSON
  Targets,       \* callback URL and workflow id; NoTarget without headers
  NoTarget,
  Requests,      \* the requests that are submitted
  NoRequest,
  NoRow,         \* no row has the request_id
  MaxOpenConns   \* SetMaxOpenConns

Request ==
  [json : BOOLEAN,                        \* Content-Type
   key : Keys, correlation : Correlations,
   bodyKey : Keys, bodyCorrelation : Correlations,   \* "" when left out
   body : Bodies, layout : Layouts,
   wellFormed : BOOLEAN,                  \* callback headers, if present
   target : Targets \union {NoTarget}]

ASSUME SubmissionConstants ==
  /\ Requests \subseteq Request
  /\ ValidBodies \subseteq Bodies
  /\ NoTarget \notin Targets
  /\ MaxOpenConns \in Nat \ {0}

(* The columns of a run that a submission writes or reads.                 *)
Digest == [key : Keys, correlation : Correlations, body : ValidBodies]
Row == [run : Submissions, digest : Digest, target : Targets \union {NoTarget},
        ended : BOOLEAN]

ASSUME Sentinels == NoRow \notin Row /\ NoRequest \notin Requests

VARIABLES
  ledger,    \* the committed row of each request_id
  handler,   \* the handler of each submission
  answers    \* the answers that tell a client about its key

vars == <<ledger, handler, answers>>

Places == {"idle", "received", "begun", "inserted", "read", "committed",
           "finished"}
Handler ==
  [pc : Places,
   req : Requests \union {NoRequest},
   conn : BOOLEAN,                \* holds a connection
   mine : Row \union {NoRow},     \* the row inserted and not yet committed
   stored : Row \union {NoRow}]   \* what getDurable returned

Accepting == {"accepted", "ended"}
Conflicts == {"idempotency_conflict", "idempotency_callback_conflict"}
Answer == [req : Requests, code : Accepting \union Conflicts,
           run : Submissions]

(* A handler that has not begun, or is over: it holds nothing.             *)
Resting(place) == [pc |-> place, req |-> NoRequest, conn |-> FALSE,
                   mine |-> NoRow, stored |-> NoRow]

Init ==
  /\ ledger = [k \in Keys |-> NoRow]
  /\ handler = [s \in Submissions |-> Resting("idle")]
  /\ answers = {}

At(s, place) == handler[s].pc = place
Step(s, record) == handler' = [handler EXCEPT ![s] = record]

(***************************************************************************)
(* Before the ledger is asked.                                             *)
(***************************************************************************)

(* The handler's early returns; hosts are the targets on a host that the   *)
(* process allows.                                                         *)
Refused(req, hosts) ==
  \/ ~req.json
  \/ req.key = "" \/ req.correlation = ""
  \/ req.target # NoTarget /\ (~req.wellFormed \/ req.target \notin hosts)
  \/ req.body \notin ValidBodies
  \/ req.bodyKey \notin {"", req.key}
  \/ req.bodyCorrelation \notin {"", req.correlation}

(* A submission reaches a process, each with its own host allow-list, and  *)
(* is refused or goes on to the ledger.                                    *)
Receive(s) ==
  /\ At(s, "idle")
  /\ \E req \in Requests, hosts \in SUBSET Targets :
       Step(s, IF Refused(req, hosts) THEN Resting("finished")
               ELSE [Resting("received") EXCEPT !.req = req])
  /\ UNCHANGED <<ledger, answers>>

normalizedRequest_Early(req) ==         \* Mistake: before the identities are in
  [key |-> req.bodyKey, correlation |-> req.bodyCorrelation,
   body |-> req.body]

(* Missing identities are filled in from the headers, and the layout is    *)
(* gone, before the digest is taken.                                       *)
normalizedRequest(req) ==
  [key |-> req.key, correlation |-> req.correlation, body |-> req.body]

NewRow(s) ==
  [run |-> s, digest |-> normalizedRequest(handler[s].req),
   target |-> handler[s].req.target, ended |-> FALSE]

(***************************************************************************)
(* CreateOrGet.                                                            *)
(***************************************************************************)

Connections == {s \in Submissions : handler[s].conn}

BeginTx(s) ==
  /\ At(s, "received")
  /\ Cardinality(Connections) < MaxOpenConns
  /\ Step(s, [handler[s] EXCEPT !.pc = "begun", !.conn = TRUE])
  /\ UNCHANGED <<ledger, answers>>

(* Another transaction has inserted the key and is still open.             *)
Locked(s) ==
  \E t \in Submissions \ {s} :
    /\ handler[t].mine # NoRow
    /\ handler[t].req.key = handler[s].req.key

(* INSERT ... ON CONFLICT (request_id) DO NOTHING.                         *)
Insert(s) ==
  /\ At(s, "begun") /\ ~Locked(s)
  /\ Step(s, [handler[s] EXCEPT
                !.pc = "inserted",
                !.mine = IF ledger[handler[s].req.key] = NoRow
                         THEN NewRow(s) ELSE NoRow])
  /\ UNCHANGED <<ledger, answers>>

Read_Pool(s) ==                         \* Mistake: reads on a connection
  /\ At(s, "inserted")                  \* of its own
  /\ Cardinality(Connections) < MaxOpenConns
  /\ Step(s, [handler[s] EXCEPT
                !.pc = "read",
                !.stored = IF handler[s].mine # NoRow THEN handler[s].mine
                           ELSE ledger[handler[s].req.key]])
  /\ UNCHANGED <<ledger, answers>>

(* getDurable within the transaction: its own insert, or the row that was  *)
(* there.                                                                  *)
Read(s) ==
  /\ At(s, "inserted")
  /\ Step(s, [handler[s] EXCEPT
                !.pc = "read",
                !.stored = IF handler[s].mine # NoRow THEN handler[s].mine
                           ELSE ledger[handler[s].req.key]])
  /\ UNCHANGED <<ledger, answers>>

(* What a commit leaves in the table.                                      *)
Committed(s) ==
  IF handler[s].mine = NoRow THEN ledger
  ELSE [ledger EXCEPT ![handler[s].req.key] = handler[s].mine]

(* Created by this submission, as RowsAffected = 1 tells.                  *)
Created(s) == handler[s].stored.run = s

Commit_Dropped(s) ==                    \* Mistake: the commit error is ignored
  /\ At(s, "read")
  /\ ledger' \in {ledger, Committed(s)}
  /\ Step(s, [handler[s] EXCEPT !.pc = "committed", !.conn = FALSE,
                                !.mine = NoRow])
  /\ UNCHANGED answers

Commit(s) ==
  /\ At(s, "read")
  /\ ledger' = Committed(s)
  /\ Step(s, [handler[s] EXCEPT !.pc = "committed", !.conn = FALSE,
                                !.mine = NoRow])
  /\ UNCHANGED answers

(* A statement fails, or the client is gone and its context is canceled:   *)
(* the deferred Rollback undoes the insert and frees the connection, and   *)
(* the answer is 500 ledger_unavailable, which says nothing about the key. *)
Fail(s) ==
  /\ handler[s].pc \in {"received", "begun", "inserted", "read"}
  /\ Step(s, Resting("finished"))
  /\ UNCHANGED <<ledger, answers>>

(* The database commits and its answer does not arrive.                    *)
CommitUnknown(s) ==
  /\ At(s, "read")
  /\ ledger' = Committed(s)
  /\ Step(s, Resting("finished"))
  /\ UNCHANGED answers

(***************************************************************************)
(* After the ledger has answered.                                          *)
(***************************************************************************)

Verdict_NoCallback(s) ==                \* Mistake: compares the digest only
  IF handler[s].stored.digest # normalizedRequest(handler[s].req)
  THEN "idempotency_conflict" ELSE "accepted"

(* The answer to a stored run: it must be the run of this very request.    *)
Verdict(s) ==
  LET stored == handler[s].stored
      req == handler[s].req
  IN  CASE stored.digest # normalizedRequest(req) -> "idempotency_conflict"
        [] /\ stored.digest = normalizedRequest(req)
           /\ stored.target # req.target -> "idempotency_callback_conflict"
        [] OTHER -> IF ~Created(s) /\ stored.ended THEN "ended" ELSE "accepted"

(* The run that the answer names.                                          *)
submissionFrom(s) == handler[s].stored.run

Respond(s) ==
  /\ At(s, "committed")
  /\ answers' = answers \union
                  {[req |-> handler[s].req, code |-> Verdict(s),
                    run |-> submissionFrom(s)]}
  /\ Step(s, Resting("finished"))
  /\ UNCHANGED ledger

(* The process dies; the database rolls an open transaction back.          *)
Crash(s) ==
  /\ handler[s].pc \notin {"idle", "finished"}
  /\ Step(s, Resting("finished"))
  /\ UNCHANGED <<ledger, answers>>

(* A worker ends the run.                                                  *)
RunEnds(k) ==
  /\ ledger[k] # NoRow /\ ~ledger[k].ended
  /\ ledger' = [ledger EXCEPT ![k].ended = TRUE]
  /\ UNCHANGED <<handler, answers>>

Handle(s) ==
  \/ BeginTx(s) \/ Insert(s) \/ Read(s) \/ Commit(s)
  \/ Respond(s)

Next ==
  \/ \E s \in Submissions :
       \/ Receive(s) \/ Handle(s) \/ Fail(s) \/ CommitUnknown(s) \/ Crash(s)
  \/ \E k \in Keys : RunEnds(k)

Spec == Init /\ [][Next]_vars

(* A handler that can go on does.                                          *)
FairSpec == Spec /\ \A s \in Submissions : WF_vars(Handle(s))

(***************************************************************************)
(* Properties.                                                             *)
(***************************************************************************)

TypeOK ==
  /\ ledger \in [Keys -> Row \union {NoRow}]
  /\ handler \in [Submissions -> Handler]
  /\ answers \in SUBSET Answer

Accepted == {a \in answers : a.code \in Accepting}

(* Accepting is durable and exact: the run an accepting answer names is    *)
(* committed under the key of the request it answers, with that request's  *)
(* digest and callback, whatever crashed, failed or was retried meanwhile. *)
AcceptedIsStored ==
  \A a \in Accepted :
    /\ ledger[a.req.key] # NoRow
    /\ ledger[a.req.key].run = a.run
    /\ ledger[a.req.key].digest = normalizedRequest(a.req)
    /\ ledger[a.req.key].target = a.req.target

(* The same request: equal once written alike, with the same callback.     *)
Same(req, other) ==
  /\ req.key = other.key /\ req.correlation = other.correlation
  /\ req.body = other.body /\ req.target = other.target

(* A retry is never told that it conflicts: after a submission was         *)
(* accepted, no submission of the same request is answered 409, in         *)
(* whatever order their transactions ran and however it was written.       *)
RetryNeverConflicts ==
  \A a \in Accepted, b \in answers :
    Same(a.req, b.req) => b.code \notin Conflicts

(* Retries create one run: two accepting answers for one key are answers   *)
(* to the same request and name the same run.                              *)
OneRunPerKey ==
  \A a, b \in Accepted :
    a.req.key = b.req.key => Same(a.req, b.req) /\ a.run = b.run

(* No submission changes the row of another: a committed row stays as it   *)
(* is, except that its run ends.                                           *)
RowImmutable ==
  [][\A k \in Keys :
       ledger[k] # NoRow
         => ledger'[k] \in {ledger[k], [ledger[k] EXCEPT !.ended = TRUE]}]_vars

(* Every submission is over some time, although transactions wait for each *)
(* other's key and for the connections they hold: there is no deadlock     *)
(* between the lock on a key and the pool.                                 *)
SubmissionsEnd == \A s \in Submissions : At(s, "received") ~> At(s, "finished")
=============================================================================
