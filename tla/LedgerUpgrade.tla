---------------------------- MODULE LedgerUpgrade ----------------------------
(***************************************************************************)
(* A replica starts over a ledger that an earlier release may have left    *)
(* (NewRunStore, migrateLifecycle and backfillCanonicalResultPayloads in   *)
(* api/store.go and api/lifecycle_store.go), and then serves the           *)
(* synchronous compatibility path (handleSubmitRunSync in api/main.go)     *)
(* beside the durable runs.  Several replicas may start at once, each may  *)
(* die between two statements, and others already serve meanwhile.         *)
(*                                                                         *)
(* Each statement commits on its own.  The backfill is one transaction     *)
(* that locks what it reads, so it is one step.  The bytes of a result are *)
(* told apart by who wrote them: the execution, the backfill from the      *)
(* JSONB projection, or the synchronous path after a failed write.  What a *)
(* worker does with a run is RunLedger's subject; here it is the steps a   *)
(* row can take under it.  No process of the earlier release is running,   *)
(* and the result sink is configured or not throughout.                    *)
(***************************************************************************)
EXTENDS Naturals, Sequences

CONSTANTS
  Replicas,
  LegacyRuns,   \* runs of earlier releases
  SyncRuns,     \* runs the compatibility path may be asked for
  Ledgers,      \* the ledgers an earlier release may have left
  MaxFaults     \* processes that die

VARIABLES
  start,       \* the ledger as it was found
  oldTable,    \* mitigation_check_run exists
  newTable,    \* defense_validation_run exists
  columns,     \* its columns beyond the six it was created with
  where,       \* the table that holds the row of a run
  row,         \* the row
  sink,        \* the Databricks result table, by run
  configured,  \* the processes have a result sink
  pc,          \* how far a replica has come in starting
  call,        \* the synchronous requests
  merging,     \* MERGE statements of the synchronous path under way
  faults

ledgerVars == <<oldTable, newTable, columns, where, row>>
callVars == <<call, merging>>
vars == <<start, oldTable, newTable, columns, where, row, sink, configured,
          pc, call, merging, faults>>

Runs == LegacyRuns \union SyncRuns

(* "match" is the NOT NULL verdict column of the oldest ledgers; the others*)
(* stand for the columns migrateLifecycle adds, in its order.              *)
ColumnOrder == <<"status", "payload", "callback_url", "callback_state">>
LifecycleColumns == {ColumnOrder[i] : i \in DOMAIN ColumnOrder}
Columns == {"match"} \union LifecycleColumns

Contents == {"none", "original", "rebuilt", "degraded"}
Statuses == {"NULL", "queued", "running", "completed", "failed", "canceled"}
Terminal == {"completed", "failed", "canceled"}
Settled == {"delivered", "configuration_failed"}
Events == {"NULL", "waiting", "pending"} \union Settled

(* The columns that control depends on.  durable: request_id is not null;  *)
(* settled: callback_delivered_at or callback_configuration_failed_at;     *)
(* readable: this release can decode response and render it again.         *)
Row ==
  [durable : BOOLEAN, status : Statuses, malfunction : BOOLEAN,
   response : Contents, readable : BOOLEAN, payload : Contents, pending : BOOLEAN,
   url : BOOLEAN, event : Events, settled : Settled \union {"no"}]

NoRow ==
  [durable |-> FALSE, status |-> "NULL", malfunction |-> FALSE,
   response |-> "none", readable |-> TRUE, payload |-> "none", pending |-> FALSE,
   url |-> FALSE, event |-> "NULL", settled |-> "no"]

(* A row that StageOutcome or CompletePublished wrote, that is, one with a *)
(* result that may have been published.                                    *)
MayBePublished(x) == x.pending \/ x.status = "completed"

(* What a release up to this one can have left of a run: a synchronous     *)
(* row with the six first columns, or a durable one, before result_payload *)
(* existed or after, with or without callback columns.  A result that came *)
(* with its bytes was rendered by this code and can be rendered again.     *)
PossibleRow(x) ==
  /\ x \in Row
  /\ x.payload \in {"none", x.response}
  /\ x.response \in {"none", "original"}
  /\ ~x.readable => x.durable /\ x.response = "original" /\ x.payload = "none"
  /\ x.pending => x.status \in {"queued", "running"} /\ x.response = "original"
  /\ ~x.durable =>
       /\ x.status \in {"NULL", "completed", "failed"}
       /\ x.response = "original" /\ x.payload = "none" /\ ~x.url
  /\ x.durable =>
       /\ x.status # "NULL"
       /\ x.status = "queued" /\ ~x.pending => x.response = "none"
       /\ x.status = "completed" => x.response = "original"
  /\ ~x.url => x.event = "NULL" /\ x.settled = "no"
  /\ x.settled # "no" => x.status \in Terminal /\ x.event \in {"NULL", x.settled}
  /\ x.event \in Settled => x.settled = x.event
  /\ x.event = "waiting" => x.status \notin Terminal
  /\ x.event = "pending" => x.status \in Terminal

(* What a row can hold that has only these columns.                        *)
Fits(x, cols) ==
  /\ "status" \notin cols => ~x.durable /\ x.status = "NULL"
  /\ "payload" \notin cols => x.payload = "none"
  /\ "callback_url" \notin cols => ~x.url
  /\ "callback_state" \notin cols => x.event = "NULL"

(* A ledger an earlier release left: rows are in tables that exist, columns*)
(* are those of the table that the upgrade will use, and a completed       *)
(* durable run names a published row when there was a sink.                *)
UsedTable(l) == IF l.newTable THEN "new" ELSE "old"

PossibleLedger(l) ==
  /\ l.oldTable \in BOOLEAN /\ l.newTable \in BOOLEAN
  /\ l.columns \subseteq Columns
  /\ l.where \in [Runs -> {"nowhere", "old", "new"}]
  /\ l.row \in [Runs -> Row] /\ l.sink \in [Runs -> Contents]
  /\ l.configured \in BOOLEAN
  /\ \A r \in Runs :
       /\ l.where[r] = "old" => l.oldTable
       /\ l.where[r] = "new" => l.newTable
       /\ IF l.where[r] = "nowhere" THEN l.row[r] = NoRow ELSE PossibleRow(l.row[r])
       /\ l.where[r] = UsedTable(l) => Fits(l.row[r], l.columns)
       /\ l.sink[r] # "none" =>
            l.configured /\ l.row[r].durable /\ l.sink[r] = l.row[r].response
       /\ l.row[r].durable /\ l.row[r].status = "completed" /\ l.configured =>
            l.sink[r] = "original"
  /\ \A r \in SyncRuns : l.where[r] = "nowhere"

ASSUME LedgersArePossible == \A l \in Ledgers : PossibleLedger(l)
ASSUME RunsAreDistinct == LegacyRuns \intersect SyncRuns = {}
ASSUME MaxFaultsIsNat == MaxFaults \in Nat

Starting ==
  {"rename", "drop", "create", "columns", "status", "callback", "backfill"}
Steps == {"down", "serving"} \union Starting

Calls ==
  [at : Replicas \union {"nobody"},
   step : {"idle", "publish", "merge", "verify", "add", "answer",
           "answered", "refused", "dead"},
   malfunction : BOOLEAN,
   status : {"none", "completed", "failed", "storage-failed"},
   content : Contents]
NoCall ==
  [at |-> "nobody", step |-> "idle", malfunction |-> FALSE,
   status |-> "none", content |-> "none"]

TypeOK ==
  /\ oldTable \in BOOLEAN /\ newTable \in BOOLEAN /\ configured \in BOOLEAN
  /\ columns \subseteq Columns
  /\ where \in [Runs -> {"nowhere", "old", "new"}]
  /\ row \in [Runs -> Row]
  /\ sink \in [Runs -> Contents]
  /\ pc \in [Replicas -> Steps]
  /\ call \in [SyncRuns -> Calls]
  /\ merging \subseteq SyncRuns
  /\ faults \in 0..MaxFaults

Init ==
  /\ start \in Ledgers
  /\ oldTable = start.oldTable /\ newTable = start.newTable
  /\ columns = start.columns
  /\ where = start.where /\ row = start.row
  /\ sink = start.sink /\ configured = start.configured
  /\ pc = [p \in Replicas |-> "down"]
  /\ call = [r \in SyncRuns |-> NoCall]
  /\ merging = {}
  /\ faults = 0

(***************************************************************************)
(* Start-up.                                                               *)
(***************************************************************************)
At(p, step) == pc[p] = step
Goto(p, step) == pc' = [pc EXCEPT ![p] = step]

(* Apply a statement to the rows of the table.                             *)
InTable(r) == where[r] = "new"
UpdateRows(Statement(_)) ==
  row' = [r \in Runs |-> IF InTable(r) THEN Statement(row[r]) ELSE row[r]]

(* The process is started, and has reached the database.                   *)
NewRunStore(p) ==
  /\ At(p, "down") /\ Goto(p, "rename")
  /\ UNCHANGED <<ledgerVars, start, sink, configured, callVars, faults>>

(* renameLegacyLedger: nothing is done when both tables exist.             *)
renameLegacyLedger(p) ==
  /\ At(p, "rename") /\ Goto(p, "drop")
  /\ IF oldTable /\ ~newTable
       THEN /\ oldTable' = FALSE /\ newTable' = TRUE
            /\ where' = [r \in Runs |-> IF where[r] = "old" THEN "new" ELSE where[r]]
       ELSE UNCHANGED <<oldTable, newTable, where>>
  /\ UNCHANGED <<columns, row, start, sink, configured, callVars, faults>>

(* Mistake: the verdict column of an older ledger stays.                   *)
DropMatch_Kept(p) ==
  /\ At(p, "drop") /\ Goto(p, "create")
  /\ UNCHANGED <<ledgerVars, start, sink, configured, callVars, faults>>

(* ALTER TABLE IF EXISTS ... DROP COLUMN IF EXISTS match.                  *)
DropMatch(p) ==
  /\ At(p, "drop") /\ Goto(p, "create")
  /\ columns' = IF newTable THEN columns \ {"match"} ELSE columns
  /\ UNCHANGED <<oldTable, newTable, where, row, start, sink, configured,
                 callVars, faults>>

(* CREATE TABLE IF NOT EXISTS, with the six columns.                       *)
CreateTable(p) ==
  /\ At(p, "create") /\ Goto(p, "columns")
  /\ newTable' = TRUE
  /\ columns' = IF newTable THEN columns ELSE {}
  /\ UNCHANGED <<oldTable, where, row, start, sink, configured, callVars, faults>>

(* The next ALTER TABLE ... ADD COLUMN IF NOT EXISTS that has an effect.   *)
(* A row gets NULL there.                                                  *)
NextColumn(c) ==
  \E i \in DOMAIN ColumnOrder :
    /\ c = ColumnOrder[i] /\ c \notin columns
    /\ \A j \in 1..(i - 1) : ColumnOrder[j] \in columns

AddColumn(p) ==
  /\ At(p, "columns")
  /\ \/ \E c \in LifecycleColumns :
          NextColumn(c) /\ columns' = columns \union {c} /\ UNCHANGED pc
     \/ LifecycleColumns \subseteq columns /\ Goto(p, "status") /\ UNCHANGED columns
  /\ UNCHANGED <<oldTable, newTable, where, row, start, sink, configured,
                 callVars, faults>>

(* SET status=CASE WHEN terminal_state='malfunction' ... WHERE status IS   *)
(* NULL.                                                                   *)
StatusFilled(x) ==
  IF x.status = "NULL"
    THEN [x EXCEPT !.status = IF x.malfunction THEN "failed" ELSE "completed"]
    ELSE x

FillStatus(p) ==
  /\ At(p, "status") /\ Goto(p, "callback")
  /\ UpdateRows(StatusFilled)
  /\ UNCHANGED <<oldTable, newTable, columns, where, start, sink, configured,
                 callVars, faults>>

(* Mistake: whether the run has ended is asked first.                      *)
EventFilled_Rearmed(x) ==
  IF x.url /\ x.event = "NULL"
    THEN [x EXCEPT !.event =
            CASE x.status \in Terminal -> "pending"
              [] x.status \notin Terminal /\ x.settled # "no" -> x.settled
              [] OTHER -> "waiting"]
    ELSE x

(* SET callback_state=CASE ... WHERE callback_url IS NOT NULL AND          *)
(* callback_state IS NULL.                                                 *)
EventFilled(x) ==
  IF x.url /\ x.event = "NULL"
    THEN [x EXCEPT !.event =
            CASE x.settled # "no" -> x.settled
              [] x.settled = "no" /\ x.status \in Terminal -> "pending"
              [] OTHER -> "waiting"]
    ELSE x

FillEvents(p) ==
  /\ At(p, "callback") /\ Goto(p, "backfill")
  /\ UpdateRows(EventFilled)
  /\ UNCHANGED <<oldTable, newTable, columns, where, start, sink, configured,
                 callVars, faults>>

(* Mistake: request_id is not looked at.                                   *)
LacksPayload_AnyRow(x) == x.payload = "none" /\ x.response # "none"

(* What the backfill selects: durable results without their bytes.         *)
LacksPayload(x) == x.durable /\ x.payload = "none" /\ x.response # "none"

Selected == {r \in Runs : InTable(r) /\ LacksPayload(row[r])}

(* Mistake: bytes that can be rebuilt are refused with the others.         *)
BackfillRefused_Always == Selected # {}

(* Mistake: a completed row is taken for one that was never published.     *)
BackfillRefused_PendingOnly ==
  \E r \in Selected : row[r].pending \/ ~row[r].readable

(* Exact bytes of a published result cannot be inferred, and a projection  *)
(* may not decode, or not render again: the start fails, and the           *)
(* transaction is rolled back.                                             *)
BackfillRefused ==
  \E r \in Selected : MayBePublished(row[r]) \/ ~row[r].readable

(* UPDATE ... WHERE result_payload IS NULL AND publication_pending=FALSE   *)
(* AND status<>'completed': response and payload are written anew.         *)
PayloadRebuilt(x) ==
  IF LacksPayload(x) /\ ~MayBePublished(x)
    THEN [x EXCEPT !.response = "rebuilt", !.payload = "rebuilt"]
    ELSE x

backfillCanonicalResultPayloads(p) ==
  /\ At(p, "backfill")
  /\ IF BackfillRefused
       THEN Goto(p, "down") /\ UNCHANGED row
       ELSE Goto(p, "serving") /\ UpdateRows(PayloadRebuilt)
  /\ UNCHANGED <<oldTable, newTable, columns, where, start, sink, configured,
                 callVars, faults>>

(* The process dies, or a statement of the migration fails, upon which     *)
(* main exits.  The synchronous requests it was serving get no answer.     *)
Crash(p) ==
  /\ faults < MaxFaults
  /\ ~At(p, "down") /\ Goto(p, "down")
  /\ call' = [r \in SyncRuns |->
                IF call[r].at = p /\ call[r].step \notin {"answered", "refused"}
                  THEN [call[r] EXCEPT !.step = "dead"] ELSE call[r]]
  /\ faults' = faults + 1
  /\ UNCHANGED <<ledgerVars, start, sink, configured, merging>>

Start(p) ==
  \/ NewRunStore(p) \/ renameLegacyLedger(p) \/ DropMatch(p)
  \/ CreateTable(p) \/ AddColumn(p) \/ FillStatus(p) \/ FillEvents(p)
  \/ backfillCanonicalResultPayloads(p)

(***************************************************************************)
(* The synchronous path.                                                   *)
(***************************************************************************)
Serving(p) == At(p, "serving")
SomeoneServes == \E p \in Replicas : Serving(p)

Doing(r, step) == call[r].step = step

(* decodeRequest or validate refuses: nothing is recorded.                 *)
Refuse(p, r) ==
  /\ Serving(p) /\ Doing(r, "idle")
  /\ call' = [call EXCEPT ![r].step = "refused", ![r].at = p]
  /\ UNCHANGED <<ledgerVars, start, sink, configured, pc, merging, faults>>

(* The rule is resolved and enrichEnvelope fills the envelope in.          *)
EnvelopeStatus(malfunction) == IF malfunction THEN "failed" ELSE "completed"

handleSubmitRunSync(p, r) ==
  /\ Serving(p) /\ Doing(r, "idle")
  /\ \E malfunction \in BOOLEAN :
       call' = [call EXCEPT ![r] =
                  [at |-> p, step |-> IF configured THEN "publish" ELSE "add",
                   malfunction |-> malfunction,
                   status |-> EnvelopeStatus(malfunction),
                   content |-> "original"]]
  /\ UNCHANGED <<ledgerVars, start, sink, configured, pc, merging, faults>>

(* Publish sends the MERGE.                                                *)
SendMerge(r) ==
  /\ Doing(r, "publish")
  /\ call' = [call EXCEPT ![r].step = "merge"]
  /\ merging' = merging \union {r}
  /\ UNCHANGED <<ledgerVars, start, sink, configured, pc, faults>>

(* The table takes the row unless it has one, or never sees the statement; *)
(* in either case the sender may be gone by then.                          *)
MergeLands(r) ==
  /\ r \in merging /\ merging' = merging \ {r}
  /\ \/ sink' = [sink EXCEPT ![r] = IF @ = "none" THEN "original" ELSE @]
     \/ UNCHANGED sink
  /\ UNCHANGED <<ledgerVars, start, configured, pc, call, faults>>

(* The caller goes away, a deadline passes, or an answer is lost: at any   *)
(* point of Publish, which then returns an error.                          *)
PublishFails(r) ==
  /\ Doing(r, "publish") \/ Doing(r, "merge")
  /\ call' = [call EXCEPT ![r].step = "verify"]
  /\ UNCHANGED <<ledgerVars, start, sink, configured, pc, merging, faults>>

(* The read-back of Publish, or Verify, finds exactly the row.             *)
ReadBack(r) ==
  /\ Doing(r, "verify") \/ (Doing(r, "merge") /\ r \notin merging)
  /\ sink[r] = call[r].content
  /\ call' = [call EXCEPT ![r].step = "add"]
  /\ UNCHANGED <<ledgerVars, start, sink, configured, pc, merging, faults>>

(* Mistake: an answer that did not come is taken for success.              *)
Degraded_NotAtAll(c) == c

(* Verify fails too: the result is rendered again, unless the run is a     *)
(* malfunction, which is reported as failed already.                       *)
Degraded(c) ==
  IF c.malfunction THEN c
  ELSE [c EXCEPT !.status = "storage-failed", !.content = "degraded"]

VerifyFails(r) ==
  /\ Doing(r, "verify")
  /\ call' = [call EXCEPT ![r] = [Degraded(@) EXCEPT !.step = "add"]]
  /\ UNCHANGED <<ledgerVars, start, sink, configured, pc, merging, faults>>

(* store.Add: INSERT of the six columns, which the NOT NULL column match   *)
(* would refuse.                                                           *)
Added(c) ==
  [NoRow EXCEPT !.malfunction = c.malfunction, !.response = c.content]

Add(r) ==
  /\ Doing(r, "add")
  /\ newTable /\ "match" \notin columns
  /\ where' = [where EXCEPT ![r] = "new"]
  /\ row' = [row EXCEPT ![r] = Added(call[r])]
  /\ call' = [call EXCEPT ![r].step = "answer"]
  /\ UNCHANGED <<oldTable, newTable, columns, start, sink, configured, pc,
                 merging, faults>>

(* An error of Add is logged, and the caller is answered all the same.     *)
AddFails(r) ==
  /\ Doing(r, "add")
  /\ call' = [call EXCEPT ![r].step = "answer"]
  /\ UNCHANGED <<ledgerVars, start, sink, configured, pc, merging, faults>>

Answer(r) ==
  /\ Doing(r, "answer")
  /\ call' = [call EXCEPT ![r].step = "answered"]
  /\ UNCHANGED <<ledgerVars, start, sink, configured, pc, merging, faults>>

SyncStep(r) ==
  \/ \E p \in Replicas : Refuse(p, r) \/ handleSubmitRunSync(p, r)
  \/ SendMerge(r) \/ PublishFails(r) \/ ReadBack(r) \/ VerifyFails(r)
  \/ Add(r) \/ AddFails(r) \/ Answer(r)

(***************************************************************************)
(* The workers and dispatchers of the replicas that serve, as far as a row *)
(* shows them.                                                             *)
(***************************************************************************)
WorkerKeeps ==
  UNCHANGED <<oldTable, newTable, columns, where, start, configured, pc,
              callVars, faults>>

(* A terminal statement arms the event of a run that asked for one.        *)
Ended(x, status) ==
  [x EXCEPT !.status = status, !.pending = FALSE,
            !.event = IF x.url THEN "pending" ELSE @]

(* The status columns of LeaseNext: what a worker may take up.             *)
Workable(r) ==
  SomeoneServes /\ InTable(r) /\ row[r].status \in {"queued", "running"}

(* LeaseNext, execution, StageOutcome: nothing was staged before.          *)
StageOutcome(r) ==
  /\ Workable(r) /\ row[r].response = "none"
  /\ row' = [row EXCEPT ![r].status = "running", ![r].response = "original",
                        ![r].payload = "original"]
  /\ UNCHANGED sink /\ WorkerKeeps

(* FailOutcome stores the outcome of a malfunction without its bytes.      *)
FailOutcome(r) ==
  /\ Workable(r) /\ row[r].response = "none"
  /\ row' = [row EXCEPT ![r] =
               [Ended(@, "failed") EXCEPT !.malfunction = TRUE,
                                          !.response = "original"]]
  /\ UNCHANGED sink /\ WorkerKeeps

MarkPublicationPending(r) ==
  /\ Workable(r) /\ row[r].response # "none" /\ configured /\ ~row[r].pending
  /\ row' = [row EXCEPT ![r].status = "running", ![r].pending = TRUE]
  /\ UNCHANGED sink /\ WorkerKeeps

(* Publish refuses an empty payload; a row that is there is left alone.    *)
Publish(r) ==
  /\ Workable(r) /\ row[r].pending /\ row[r].payload # "none"
  /\ sink' = [sink EXCEPT ![r] = IF @ = "none" THEN row[r].payload ELSE @]
  /\ UNCHANGED row /\ WorkerKeeps

(* CompletePublished, after a read-back, or at once without a sink.        *)
CompletePublished(r) ==
  /\ Workable(r) /\ row[r].payload # "none"
  /\ IF configured THEN row[r].pending /\ sink[r] = row[r].payload
                   ELSE row[r].response # "none"
  /\ row' = [row EXCEPT ![r] = Ended(@, "completed")]
  /\ UNCHANGED sink /\ WorkerKeeps

(* RetryVerification, when attempts are left.                              *)
RetryVerification(r) ==
  /\ Workable(r) /\ row[r].pending
  /\ row' = [row EXCEPT ![r].status = "queued"]
  /\ UNCHANGED sink /\ WorkerKeeps

(* The statements that end a run without a result.                         *)
GiveUp(r) ==
  /\ Workable(r)
  /\ \/ row' = [row EXCEPT ![r] = [Ended(@, "failed") EXCEPT !.malfunction = TRUE]]
     \/ ~row[r].pending /\ row' = [row EXCEPT ![r] = Ended(@, "canceled")]
  /\ UNCHANGED sink /\ WorkerKeeps

(* The dispatcher settles an event.                                        *)
Dispatch(r) ==
  /\ SomeoneServes /\ InTable(r) /\ row[r].event = "pending"
  /\ \E verdict \in Settled :
       row' = [row EXCEPT ![r].event = verdict, ![r].settled = verdict]
  /\ UNCHANGED sink /\ WorkerKeeps

WorkerStep(r) ==
  \/ StageOutcome(r) \/ FailOutcome(r) \/ MarkPublicationPending(r)
  \/ Publish(r) \/ RetryVerification(r) \/ CompletePublished(r) \/ GiveUp(r) \/ Dispatch(r)

Next ==
  \/ \E p \in Replicas : Start(p) \/ Crash(p)
  \/ \E r \in SyncRuns : SyncStep(r) \/ MergeLands(r)
  \/ \E r \in Runs : WorkerStep(r)

(* The platform restarts a process that ended, and a process that runs     *)
(* goes on.                                                                *)
Spec == Init /\ [][Next]_vars /\ \A p \in Replicas : WF_vars(Start(p))

(***************************************************************************)
(* Properties.                                                             *)
(***************************************************************************)

(* What GET /v1/defense-validation-runs/{id} shows: request_id is scanned  *)
(* into a string, so a row without one is an error, not a status.          *)
Shown(r) ==
  CASE ~InTable(r) -> "run_not_found"
    [] InTable(r) /\ ~row[r].durable -> "ledger_unavailable"
    [] OTHER -> row[r].status

(* renameLegacyLedger carries a ledger over "before the create below would *)
(* shadow it with an empty table": whoever serves sees every run that was  *)
(* there, in a table that takes new rows, unless both tables were found.   *)
LedgerCarriedOver ==
  SomeoneServes =>
    /\ newTable /\ columns = LifecycleColumns
    /\ (start.oldTable /\ start.newTable)
         \/ \A r \in Runs : start.where[r] # "nowhere" => InTable(r)

(* A run the durable API shows as completed can be served byte for byte:   *)
(* the payload is there, and it is what the result table holds.  Neither   *)
(* the migration, which calls every legacy row completed, nor an answer    *)
(* storage-failed of the synchronous path gets in the way.                 *)
ShownCompletedIsPublished ==
  SomeoneServes =>
    \A r \in Runs : Shown(r) = "completed" =>
      /\ row[r].payload # "none"
      /\ configured => sink[r] = row[r].payload

(* What the synchronous path answered stays true, whatever arrives later:  *)
(* completed names a published row with these bytes, a row of the result   *)
(* table with other bytes was announced as storage-failed, and the ledger, *)
(* where it has the run, has the bytes of the answer.                      *)
AnswerStaysTrue ==
  \A r \in SyncRuns : Doing(r, "answered") =>
    /\ call[r].status = "completed" /\ configured => sink[r] = call[r].content
    /\ sink[r] \notin {"none", call[r].content} => call[r].status = "storage-failed"
    /\ InTable(r) => row[r].response = call[r].content

(* After the migration the dispatcher finds every event it owes: that of a *)
(* run that ended is armed, that of a run under way waits, and one that    *)
(* was settled before the upgrade is not posted again.                     *)
EventsSurvive ==
  SomeoneServes =>
    \A r \in Runs : InTable(r) /\ row[r].url =>
      row[r].event \in IF row[r].status \notin Terminal THEN {"waiting"}
                       ELSE IF row[r].settled = "no" THEN {"pending"}
                       ELSE {row[r].settled}

(* The record of a run of the synchronous path is not rewritten by the     *)
(* backfill, by a worker or by the dispatcher.                             *)
SyncRecordFrozen ==
  [][\A r \in Runs : InTable(r) /\ ~row[r].durable =>
       /\ InTable(r)' /\ ~row[r].durable'
       /\ row'[r].response = row[r].response /\ row'[r].payload = row[r].payload
       /\ row'[r].event = row[r].event]_vars

(* A ledger whose results all have their bytes, or can still be given them *)
(* because they were not published and can be rendered, is taken over:     *)
(* some replica comes to serve, however many die on the way.               *)
Convertible ==
  \A r \in Runs :
    start.where[r] = UsedTable(start) /\ LacksPayload(start.row[r]) =>
      ~MayBePublished(start.row[r]) /\ start.row[r].readable

UpgradeConverges == Convertible => <>[]SomeoneServes
=============================================================================
