----------------------------- MODULE RunLedger -----------------------------
(***************************************************************************)
(* The durable run lifecycle of defense-validation: the PostgreSQL ledger  *)
(* (api/lifecycle_store.go), the workers that lease runs from it           *)
(* (api/worker.go) and the insert-only Databricks table they publish to    *)
(* (api/databricks.go).                                                    *)
(*                                                                         *)
(* Every SQL statement of the store is one atomic step.  A worker steps    *)
(* through executeOne between them, and may stall or die at any point; the *)
(* lease of a stalled worker runs out, another worker takes the run over,  *)
(* and the first one wakes up as a zombie that still acts on what it read. *)
(*                                                                         *)
(* Abstractions.  A lease token is random and fresh for every claim; the   *)
(* claim count of the row (column attempt) is a name for it that is unique *)
(* within the run.  A result is named by the claim whose execution         *)
(* produced it, because two executions never produce the same bytes        *)
(* (created_at is part of them).  Time is whether a lease still runs and   *)
(* whether a publication back-off is over.  Progress texts, timestamps and *)
(* failure details are left out.                                           *)
(***************************************************************************)
EXTENDS Naturals

CONSTANTS
  Runs,           \* runs that may be submitted; a run is its result_id too
  NoRun,          \* what an idle worker works on
  Workers,        \* worker goroutines, one per API process
  CallbackRuns,   \* runs submitted with callback headers
  ForeignRuns,    \* runs whose result_id somebody else writes to the table
  SinkConfigs,    \* is the result sink configured?  One choice per process
  MaxAttempts,              \* RunWorker.maxAttempts
  MaxVerificationAttempts,  \* RunWorker.maxVerificationAttempts
  MaxFaults       \* bound: crashes and stalls in a behaviour

ASSUME LedgerAssumption ==
  /\ NoRun \notin Runs
  /\ CallbackRuns \subseteq Runs
  /\ ForeignRuns \subseteq Runs
  /\ SinkConfigs \subseteq BOOLEAN
  /\ SinkConfigs # {}
  /\ MaxAttempts \in Nat \ {0}
  /\ MaxVerificationAttempts \in Nat \ {0}
  /\ MaxFaults \in Nat

VARIABLES
  row,       \* the ledger: one defense_validation_run row per run
  wk,        \* the local state of each worker
  sinkOn,    \* has the worker's process a result sink?
  sink,      \* the results the table holds for each run
  inflight,  \* MERGE statements sent and neither applied nor lost
  faults     \* crashes and stalls so far

vars == <<row, wk, sinkOn, sink, inflight, faults>>

-----------------------------------------------------------------------------
Statuses == {"absent", "queued", "running", "completed", "failed", "canceled"}
Terminal == {"completed", "failed", "canceled"}

NoLease == 0   \* lease_token IS NULL
NoResult == 0  \* response = '{}'
Foreign == 0   \* content of a table row that this service did not write

Row == [
  status : Statuses,
  cancel : BOOLEAN,        \* cancel_requested
  pending : BOOLEAN,       \* publication_pending
  backoff : BOOLEAN,       \* publication_retry_at lies in the future
  attempt : Nat,
  verification : Nat,      \* verification_attempt
  lease : Nat,             \* lease_token (and worker_id)
  live : BOOLEAN,          \* lease_expires_at lies in the future
  result : Nat,            \* response and result_payload
  placeholder : BOOLEAN,   \* result_ref.placeholder of that result
  callback : {"none", "waiting", "pending"}]  \* callback_state

PCs == {"idle", "executing", "decide", "refused", "canceling", "ready",
        "marking", "publishing", "merging", "readback", "verifying",
        "completing", "retrying", "conflicting"}

Worker == [
  pc : PCs,
  run : Runs \cup {NoRun},
  token : Nat,             \* run.LeaseToken
  recovered : BOOLEAN,     \* run.Result # nil: the claim found a staged result
  reconcile : BOOLEAN,     \* run.PublicationPending when claimed
  verdict : {"none", "ok", "malfunction", "error"},
  result : Nat,            \* outcome and payload
  placeholder : BOOLEAN,   \* outcome.ResultRef.Placeholder
  cancelSeen : BOOLEAN,    \* cancellationRequested
  leaseLost : BOOLEAN]

NewRow == [
  status |-> "absent", cancel |-> FALSE, pending |-> FALSE, backoff |-> FALSE,
  attempt |-> 0, verification |-> 0, lease |-> NoLease, live |-> FALSE,
  result |-> NoResult, placeholder |-> FALSE, callback |-> "none"]

Idle == [
  pc |-> "idle", run |-> NoRun, token |-> NoLease, recovered |-> FALSE,
  reconcile |-> FALSE, verdict |-> "none", result |-> NoResult,
  placeholder |-> FALSE, cancelSeen |-> FALSE, leaseLost |-> FALSE]

Init ==
  /\ row = [r \in Runs |-> NewRow]
  /\ wk = [w \in Workers |-> Idle]
  /\ sinkOn \in [Workers -> SinkConfigs]
  /\ sink = [r \in Runs |-> {}]
  /\ inflight = [r \in Runs |-> {}]
  /\ faults = 0

-----------------------------------------------------------------------------
(***************************************************************************)
(* The SQL statements of the store, as the row they leave.                 *)
(***************************************************************************)

(* Every terminal statement clears the lease and, in the same statement,   *)
(* makes the completion callback eligible when the run has one.            *)
Finish(q, s) ==
  [q EXCEPT !.status = s, !.lease = NoLease, !.live = FALSE,
            !.callback = IF q.callback = "none" THEN "none" ELSE "pending"]

Queued(r) ==
  [NewRow EXCEPT !.status = "queued",
                 !.callback = IF r \in CallbackRuns THEN "waiting" ELSE "none"]

(* Mistake: the claim limit also holds for a run with a staged result.     *)
Leasable_StagedLimited(q) ==
  /\ ~q.cancel \/ q.pending
  /\ q.attempt < MaxAttempts
  /\ ~q.backoff
  /\ q.status = "queued" \/ (q.status = "running" /\ ~q.live)

Leasable(q) ==
  /\ ~q.cancel \/ q.pending
  /\ q.attempt < MaxAttempts \/ q.result # NoResult
  /\ ~q.backoff
  /\ q.status = "queued" \/ (q.status = "running" /\ ~q.live)

Leased(q) ==
  [q EXCEPT !.status = "running", !.lease = q.attempt + 1, !.live = TRUE,
            !.attempt = q.attempt + 1, !.backoff = FALSE]

Stageable(q) == ~q.cancel /\ q.result = NoResult

Staged(q, p, ph) == [q EXCEPT !.result = p, !.placeholder = ph]

Completed(q, p, ph) ==
  [Finish(Staged(q, p, ph), "completed")
     EXCEPT !.pending = FALSE, !.backoff = FALSE]

(* Mistake: exhaustion starts one claim after the claim limit.             *)
Exhausted_OffByOne(q) ==
  /\ q.status = "running" /\ ~q.live
  /\ ~q.cancel
  /\ q.result = NoResult
  /\ q.attempt > MaxAttempts

Exhausted(q) ==
  /\ q.status = "running" /\ ~q.live
  /\ ~q.cancel
  /\ q.result = NoResult
  /\ q.attempt >= MaxAttempts

(* Mistake: the sweep does not look at publication_pending.                *)
Abandoned_Marked(q) ==
  /\ q.status = "running" /\ ~q.live
  /\ q.cancel

(* Mistake: the sweep leaves runs with a staged result to LeaseNext.       *)
Abandoned_NotStaged(q) ==
  /\ q.status = "running" /\ ~q.live
  /\ q.cancel /\ ~q.pending
  /\ q.result = NoResult

Abandoned(q) ==
  /\ q.status = "running" /\ ~q.live
  /\ q.cancel /\ ~q.pending

Canceled(q) == [Finish(q, "canceled") EXCEPT !.pending = FALSE]

(* Mistake: canceling a queued run does not arm its callback.              *)
CancelRequested_Silent(q) ==
  LET flagged == [q EXCEPT !.cancel = TRUE]
  IN  IF q.status = "queued" /\ ~q.pending
      THEN [flagged EXCEPT !.status = "canceled"]
      ELSE flagged

CancelRequested(q) ==
  LET flagged == [q EXCEPT !.cancel = TRUE]
  IN  IF q.status = "queued" /\ ~q.pending THEN Finish(flagged, "canceled")
      ELSE flagged

(* Mistake: the mark does not exclude an accepted cancellation.            *)
Markable_Canceled(q) == ~q.pending

Markable(q) == ~q.cancel /\ ~q.pending

Marked(q) == [q EXCEPT !.pending = TRUE, !.backoff = FALSE]

(* Mistake: the requeued row keeps its lease.                              *)
VerificationRetried_KeepsLease(q) ==
  LET counted == [q EXCEPT !.verification = q.verification + 1]
  IN  IF counted.verification >= MaxVerificationAttempts
      THEN [Finish(counted, "failed") EXCEPT !.pending = FALSE, !.backoff = FALSE]
      ELSE [counted EXCEPT !.status = "queued", !.backoff = TRUE]

VerificationRetried(q) ==
  LET counted == [q EXCEPT !.verification = q.verification + 1]
  IN  IF counted.verification >= MaxVerificationAttempts
      THEN [Finish(counted, "failed") EXCEPT !.pending = FALSE, !.backoff = FALSE]
      ELSE [counted EXCEPT !.status = "queued", !.lease = NoLease,
                           !.live = FALSE, !.backoff = TRUE]

Conflicted(q) == [Finish(q, "failed") EXCEPT !.pending = FALSE]

-----------------------------------------------------------------------------
(* Mistake: the fence asks for a running row, but not for the token.       *)
Holds_AnyToken(w) == row[wk[w].run].status = "running"

(* The WHERE clause that fences a worker's statements: its token, on a     *)
(* running row, under a lease that has not run out.                        *)
Holds(w) ==
  LET r == wk[w].run
  IN  row[r].status = "running" /\ row[r].lease = wk[w].token

Owns(w) == Holds(w) /\ row[wk[w].run].live

Set(r, q) == row' = [row EXCEPT ![r] = q]

(* A fenced UPDATE: it changes nothing when the fence or its own condition *)
(* fails, and the worker returns from executeOne either way.               *)
FencedReturn(w, can, q) ==
  /\ IF can THEN Set(wk[w].run, q) ELSE row' = row
  /\ wk' = [wk EXCEPT ![w] = Idle]
  /\ UNCHANGED <<sinkOn, sink, inflight, faults>>

At(w, pc) == wk[w].pc = pc

(* A step that only moves the worker on.                                   *)
Goto(w, pc) ==
  /\ wk' = [wk EXCEPT ![w].pc = pc]
  /\ UNCHANGED <<row, sinkOn, sink, inflight, faults>>

Return(w) ==
  /\ wk' = [wk EXCEPT ![w] = Idle]
  /\ UNCHANGED <<row, sinkOn, sink, inflight, faults>>

-----------------------------------------------------------------------------
(***************************************************************************)
(* The API's writes.                                                       *)
(***************************************************************************)

CreateRun(r) ==
  /\ row[r].status = "absent"
  /\ Set(r, Queued(r))
  /\ UNCHANGED <<wk, sinkOn, sink, inflight, faults>>

(* Mistake: a cancellation is accepted in every state.                     *)
Cancel_AnyTime(r) ==
  /\ row[r].status # "absent"
  /\ Set(r, CancelRequested(row[r]))
  /\ UNCHANGED <<wk, sinkOn, sink, inflight, faults>>

Cancel(r) ==
  /\ row[r].status \in {"queued", "running"}
  /\ Set(r, CancelRequested(row[r]))
  /\ UNCHANGED <<wk, sinkOn, sink, inflight, faults>>

-----------------------------------------------------------------------------
(***************************************************************************)
(* RunWorker.Run: between runs a worker recovers canceled rows, fails      *)
(* exhausted ones and claims the next.  An error of one call is logged and *)
(* the loop goes on, so the three may happen in any combination.           *)
(***************************************************************************)

(* One UPDATE over the whole table.                                        *)
RecoverCanceled(w) ==
  /\ At(w, "idle")
  /\ \E r \in Runs : Abandoned(row[r])
  /\ row' = [r \in Runs |-> IF Abandoned(row[r]) THEN Canceled(row[r]) ELSE row[r]]
  /\ UNCHANGED <<wk, sinkOn, sink, inflight, faults>>

FailExhausted(w) ==
  /\ At(w, "idle")
  /\ \E r \in Runs : Exhausted(row[r])
  /\ row' = [r \in Runs |-> IF Exhausted(row[r]) THEN Finish(row[r], "failed")
                            ELSE row[r]]
  /\ UNCHANGED <<wk, sinkOn, sink, inflight, faults>>

(* FOR UPDATE SKIP LOCKED: the oldest row no other transaction is locking, *)
(* so any eligible one.  The worker keeps the row it read.                 *)
LeaseNext(w, r) ==
  /\ At(w, "idle")
  /\ Leasable(row[r])
  /\ Set(r, Leased(row[r]))
  /\ wk' = [wk EXCEPT ![w] =
       [Idle EXCEPT
          !.pc = IF row[r].result = NoResult THEN "executing" ELSE "decide",
          !.run = r,
          !.token = row[r].attempt + 1,
          !.recovered = (row[r].result # NoResult),
          !.reconcile = row[r].pending,
          !.verdict = IF row[r].result = NoResult THEN "none" ELSE "ok",
          !.result = row[r].result,
          !.placeholder = row[r].placeholder]]
  /\ UNCHANGED <<sinkOn, sink, inflight, faults>>

-----------------------------------------------------------------------------
(***************************************************************************)
(* RunWorker.executeOne.                                                   *)
(***************************************************************************)

(* The heartbeat goroutine.  What it finds is read once, after execution.  *)
Heartbeat(w) ==
  /\ wk[w].pc \in {"executing", "decide"}
  /\ ~wk[w].leaseLost
  /\ wk' = IF Owns(w)
           THEN [wk EXCEPT ![w].cancelSeen = @ \/ row[wk[w].run].cancel]
           ELSE [wk EXCEPT ![w].leaseLost = TRUE]
  /\ UNCHANGED <<row, sinkOn, sink, inflight, faults>>

(* The executor returns an outcome, a malfunction or an error (a panic or  *)
(* a canceled context too).  The outcome carries a reference to the sink   *)
(* of this process, or a placeholder when it has none.                     *)
Execute(w) ==
  /\ At(w, "executing")
  /\ \E v \in {"ok", "malfunction", "error"} :
       wk' = [wk EXCEPT ![w].pc = "decide",
                        ![w].verdict = v,
                        ![w].result = IF v = "error" THEN NoResult ELSE wk[w].token,
                        ![w].placeholder = (v # "error" /\ ~sinkOn[w])]
  /\ UNCHANGED <<row, sinkOn, sink, inflight, faults>>

(* MarkCanceled asks for the token but not for a lease that still runs.    *)
MarkCanceled(w) ==
  LET q == row[wk[w].run]
  IN  FencedReturn(w, Holds(w) /\ q.cancel /\ ~q.pending, Canceled(q))

StopCanceled(w) == wk[w].cancelSeen /\ ~wk[w].reconcile

DecideCanceled(w) == At(w, "decide") /\ StopCanceled(w) /\ MarkCanceled(w)

DecideLeaseLost(w) ==
  At(w, "decide") /\ ~StopCanceled(w) /\ wk[w].leaseLost /\ Return(w)

Decide(w, v) ==
  /\ At(w, "decide")
  /\ ~StopCanceled(w) /\ ~wk[w].leaseLost
  /\ wk[w].verdict = v

Fail(w) ==
  /\ Decide(w, "error")
  /\ FencedReturn(w, Owns(w), Finish(row[wk[w].run], "failed"))

FailOutcome(w) ==
  LET q == row[wk[w].run]
  IN  /\ Decide(w, "malfunction")
      /\ FencedReturn(w, Owns(w) /\ ~q.cancel,
           Finish(Staged(q, wk[w].result, wk[w].placeholder), "failed"))

StageOutcome(w) ==
  LET r == wk[w].run
      can == Owns(w) /\ Stageable(row[r])
  IN  /\ Decide(w, "ok") /\ ~wk[w].recovered
      /\ IF can THEN Set(r, Staged(row[r], wk[w].result, wk[w].placeholder))
         ELSE row' = row
      /\ wk' = [wk EXCEPT ![w].pc = IF can THEN "ready" ELSE "refused"]
      /\ UNCHANGED <<sinkOn, sink, inflight, faults>>

UseStaged(w) == Decide(w, "ok") /\ wk[w].recovered /\ Goto(w, "ready")

(* Staging was refused: a cancellation or a lost lease?                    *)
AfterRefusal(w) ==
  /\ At(w, "refused")
  /\ IF Owns(w) /\ row[wk[w].run].cancel THEN Goto(w, "canceling") ELSE Return(w)

FinishCancel(w) == At(w, "canceling") /\ MarkCanceled(w)

CompletePublished(w) ==
  LET q == row[wk[w].run]
  IN  FencedReturn(w, Owns(w), Completed(q, wk[w].result, wk[w].placeholder))

CompletePlaceholder(w) ==
  At(w, "ready") /\ wk[w].placeholder /\ CompletePublished(w)

(* Mistake: recovery of a marked run publishes again.                      *)
BeginReconcile_Republish(w) ==
  /\ At(w, "ready") /\ ~wk[w].placeholder /\ wk[w].reconcile
  /\ Goto(w, "publishing")

BeginReconcile(w) ==
  /\ At(w, "ready") /\ ~wk[w].placeholder /\ wk[w].reconcile
  /\ Goto(w, "verifying")

(* Mistake: the publication starts without the durable mark.               *)
CheckCancellation_NoMark(w) ==
  /\ At(w, "ready") /\ ~wk[w].placeholder /\ ~wk[w].reconcile
  /\ \/ ~Owns(w) /\ Return(w)
     \/ Owns(w) /\ row[wk[w].run].cancel /\ Goto(w, "canceling")
     \/ Owns(w) /\ ~row[wk[w].run].cancel /\ Goto(w, "publishing")

(* The heartbeat just before the first publication.                        *)
CheckCancellation(w) ==
  /\ At(w, "ready") /\ ~wk[w].placeholder /\ ~wk[w].reconcile
  /\ \/ ~Owns(w) /\ Return(w)
     \/ Owns(w) /\ row[wk[w].run].cancel /\ Goto(w, "canceling")
     \/ Owns(w) /\ ~row[wk[w].run].cancel /\ Goto(w, "marking")

MarkPublicationPending(w) ==
  LET r == wk[w].run
      can == Owns(w) /\ Markable(row[r])
  IN  /\ At(w, "marking")
      /\ IF can THEN Set(r, Marked(row[r])) ELSE row' = row
      /\ wk' = [wk EXCEPT ![w] = IF can THEN [@ EXCEPT !.pc = "publishing"] ELSE Idle]
      /\ UNCHANGED <<sinkOn, sink, inflight, faults>>

(* Publish: the MERGE, then a read-back.  Without a sink it fails with an  *)
(* error that is not a verification error.                                 *)
PublishNoSink(w) == At(w, "publishing") /\ ~sinkOn[w] /\ Goto(w, "retrying")

PublishMerge(w) ==
  /\ At(w, "publishing") /\ sinkOn[w]
  /\ inflight' = [inflight EXCEPT ![wk[w].run] = @ \cup {wk[w].result}]
  /\ wk' = [wk EXCEPT ![w].pc = "merging"]
  /\ UNCHANGED <<row, sinkOn, sink, faults>>

MergeReturns(w) ==
  LET r == wk[w].run
  IN  /\ At(w, "merging")
      /\ wk[w].result \notin inflight[r] /\ sink[r] # {}
      /\ Goto(w, "readback")

MergeFails(w) == At(w, "merging") /\ Goto(w, "verifying")

(* Mistake: a row that is not there is taken for a verified one.           *)
VerifyStates_Absent(w) ==
  LET rows == sink[wk[w].run]
  IN  {"unknown"} \cup
      (IF ~sinkOn[w] THEN {}
       ELSE IF rows \subseteq {wk[w].result} THEN {"match"}
       ELSE {"conflict"})

(* What a SELECT by result_id can report, an error of the query included.  *)
VerifyStates(w) ==
  LET rows == sink[wk[w].run]
  IN  {"unknown"} \cup
      (IF ~sinkOn[w] THEN {}
       ELSE IF rows = {} THEN {"absent"}
       ELSE IF rows = {wk[w].result} THEN {"match"}
       ELSE {"conflict"})

(* A read-back that fails in any way is repeated by reconcilePublication.  *)
ReadBack(w) ==
  /\ At(w, "readback")
  /\ \E s \in VerifyStates(w) :
       Goto(w, IF s = "match" THEN "completing" ELSE "verifying")

ReconcilePublication(w) ==
  /\ At(w, "verifying")
  /\ \E s \in VerifyStates(w) :
       Goto(w, CASE s = "match" -> "completing"
                 [] s = "conflict" -> "conflicting"
                 [] OTHER -> "retrying")

FinishPublication(w) == At(w, "completing") /\ CompletePublished(w)

RetryVerification(w) ==
  LET q == row[wk[w].run]
  IN  At(w, "retrying") /\ FencedReturn(w, Owns(w) /\ q.pending, VerificationRetried(q))

FailPublicationConflict(w) ==
  /\ At(w, "conflicting")
  /\ FencedReturn(w, Owns(w), Conflicted(row[wk[w].run]))

-----------------------------------------------------------------------------
(***************************************************************************)
(* The environment: the table, the clock, and faults.                      *)
(***************************************************************************)

(* The insert-only MERGE takes effect, possibly long after its sender gave *)
(* up on it ...                                                            *)
MergeApplies(r) ==
  \E p \in inflight[r] :
    /\ inflight' = [inflight EXCEPT ![r] = @ \ {p}]
    /\ sink' = [sink EXCEPT ![r] = IF @ = {} THEN {p} ELSE @]
    /\ UNCHANGED <<row, wk, sinkOn, faults>>

(* ... or never does.                                                      *)
MergeLost(r) ==
  \E p \in inflight[r] :
    /\ inflight' = [inflight EXCEPT ![r] = @ \ {p}]
    /\ UNCHANGED <<row, wk, sinkOn, sink, faults>>

ForeignWrite(r) ==
  /\ r \in ForeignRuns /\ sink[r] = {}
  /\ sink' = [sink EXCEPT ![r] = {Foreign}]
  /\ UNCHANGED <<row, wk, sinkOn, inflight, faults>>

BackoffEnds(r) ==
  /\ row[r].backoff
  /\ Set(r, [row[r] EXCEPT !.backoff = FALSE])
  /\ UNCHANGED <<wk, sinkOn, sink, inflight, faults>>

(* Some worker still works on the claim that holds the row.                *)
HolderAlive(r) ==
  \E w \in Workers : wk[w].run = r /\ wk[w].token = row[r].lease

Lapse(r) ==
  /\ row[r].live
  /\ Set(r, [row[r] EXCEPT !.live = FALSE])

(* Nobody renews the lease of a claim whose worker is gone.                *)
LeaseExpires(r) ==
  /\ ~HolderAlive(r)
  /\ Lapse(r)
  /\ UNCHANGED <<wk, sinkOn, sink, inflight, faults>>

(* The worker is paused or cut off from the ledger for a whole lease.      *)
Stall(r) ==
  /\ faults < MaxFaults /\ faults' = faults + 1
  /\ HolderAlive(r)
  /\ Lapse(r)
  /\ UNCHANGED <<wk, sinkOn, sink, inflight>>

(* The process dies and a new one starts, perhaps configured differently;  *)
(* or a ledger call returns an error, upon which executeOne just returns.  *)
Crash(w) ==
  /\ faults < MaxFaults /\ faults' = faults + 1
  /\ ~At(w, "idle")
  /\ wk' = [wk EXCEPT ![w] = Idle]
  /\ \E c \in SinkConfigs : sinkOn' = [sinkOn EXCEPT ![w] = c]
  /\ UNCHANGED <<row, sink, inflight>>

-----------------------------------------------------------------------------
Poll(w) == RecoverCanceled(w) \/ FailExhausted(w) \/ \E r \in Runs : LeaseNext(w, r)

ExecuteOne(w) ==
  \/ Execute(w)
  \/ DecideCanceled(w) \/ DecideLeaseLost(w) \/ Fail(w) \/ FailOutcome(w)
  \/ StageOutcome(w) \/ UseStaged(w) \/ AfterRefusal(w) \/ FinishCancel(w)
  \/ CompletePlaceholder(w) \/ BeginReconcile(w) \/ CheckCancellation(w)
  \/ MarkPublicationPending(w) \/ PublishNoSink(w) \/ PublishMerge(w)
  \/ MergeReturns(w) \/ MergeFails(w) \/ ReadBack(w) \/ ReconcilePublication(w)
  \/ FinishPublication(w) \/ RetryVerification(w) \/ FailPublicationConflict(w)

WorkerNext(w) == Poll(w) \/ ExecuteOne(w) \/ Heartbeat(w) \/ Crash(w)

RunNext(r) ==
  \/ CreateRun(r) \/ Cancel(r)
  \/ MergeApplies(r) \/ MergeLost(r) \/ ForeignWrite(r)
  \/ BackoffEnds(r) \/ LeaseExpires(r) \/ Stall(r)

Next == (\E w \in Workers : WorkerNext(w)) \/ (\E r \in Runs : RunNext(r))

Spec == Init /\ [][Next]_vars

(* The worker loop keeps polling and every call it makes returns (the      *)
(* queries and the HTTP requests have deadlines); the clock advances.      *)
(* Nothing is assumed of callers, of the table, or of faults.              *)
Fairness ==
  /\ \A w \in Workers : WF_vars(Poll(w)) /\ WF_vars(ExecuteOne(w))
  /\ \A r \in Runs : WF_vars(BackoffEnds(r)) /\ WF_vars(LeaseExpires(r))

FairSpec == Spec /\ Fairness

-----------------------------------------------------------------------------
(***************************************************************************)
(* Properties.                                                             *)
(***************************************************************************)

(* The columns, the workers' locals and the table hold what they may hold. *)
TypeOK ==
  /\ row \in [Runs -> Row]
  /\ wk \in [Workers -> Worker]
  /\ sinkOn \in [Workers -> BOOLEAN]
  /\ sink \in [Runs -> SUBSET Nat]
  /\ inflight \in [Runs -> SUBSET Nat]
  /\ faults \in Nat

(* The publication window: from the durable publication_pending mark until *)
(* executeOne returns.                                                     *)
Publication == {"publishing", "merging", "readback", "verifying",
                "completing", "retrying", "conflicting"}

(* A canceled run has no result in the table, no MERGE that could still    *)
(* put one there, and no worker, zombie or not, that could still send one: *)
(* MarkPublicationPending linearizes cancellation against publication.     *)
CanceledNeverPublished ==
  \A r \in Runs : row[r].status = "canceled" =>
    /\ sink[r] \subseteq {Foreign}
    /\ inflight[r] = {}
    /\ \A w \in Workers : wk[w].run = r => wk[w].pc \notin Publication

(* Whatever reaches the table, or may still reach it, is the one result    *)
(* staged in the ledger, whichever worker sent it and however late.        *)
PublishedIsStaged ==
  \A r \in Runs : (inflight[r] \cup sink[r]) \ {Foreign} \subseteq {row[r].result}

(* A completed run that names a table row names one that holds exactly the *)
(* result of the ledger (the read-back of Publish and Verify).             *)
CompletedMatchesSink ==
  \A r \in Runs : row[r].status = "completed" /\ ~row[r].placeholder =>
    /\ row[r].result # NoResult
    /\ sink[r] = {row[r].result}

(* Two workers are never both about to send, or sending, the MERGE of one  *)
(* run, although either may have lost its lease to the other.              *)
SinglePublisher ==
  \A v, w \in Workers :
    /\ wk[v].pc \in {"publishing", "merging"}
    /\ wk[w].pc \in {"publishing", "merging"}
    /\ wk[v].run = wk[w].run
    => v = w

(* No run is stranded: a run that is not terminal, held by nobody and not  *)
(* waiting for its back-off is taken by one of LeaseNext, RecoverCanceled  *)
(* and FailExhausted, whose three WHERE clauses leave no gap.              *)
NoStrandedRun ==
  \A r \in Runs :
    /\ row[r].status \in {"queued", "running"}
    /\ ~row[r].live /\ ~row[r].backoff
    => Leasable(row[r]) \/ Abandoned(row[r]) \/ Exhausted(row[r])

(* A check is never started for a run beyond maxAttempts claims; only a    *)
(* staged result is worth a further claim.                                 *)
ExecutionsBounded ==
  \A w \in Workers : wk[w].pc = "executing" => wk[w].token <= MaxAttempts

(* The outbox of a run with a callback is armed exactly when the run is    *)
(* terminal, by whichever of the nine statements ended it.                 *)
OutboxArmed ==
  \A r \in Runs :
    /\ row[r].callback = "pending" <=>
         r \in CallbackRuns /\ row[r].status \in Terminal
    /\ row[r].callback = "none" <=>
         r \notin CallbackRuns \/ row[r].status = "absent"

(* Terminal states are immutable: no late worker, recovery sweep or cancel *)
(* request changes anything in a terminal row.                             *)
TerminalImmutable ==
  [][\A r \in Runs : row[r].status \in Terminal => row'[r] = row[r]]_vars

(* The result of a run is written once: recovery never stages another, and *)
(* CompletePublished writes back what was staged.                          *)
ResultWrittenOnce ==
  [][\A r \in Runs : row[r].result # NoResult =>
       /\ row'[r].result = row[r].result
       /\ row'[r].placeholder = row[r].placeholder]_vars

(* A cancellation accepted before the publication mark keeps the run from  *)
(* ever being marked, so that it can only complete when its result says    *)
(* that nothing was published; and a mark is only removed by the statement *)
(* that completes or fails the run.                                        *)
CancellationCutoff ==
  [][\A r \in Runs :
       /\ row[r].cancel /\ ~row[r].pending =>
            /\ ~row'[r].pending
            /\ row[r].status = "running" /\ row'[r].status = "completed" =>
                 row'[r].placeholder
       /\ row[r].pending /\ ~row'[r].pending =>
            row'[r].status \in {"completed", "failed"}]_vars

(* Every submitted run ends, whatever workers crash or stall on the way.   *)
RunsEnd == \A r \in Runs : row[r].status = "queued" ~> row[r].status \in Terminal

(* A run whose worker disappears after a cancellation was accepted, and    *)
(* before the publication mark, is canceled once its lease has run out.    *)
CancellationRecovered ==
  \A r \in Runs :
    row[r].status = "running" /\ row[r].cancel /\ ~row[r].pending /\ ~HolderAlive(r)
      ~> row[r].status = "canceled"

(* The lifecycle that README.md promises is implemented.                   *)
Lifecycle == INSTANCE RunLifecycle WITH
  status <- [r \in Runs |-> row[r].status],
  published <- [r \in Runs |-> sink[r] \ {Foreign} # {}],
  answer <- [r \in Runs |->
    IF row[r].status # "completed" THEN "none"
    ELSE IF row[r].placeholder THEN "placeholder" ELSE "row"]

ImplementsLifecycle == Lifecycle!Spec
=============================================================================
