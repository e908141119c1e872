---------------------------- MODULE RunLedgerInv ----------------------------
(***************************************************************************)
(* The inductive invariant behind the safety properties of RunLedger: what *)
(* a row's columns say about each other, and what a worker's place in      *)
(* executeOne says about the row it once claimed, whether it still holds   *)
(* that row or not.                                                        *)
(***************************************************************************)
EXTENDS RunLedger

(* A worker that carries a staged result: it found one, or staged it.      *)
CarriesStaged(w) ==
  \/ wk[w].pc \in {"ready", "marking"} \cup Publication
  \/ wk[w].pc = "decide" /\ wk[w].recovered

(* The lease of a running row is its latest claim; no other row has one.   *)
LeaseInv(r) ==
  IF row[r].status = "running"
  THEN row[r].lease = row[r].attempt /\ row[r].attempt # 0
  ELSE row[r].lease = NoLease /\ ~row[r].live

(* A marked run is not over and has a staged result with a real reference. *)
PendingInv(r) ==
  row[r].pending =>
    /\ row[r].status \in {"queued", "running"}
    /\ row[r].result # NoResult
    /\ ~row[r].placeholder

(* A queued run is fresh, or waits for its next verification.              *)
QueuedInv(r) ==
  /\ row[r].status \in {"absent", "queued"} /\ ~row[r].pending =>
       row[r].attempt = 0 /\ row[r].result = NoResult /\ ~row[r].cancel
  /\ row[r].status = "absent" => ~row[r].placeholder
  /\ row[r].backoff => row[r].status = "queued" /\ row[r].pending

(* Nothing of a run is under way to the table before its mark, after its   *)
(* cancellation, or when its result says that nothing was published.       *)
QuietInv(r) ==
  \/ row[r].placeholder
  \/ ~row[r].pending /\ row[r].status \notin {"completed", "failed"}
  => inflight[r] = {} /\ sink[r] \subseteq {Foreign}

(* Only the staged result goes to the table.                               *)
SinkInv(r) ==
  /\ (inflight[r] \cup sink[r]) \ {Foreign} \subseteq {row[r].result}
  /\ row[r].status = "completed" =>
       /\ row[r].result # NoResult
       /\ ~row[r].placeholder => sink[r] = {row[r].result}

(* The outbox follows the status.                                          *)
CallbackInv(r) ==
  /\ row[r].callback = "pending" <=>
       r \in CallbackRuns /\ row[r].status \in Terminal
  /\ row[r].callback = "none" <=>
       r \notin CallbackRuns \/ row[r].status = "absent"

(* A busy worker holds a token some claim of its run was given.            *)
ClaimInv(w) ==
  IF wk[w].pc = "idle" THEN wk[w].run = NoRun
  ELSE /\ wk[w].run \in Runs
       /\ 1 <= wk[w].token /\ wk[w].token <= row[wk[w].run].attempt

(* The result a worker carries: nobody can have staged another.            *)
ResultInv(w) ==
  /\ CarriesStaged(w) =>
       /\ wk[w].result # NoResult
       /\ wk[w].result = row[wk[w].run].result
       /\ wk[w].placeholder = row[wk[w].run].placeholder
  /\ wk[w].pc \in {"executing", "decide"} /\ ~wk[w].recovered /\ Holds(w) =>
       row[wk[w].run].result = NoResult
  /\ wk[w].pc = "executing" => ~wk[w].recovered /\ wk[w].token <= MaxAttempts
  /\ wk[w].pc = "decide" /\ ~wk[w].recovered =>
       ~wk[w].reconcile /\ (wk[w].verdict \in {"ok", "malfunction"} => wk[w].result # NoResult)
  /\ wk[w].pc = "decide" /\ wk[w].recovered => wk[w].verdict = "ok"
  /\ wk[w].pc \in {"marking"} \cup Publication => ~wk[w].placeholder

(* Inside the publication window the run is marked, or already over; a     *)
(* worker about to complete has seen its result in the table.              *)
WindowInv(w) ==
  /\ wk[w].pc \in Publication \/ (CarriesStaged(w) /\ wk[w].reconcile) =>
       row[wk[w].run].pending \/ row[wk[w].run].status \in {"completed", "failed"}
  /\ wk[w].pc = "executing" => ~wk[w].reconcile
  /\ wk[w].pc = "completing" => sink[wk[w].run] = {wk[w].result}

(* Two workers never hold the same token of the same run.                  *)
UniqueClaims ==
  \A v, w \in Workers :
    wk[v].pc # "idle" /\ wk[v].run = wk[w].run /\ wk[v].token = wk[w].token => v = w

RowInv(r) ==
  /\ LeaseInv(r) /\ PendingInv(r) /\ QueuedInv(r)
  /\ QuietInv(r) /\ SinkInv(r) /\ CallbackInv(r)

WorkerInv(w) == ClaimInv(w) /\ ResultInv(w) /\ WindowInv(w)

(* The inductive invariant.                                                *)
IInv ==
  /\ TypeOK
  /\ \A r \in Runs : RowInv(r)
  /\ \A w \in Workers : WorkerInv(w)
  /\ UniqueClaims
  /\ SinglePublisher
=============================================================================
