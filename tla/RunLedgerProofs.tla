--------------------------- MODULE RunLedgerProofs ---------------------------
(***************************************************************************)
(* Proofs about RunLedger, for any number of runs, workers, attempts and   *)
(* faults: what each SQL statement writes and what a step has to keep (part*)
(* one), the safety properties (part two), and that RunLedger implements   *)
(* RunLifecycle (part three).                                              *)
(***************************************************************************)
EXTENDS RunLedgerInv, TLAPS

-----------------------------------------------------------------------------
(***************************************************************************)
(* What the SQL statements write, column by column.                        *)
(***************************************************************************)

(* A terminal statement keeps everything but status, lease and callback.   *)
LEMMA FinishFields ==
  ASSUME NEW q \in Row, NEW s \in Terminal
  PROVE  /\ Finish(q, s) \in Row
         /\ Finish(q, s).status = s
         /\ Finish(q, s).lease = NoLease /\ ~Finish(q, s).live
         /\ Finish(q, s).cancel = q.cancel
         /\ Finish(q, s).pending = q.pending
         /\ Finish(q, s).backoff = q.backoff
         /\ Finish(q, s).attempt = q.attempt
         /\ Finish(q, s).result = q.result
         /\ Finish(q, s).placeholder = q.placeholder
         /\ q.callback = "none" => Finish(q, s).callback = "none"
         /\ q.callback # "none" => Finish(q, s).callback = "pending"
  BY DEF Finish, Row, NoLease, Terminal, Statuses

(* A submission inserts a queued row.                                      *)
LEMMA QueuedFields ==
  ASSUME NEW r \in Runs
  PROVE  /\ Queued(r) \in Row
         /\ Queued(r).status = "queued"
         /\ Queued(r).lease = NoLease /\ ~Queued(r).live
         /\ ~Queued(r).cancel /\ ~Queued(r).pending /\ ~Queued(r).backoff
         /\ Queued(r).attempt = 0
         /\ Queued(r).result = NoResult
         /\ ~Queued(r).placeholder
         /\ r \in CallbackRuns => Queued(r).callback = "waiting"
         /\ r \notin CallbackRuns => Queued(r).callback = "none"
  BY DEF Queued, NewRow, Row, NoLease, NoResult, Statuses

(* A claim counts an attempt and starts a lease named after it.            *)
LEMMA LeasedFields ==
  ASSUME NEW q \in Row
  PROVE  /\ Leased(q) \in Row
         /\ Leased(q).status = "running"
         /\ Leased(q).lease = q.attempt + 1
         /\ Leased(q).live = TRUE
         /\ Leased(q).cancel = q.cancel
         /\ Leased(q).pending = q.pending
         /\ Leased(q).backoff = FALSE
         /\ Leased(q).attempt = q.attempt + 1
         /\ Leased(q).result = q.result
         /\ Leased(q).placeholder = q.placeholder
         /\ Leased(q).callback = q.callback
<1>1. q.attempt + 1 \in Nat
  BY DEF Row
<1> QED
  BY <1>1 DEF Leased, Row, Statuses

(* Staging writes the result and nothing else.                             *)
LEMMA StagedFields ==
  ASSUME NEW q \in Row, NEW l \in Worker
  PROVE  /\ Staged(q, l.result, l.placeholder) \in Row
         /\ Staged(q, l.result, l.placeholder).status = q.status
         /\ Staged(q, l.result, l.placeholder).lease = q.lease
         /\ Staged(q, l.result, l.placeholder).live = q.live
         /\ Staged(q, l.result, l.placeholder).cancel = q.cancel
         /\ Staged(q, l.result, l.placeholder).pending = q.pending
         /\ Staged(q, l.result, l.placeholder).backoff = q.backoff
         /\ Staged(q, l.result, l.placeholder).attempt = q.attempt
         /\ Staged(q, l.result, l.placeholder).result = l.result
         /\ Staged(q, l.result, l.placeholder).placeholder = l.placeholder
         /\ Staged(q, l.result, l.placeholder).callback = q.callback
<1> DEFINE p == l.result
           ph == l.placeholder
<1>1. p \in Nat /\ ph \in BOOLEAN
  BY DEF Worker
<1> HIDE DEF p, ph
<1> SUFFICES
    /\ Staged(q, p, ph) \in Row
    /\ Staged(q, p, ph).status = q.status
    /\ Staged(q, p, ph).lease = q.lease
    /\ Staged(q, p, ph).live = q.live
    /\ Staged(q, p, ph).cancel = q.cancel
    /\ Staged(q, p, ph).pending = q.pending
    /\ Staged(q, p, ph).backoff = q.backoff
    /\ Staged(q, p, ph).attempt = q.attempt
    /\ Staged(q, p, ph).result = p
    /\ Staged(q, p, ph).placeholder = ph
    /\ Staged(q, p, ph).callback = q.callback
  BY DEF p, ph
<1> QED
  BY <1>1 DEF Staged, Row

(* Completion writes the result, ends the run and clears the mark.         *)
LEMMA CompletedFields ==
  ASSUME NEW q \in Row, NEW l \in Worker
  PROVE  /\ Completed(q, l.result, l.placeholder) \in Row
         /\ Completed(q, l.result, l.placeholder).status = "completed"
         /\ Completed(q, l.result, l.placeholder).lease = NoLease
         /\ Completed(q, l.result, l.placeholder).live = FALSE
         /\ Completed(q, l.result, l.placeholder).cancel = q.cancel
         /\ Completed(q, l.result, l.placeholder).pending = FALSE
         /\ Completed(q, l.result, l.placeholder).backoff = FALSE
         /\ Completed(q, l.result, l.placeholder).attempt = q.attempt
         /\ Completed(q, l.result, l.placeholder).result = l.result
         /\ Completed(q, l.result, l.placeholder).placeholder = l.placeholder
         /\ q.callback = "none" => Completed(q, l.result, l.placeholder).callback = "none"
         /\ q.callback # "none" => Completed(q, l.result, l.placeholder).callback = "pending"
<1> DEFINE p == l.result
           ph == l.placeholder
<1>1. p \in Nat /\ ph \in BOOLEAN
  BY DEF Worker
<1> HIDE DEF p, ph
<1> SUFFICES
    /\ Completed(q, p, ph) \in Row
    /\ Completed(q, p, ph).status = "completed"
    /\ Completed(q, p, ph).lease = NoLease
    /\ Completed(q, p, ph).live = FALSE
    /\ Completed(q, p, ph).cancel = q.cancel
    /\ Completed(q, p, ph).pending = FALSE
    /\ Completed(q, p, ph).backoff = FALSE
    /\ Completed(q, p, ph).attempt = q.attempt
    /\ Completed(q, p, ph).result = p
    /\ Completed(q, p, ph).placeholder = ph
    /\ q.callback = "none" => Completed(q, p, ph).callback = "none"
    /\ q.callback # "none" => Completed(q, p, ph).callback = "pending"
  BY DEF p, ph
<1> QED
  BY <1>1 DEF Completed, Finish, Staged, Row, NoLease, Terminal, Statuses

(* Cancellation ends the run and clears the mark.                          *)
LEMMA CanceledFields ==
  ASSUME NEW q \in Row
  PROVE  /\ Canceled(q) \in Row
         /\ Canceled(q).status = "canceled"
         /\ Canceled(q).lease = NoLease
         /\ Canceled(q).live = FALSE
         /\ Canceled(q).cancel = q.cancel
         /\ Canceled(q).pending = FALSE
         /\ Canceled(q).backoff = q.backoff
         /\ Canceled(q).attempt = q.attempt
         /\ Canceled(q).result = q.result
         /\ Canceled(q).placeholder = q.placeholder
         /\ q.callback = "none" => Canceled(q).callback = "none"
         /\ q.callback # "none" => Canceled(q).callback = "pending"
  BY DEF Canceled, Finish, Row, NoLease, Terminal, Statuses

(* A publication conflict fails the run and clears the mark.               *)
LEMMA ConflictedFields ==
  ASSUME NEW q \in Row
  PROVE  /\ Conflicted(q) \in Row
         /\ Conflicted(q).status = "failed"
         /\ Conflicted(q).lease = NoLease
         /\ Conflicted(q).live = FALSE
         /\ Conflicted(q).cancel = q.cancel
         /\ Conflicted(q).pending = FALSE
         /\ Conflicted(q).backoff = q.backoff
         /\ Conflicted(q).attempt = q.attempt
         /\ Conflicted(q).result = q.result
         /\ Conflicted(q).placeholder = q.placeholder
         /\ q.callback = "none" => Conflicted(q).callback = "none"
         /\ q.callback # "none" => Conflicted(q).callback = "pending"
  BY DEF Conflicted, Finish, Row, NoLease, Terminal, Statuses

(* The publication mark.                                                   *)
LEMMA MarkedFields ==
  ASSUME NEW q \in Row
  PROVE  /\ Marked(q) \in Row
         /\ Marked(q).status = q.status
         /\ Marked(q).lease = q.lease
         /\ Marked(q).live = q.live
         /\ Marked(q).cancel = q.cancel
         /\ Marked(q).pending = TRUE
         /\ Marked(q).backoff = FALSE
         /\ Marked(q).attempt = q.attempt
         /\ Marked(q).result = q.result
         /\ Marked(q).placeholder = q.placeholder
         /\ Marked(q).callback = q.callback
  BY DEF Marked, Row

(* A cancel request ends a queued run without a mark and flags any other.  *)
LEMMA CancelRequestedFields ==
  ASSUME NEW q \in Row
  PROVE  LET now == q.status = "queued" /\ ~q.pending IN
         /\ CancelRequested(q) \in Row
         /\ CancelRequested(q).cancel = TRUE
         /\ CancelRequested(q).pending = q.pending
         /\ CancelRequested(q).backoff = q.backoff
         /\ CancelRequested(q).attempt = q.attempt
         /\ CancelRequested(q).result = q.result
         /\ CancelRequested(q).placeholder = q.placeholder
         /\ now =>
              /\ CancelRequested(q).status = "canceled"
              /\ CancelRequested(q).lease = NoLease
              /\ CancelRequested(q).live = FALSE
              /\ q.callback = "none" => CancelRequested(q).callback = "none"
              /\ q.callback # "none" => CancelRequested(q).callback = "pending"
         /\ ~now =>
              /\ CancelRequested(q).status = q.status
              /\ CancelRequested(q).lease = q.lease
              /\ CancelRequested(q).live = q.live
              /\ CancelRequested(q).callback = q.callback
<1> DEFINE c == [q EXCEPT !.cancel = TRUE]
<1>1. /\ c \in Row /\ c.cancel = TRUE /\ c.status = q.status /\ c.lease = q.lease
      /\ c.live = q.live /\ c.pending = q.pending /\ c.backoff = q.backoff
      /\ c.attempt = q.attempt /\ c.result = q.result
      /\ c.placeholder = q.placeholder /\ c.callback = q.callback
  BY DEF Row
<1>2. CancelRequested(q) =
        IF q.status = "queued" /\ ~q.pending THEN Finish(c, "canceled") ELSE c
  BY DEF CancelRequested
<1> HIDE DEF c
<1>3. CASE q.status = "queued" /\ ~q.pending
  BY <1>1, <1>2, <1>3, FinishFields DEF Terminal
<1>4. CASE ~(q.status = "queued" /\ ~q.pending)
  BY <1>1, <1>2, <1>4
<1> QED
  BY <1>3, <1>4

(* A failed verification requeues the run, and fails it at the last one.   *)
LEMMA VerificationRetriedFields ==
  ASSUME NEW q \in Row
  PROVE  LET over == q.verification + 1 >= MaxVerificationAttempts IN
         /\ VerificationRetried(q) \in Row
         /\ VerificationRetried(q).lease = NoLease
         /\ VerificationRetried(q).live = FALSE
         /\ VerificationRetried(q).cancel = q.cancel
         /\ VerificationRetried(q).attempt = q.attempt
         /\ VerificationRetried(q).result = q.result
         /\ VerificationRetried(q).placeholder = q.placeholder
         /\ over =>
              /\ VerificationRetried(q).status = "failed"
              /\ VerificationRetried(q).pending = FALSE
              /\ VerificationRetried(q).backoff = FALSE
              /\ q.callback = "none" => VerificationRetried(q).callback = "none"
              /\ q.callback # "none" => VerificationRetried(q).callback = "pending"
         /\ ~over =>
              /\ VerificationRetried(q).status = "queued"
              /\ VerificationRetried(q).pending = q.pending
              /\ VerificationRetried(q).backoff = TRUE
              /\ VerificationRetried(q).callback = q.callback
<1> DEFINE k == q.verification + 1
           c == [q EXCEPT !.verification = k]
<1>1. k \in Nat
  BY DEF Row
<1> HIDE DEF k
<1>2. /\ c \in Row /\ c.verification = k /\ c.cancel = q.cancel
      /\ c.attempt = q.attempt /\ c.result = q.result
      /\ c.placeholder = q.placeholder /\ c.callback = q.callback
      /\ c.pending = q.pending
  BY <1>1 DEF Row
<1>c. c \in Row
  BY <1>2
<1>3. VerificationRetried(q) =
        IF k >= MaxVerificationAttempts
        THEN [Finish(c, "failed") EXCEPT !.pending = FALSE, !.backoff = FALSE]
        ELSE [c EXCEPT !.status = "queued", !.lease = NoLease,
                       !.live = FALSE, !.backoff = TRUE]
  BY <1>2 DEF VerificationRetried, k
<1> HIDE DEF c
<1>4. CASE k >= MaxVerificationAttempts
  <2> DEFINE f == Finish(c, "failed")
  <2>1. VerificationRetried(q) = [f EXCEPT !.pending = FALSE, !.backoff = FALSE]
    BY <1>3, <1>4
  <2>2. /\ f \in Row /\ f.lease = NoLease /\ f.live = FALSE /\ f.cancel = q.cancel
        /\ f.attempt = q.attempt /\ f.result = q.result
        /\ f.placeholder = q.placeholder /\ f.status = "failed"
        /\ q.callback = "none" => f.callback = "none"
        /\ q.callback # "none" => f.callback = "pending"
    BY <1>2, FinishFields DEF Terminal
  <2> HIDE DEF f
  <2> QED
    BY <1>4, <2>1, <2>2 DEF Row, k
<1>5. CASE ~(k >= MaxVerificationAttempts)
  <2>1. VerificationRetried(q) = [c EXCEPT !.status = "queued", !.lease = NoLease,
                                           !.live = FALSE, !.backoff = TRUE]
    BY <1>3, <1>5
  <2>2. VerificationRetried(q) \in Row
    <3> SUFFICES ASSUME NEW d \in Row
                 PROVE  [d EXCEPT !.status = "queued", !.lease = NoLease,
                                  !.live = FALSE, !.backoff = TRUE] \in Row
      BY <1>c, <2>1
    <3> QED
      BY DEF Row, NoLease, Statuses
  <2> QED
    BY <1>2, <1>5, <2>1, <2>2 DEF Row, k
<1> QED
  BY <1>4, <1>5

(* The end of a lease, and of a back-off, change one column each.          *)
LEMMA ClockFields ==
  ASSUME NEW q \in Row
  PROVE  /\ LET n == [q EXCEPT !.live = FALSE] IN
            /\ n \in Row /\ n.live = FALSE
            /\ n.status = q.status /\ n.lease = q.lease /\ n.cancel = q.cancel
            /\ n.pending = q.pending /\ n.backoff = q.backoff
            /\ n.attempt = q.attempt /\ n.result = q.result
            /\ n.placeholder = q.placeholder /\ n.callback = q.callback
         /\ LET n == [q EXCEPT !.backoff = FALSE] IN
            /\ n \in Row /\ n.backoff = FALSE
            /\ n.status = q.status /\ n.lease = q.lease /\ n.cancel = q.cancel
            /\ n.pending = q.pending /\ n.live = q.live
            /\ n.attempt = q.attempt /\ n.result = q.result
            /\ n.placeholder = q.placeholder /\ n.callback = q.callback
  BY DEF Row

-----------------------------------------------------------------------------
(***************************************************************************)
(* One step of the system, seen from one run and from one worker.          *)
(***************************************************************************)

(* What no step may do to a row, whoever takes it.                         *)
RowStep(r) ==
  /\ row[r].status \in Terminal => row'[r] = row[r]
  /\ row[r].attempt <= row'[r].attempt
  /\ row[r].result # NoResult =>
       row'[r].result = row[r].result /\ row'[r].placeholder = row[r].placeholder
  /\ row[r].pending \/ row[r].status \in {"completed", "failed"} =>
       row'[r].pending \/ row'[r].status \in {"completed", "failed"}
  /\ row[r].cancel /\ ~row[r].pending =>
       /\ ~row'[r].pending
       /\ row[r].status = "running" /\ row'[r].status = "completed" =>
            row'[r].placeholder
  /\ row'[r].status = "running" =>
       \/ row[r].status = "running" /\ row'[r].lease = row[r].lease
       \/ row'[r].lease = row[r].attempt + 1

RowSteps == \A r \in Runs : RowStep(r)

(* The invariant, unpacked for one worker and one run.                     *)
LEMMA Unpack ==
  ASSUME IInv
  PROVE  /\ TypeOK
         /\ \A r \in Runs : row[r] \in Row /\ RowInv(r)
         /\ \A w \in Workers : wk[w] \in Worker /\ WorkerInv(w)
         /\ UniqueClaims /\ SinglePublisher
  BY DEF IInv, TypeOK

(* A run whose row does not change keeps its part of the invariant.        *)
LEMMA SameRow ==
  ASSUME IInv, NEW r \in Runs, row'[r] = row[r], sink'[r] = sink[r],
         inflight'[r] = inflight[r]
  PROVE  RowInv(r)' /\ RowStep(r)
<1>1. RowInv(r) /\ row[r] \in Row
  BY Unpack
<1>2. RowInv(r)'
  BY <1>1 DEF RowInv, LeaseInv, PendingInv, QueuedInv, QuietInv, SinkInv, CallbackInv
<1>3. RowStep(r)
  BY <1>1 DEF RowStep, Row
<1> QED
  BY <1>2, <1>3

(* A worker that does not move keeps its part of the invariant, unless     *)
(* somebody else writes the result of the row it holds.                    *)
LEMMA Bystander ==
  ASSUME IInv, NEW v \in Workers, wk'[v] = wk[v], row' \in [Runs -> Row],
         \A r \in Runs : RowStep(r),
         \A r \in Runs : sink[r] # {} => sink'[r] = sink[r],
         wk[v].pc # "idle" /\ Holds(v) =>
           row'[wk[v].run].result = row[wk[v].run].result
  PROVE  WorkerInv(v)'
<1>1. WorkerInv(v) /\ wk[v] \in Worker
  BY Unpack
<1>2. CASE wk[v].pc = "idle"
  BY <1>1, <1>2 DEF WorkerInv, ClaimInv, ResultInv, WindowInv, CarriesStaged, Publication
<1>3. CASE wk[v].pc # "idle"
  <2> DEFINE r == wk[v].run
  <2>1. r \in Runs /\ row[r] \in Row /\ row'[r] \in Row /\ RowStep(r)
    BY <1>1, <1>3, Unpack DEF WorkerInv, ClaimInv
  <2>2. ClaimInv(v)'
    BY <1>1, <1>3, <2>1 DEF WorkerInv, ClaimInv, RowStep, Row, Worker
  <2>3. Holds(v)' => Holds(v)
    BY <1>1, <1>3, <2>1 DEF WorkerInv, ClaimInv, Holds, RowStep, Row, Worker
  <2>4. ResultInv(v)'
    BY <1>1, <1>3, <2>1, <2>3 DEF WorkerInv, ResultInv, CarriesStaged, RowStep, Publication
  <2>5. WindowInv(v)'
    BY <1>1, <1>3, <2>1 DEF WorkerInv, ResultInv, WindowInv, CarriesStaged, RowStep, Publication
  <2> QED
    BY <2>2, <2>4, <2>5 DEF WorkerInv
<1> QED
  BY <1>2, <1>3

(* An idle worker satisfies its part of the invariant.                     *)
LEMMA IdleWorker ==
  ASSUME NEW w \in Workers, wk'[w] = Idle
  PROVE  WorkerInv(w)'
  BY DEF Idle, WorkerInv, ClaimInv, ResultInv, WindowInv, CarriesStaged, Publication


(* A step in which no worker moves.                                        *)
LEMMA NobodyMoves ==
  ASSUME IInv, TypeOK', wk' = wk,
         \A r \in Runs : RowInv(r)' /\ RowStep(r),
         \A r \in Runs : sink[r] # {} => sink'[r] = sink[r],
         \A r \in Runs : row'[r].result = row[r].result
  PROVE  IInv' /\ RowSteps
<1>1. row' \in [Runs -> Row]
  BY DEF TypeOK
<1>2. \A v \in Workers : WorkerInv(v)'
  <2> SUFFICES ASSUME NEW v \in Workers PROVE WorkerInv(v)'
    OBVIOUS
  <2>1. wk[v].pc # "idle" => wk[v].run \in Runs
    BY Unpack DEF WorkerInv, ClaimInv
  <2> QED
    BY <1>1, <2>1, Bystander
<1>3. UniqueClaims' /\ SinglePublisher'
  BY Unpack DEF UniqueClaims, SinglePublisher
<1> QED
  BY <1>2, <1>3 DEF IInv, RowSteps

(* A step in which one worker moves: its claim is the one it had, or a     *)
(* fresh one, and it enters the sending of a MERGE only where nobody is.   *)
LEMMA OneMoves ==
  ASSUME IInv, TypeOK', NEW w \in Workers,
         \A v \in Workers \ {w} : wk'[v] = wk[v],
         \A r \in Runs : RowInv(r)' /\ RowStep(r),
         \A r \in Runs : sink[r] # {} => sink'[r] = sink[r],
         \A v \in Workers \ {w} : wk[v].pc # "idle" /\ Holds(v) =>
           row'[wk[v].run].result = row[wk[v].run].result,
         WorkerInv(w)',
         \A v \in Workers \ {w} :
           /\ wk'[w].pc # "idle" /\ wk[v].pc # "idle" /\ wk[v].run = wk'[w].run =>
                wk[v].token # wk'[w].token
           /\ wk'[w].pc \in {"publishing", "merging"} /\ wk[v].run = wk'[w].run =>
                wk[v].pc \notin {"publishing", "merging"}
  PROVE  IInv' /\ RowSteps
<1>1. row' \in [Runs -> Row]
  BY DEF TypeOK
<1>2. \A v \in Workers : WorkerInv(v)'
  BY <1>1, Bystander
<1>3. UniqueClaims'
  <2> SUFFICES ASSUME NEW u \in Workers, NEW v \in Workers,
                      wk'[u].pc # "idle", wk'[u].run = wk'[v].run,
                      wk'[u].token = wk'[v].token, u # v
               PROVE  FALSE
    BY DEF UniqueClaims
  <2>0. NoRun \notin Runs
    BY LedgerAssumption
  <2>1. wk'[v].pc # "idle"
    BY <1>2, <2>0 DEF WorkerInv, ClaimInv
  <2>2. u # w /\ v # w
    BY <2>1
  <2> QED
    BY <2>2, Unpack DEF UniqueClaims
<1>4. SinglePublisher'
  <2> SUFFICES ASSUME NEW u \in Workers, NEW v \in Workers,
                      wk'[u].pc \in {"publishing", "merging"},
                      wk'[v].pc \in {"publishing", "merging"},
                      wk'[u].run = wk'[v].run, u # v
               PROVE  FALSE
    BY DEF SinglePublisher
  <2>1. u # w /\ v # w
    OBVIOUS
  <2> QED
    BY <2>1, Unpack DEF SinglePublisher
<1> QED
  BY <1>2, <1>3, <1>4 DEF IInv, RowSteps

(* A step that only moves a worker on, within its claim.                   *)
LEMMA LocalStep ==
  ASSUME IInv, NEW w \in Workers,
         UNCHANGED <<row, sink, inflight>>,
         sinkOn' \in [Workers -> BOOLEAN], faults' \in Nat,
         wk' \in [Workers -> Worker],
         \A v \in Workers \ {w} : wk'[v] = wk[v],
         WorkerInv(w)',
         wk'[w].pc # "idle" =>
           /\ wk[w].pc # "idle"
           /\ wk'[w].run = wk[w].run /\ wk'[w].token = wk[w].token,
         wk'[w].pc \in {"publishing", "merging"} =>
           wk[w].pc \in {"publishing", "merging"}
  PROVE  IInv' /\ RowSteps
<1>1. TypeOK /\ UniqueClaims /\ SinglePublisher
  BY Unpack
<1>2. TypeOK'
  BY <1>1 DEF TypeOK
<1>3. \A r \in Runs : RowInv(r)' /\ RowStep(r)
  BY SameRow
<1>4. \A v \in Workers \ {w} :
        /\ wk'[w].pc # "idle" /\ wk[v].pc # "idle" /\ wk[v].run = wk'[w].run =>
             wk[v].token # wk'[w].token
        /\ wk'[w].pc \in {"publishing", "merging"} /\ wk[v].run = wk'[w].run =>
             wk[v].pc \notin {"publishing", "merging"}
  BY <1>1 DEF UniqueClaims, SinglePublisher
<1> QED
  BY <1>2, <1>3, <1>4, OneMoves

(* A worker that returns from executeOne.                                  *)
LEMMA ReturnFields ==
  ASSUME TypeOK, NEW w \in Workers, wk' = [wk EXCEPT ![w] = Idle]
  PROVE  /\ wk' \in [Workers -> Worker]
         /\ wk'[w] = Idle /\ Idle.pc = "idle"
         /\ \A v \in Workers \ {w} : wk'[v] = wk[v]
<1>1. Idle \in Worker /\ Idle.pc = "idle"
  BY DEF Idle, Worker, PCs, NoLease, NoResult
<1> QED
  BY <1>1 DEF TypeOK

(* A worker that leaves executeOne without touching the rows takes its     *)
(* facts with it: the invariant and the row discipline are kept.           *)
LEMMA ReturnStep ==
  ASSUME IInv, NEW w \in Workers, wk' = [wk EXCEPT ![w] = Idle],
         UNCHANGED <<row, sink, inflight>>,
         sinkOn' \in [Workers -> BOOLEAN], faults' \in Nat
  PROVE  IInv' /\ RowSteps
<1>1. TypeOK
  BY Unpack
<1>2. WorkerInv(w)'
  BY <1>1, ReturnFields, IdleWorker
<1> QED
  BY <1>1, <1>2, ReturnFields, LocalStep

(* A worker whose program counter, and nothing else, changes.              *)
LEMMA GotoFields ==
  ASSUME TypeOK, NEW w \in Workers, NEW p \in PCs, wk' = [wk EXCEPT ![w].pc = p]
  PROVE  /\ wk' \in [Workers -> Worker]
         /\ \A v \in Workers \ {w} : wk'[v] = wk[v]
         /\ wk'[w].pc = p
         /\ wk'[w].run = wk[w].run
         /\ wk'[w].token = wk[w].token
         /\ wk'[w].recovered = wk[w].recovered
         /\ wk'[w].reconcile = wk[w].reconcile
         /\ wk'[w].verdict = wk[w].verdict
         /\ wk'[w].result = wk[w].result
         /\ wk'[w].placeholder = wk[w].placeholder
<1> DEFINE l == wk[w]
           n == [l EXCEPT !.pc = p]
<1>1. l \in Worker
  BY DEF TypeOK
<1> HIDE DEF l
<1>2. /\ n \in Worker /\ n.pc = p /\ n.run = l.run /\ n.token = l.token
      /\ n.recovered = l.recovered /\ n.reconcile = l.reconcile
      /\ n.verdict = l.verdict /\ n.result = l.result
      /\ n.placeholder = l.placeholder
  BY <1>1 DEF Worker
<1>3. wk' = [wk EXCEPT ![w] = n]
  BY DEF l
<1> HIDE DEF n
<1>4. wk'[w] = n /\ wk' \in [Workers -> Worker]
  BY <1>2, <1>3 DEF TypeOK
<1> QED
  BY <1>2, <1>3, <1>4 DEF TypeOK, l

(* Moving a worker to a place whose facts hold there keeps the invariant   *)
(* and the row discipline.                                                 *)
LEMMA GotoStep ==
  ASSUME IInv, NEW w \in Workers, NEW p \in PCs \ {"idle", "publishing", "merging"},
         Goto(w, p), wk[w].pc # "idle",
         /\ wk'[w].pc = p
         /\ wk'[w].run = wk[w].run
         /\ wk'[w].recovered = wk[w].recovered
         /\ wk'[w].reconcile = wk[w].reconcile
         /\ wk'[w].verdict = wk[w].verdict
         /\ wk'[w].result = wk[w].result
         /\ wk'[w].placeholder = wk[w].placeholder
         => ResultInv(w)' /\ WindowInv(w)'
  PROVE  IInv' /\ RowSteps
<1>1. TypeOK /\ WorkerInv(w)
  BY Unpack
<1>2. wk' = [wk EXCEPT ![w].pc = p] /\ UNCHANGED <<row, sinkOn, sink, inflight, faults>>
  BY DEF Goto
<1>3. ClaimInv(w)'
  BY <1>1, <1>2, GotoFields DEF WorkerInv, ClaimInv
<1>4. WorkerInv(w)'
  BY <1>1, <1>2, <1>3, GotoFields DEF WorkerInv
<1>5. sinkOn' \in [Workers -> BOOLEAN] /\ faults' \in Nat
  BY <1>1, <1>2 DEF TypeOK
<1> QED
  BY <1>1, <1>2, <1>4, <1>5, GotoFields, LocalStep

(* A fenced UPDATE after which the worker is done with the run: it is      *)
(* enough that the statement keeps the row's part of the invariant.        *)
LEMMA FencedStep ==
  ASSUME IInv, NEW w \in Workers, wk[w].pc # "idle",
         NEW r0 \in Runs, wk[w].run = r0,
         NEW can \in BOOLEAN, NEW q, FencedReturn(w, can, q),
         can => Holds(w) /\ q \in Row,
         can /\ row'[r0] = q => RowInv(r0)' /\ RowStep(r0)
  PROVE  IInv' /\ RowSteps
<1>1. TypeOK /\ UniqueClaims
  BY Unpack
<1>2. CASE ~can
  BY <1>1, <1>2, ReturnStep DEF FencedReturn, TypeOK
<1>3. CASE can
  <2>1. /\ row' = [row EXCEPT ![r0] = q] /\ q \in Row
        /\ wk' = [wk EXCEPT ![w] = Idle]
        /\ UNCHANGED <<sinkOn, sink, inflight, faults>>
    BY <1>3 DEF FencedReturn, Set
  <2>2. /\ wk' \in [Workers -> Worker] /\ wk'[w] = Idle /\ Idle.pc = "idle"
        /\ \A v \in Workers \ {w} : wk'[v] = wk[v]
    BY <1>1, <2>1, ReturnFields
  <2>3. TypeOK'
    BY <1>1, <2>1, <2>2 DEF TypeOK
  <2>4. row'[r0] = q /\ \A r \in Runs \ {r0} : row'[r] = row[r]
    BY <1>1, <2>1 DEF TypeOK
  <2>5. \A r \in Runs : RowInv(r)' /\ RowStep(r)
    BY <1>3, <2>1, <2>4, SameRow
  <2>7. WorkerInv(w)'
    BY <2>2, IdleWorker
  <2>8. \A v \in Workers \ {w} : wk[v].pc # "idle" /\ Holds(v) =>
           row'[wk[v].run].result = row[wk[v].run].result
    <3> SUFFICES ASSUME NEW v \in Workers \ {w}, wk[v].pc # "idle", Holds(v)
                 PROVE  wk[v].run \in Runs \ {r0}
      BY <2>4
    <3>1. wk[v].run \in Runs
      BY Unpack DEF WorkerInv, ClaimInv
    <3> QED
      BY <1>1, <1>3, <3>1 DEF UniqueClaims, Holds
  <2> QED
    BY <2>1, <2>2, <2>3, <2>5, <2>7, <2>8, OneMoves
<1> QED
  BY <1>2, <1>3

-----------------------------------------------------------------------------
(***************************************************************************)
(* The statements that end a run.                                          *)
(***************************************************************************)

(* A run that is not marked and not over has nothing in the table.         *)
LEMMA Unmarked ==
  ASSUME IInv, NEW r \in Runs, ~row[r].pending,
         row[r].status \notin {"completed", "failed"}
  PROVE  inflight[r] = {} /\ sink[r] \subseteq {Foreign}
  BY Unpack DEF RowInv, QuietInv

(* What a statement that ends a run has to get right.                      *)
LEMMA EndedRow ==
  ASSUME IInv, NEW r \in Runs, row[r].status \in {"queued", "running"},
         sink'[r] = sink[r], inflight'[r] = inflight[r],
         row'[r] \in Row,
         row'[r].status \in Terminal,
         row'[r].lease = NoLease, row'[r].live = FALSE,
         row'[r].pending = FALSE, row'[r].backoff = FALSE,
         row'[r].attempt = row[r].attempt,
         row[r].callback = "none" => row'[r].callback = "none",
         row[r].callback # "none" => row'[r].callback = "pending",
         row[r].result # NoResult =>
           row'[r].result = row[r].result /\ row'[r].placeholder = row[r].placeholder,
         row[r].pending => row'[r].status \in {"completed", "failed"},
         row'[r].status = "completed" =>
           /\ row'[r].result # NoResult
           /\ row'[r].placeholder \/ row[r].pending
           /\ ~row'[r].placeholder => sink[r] = {row'[r].result}
  PROVE  RowInv(r)' /\ RowStep(r)
<1>1. row[r] \in Row /\ RowInv(r)
  BY Unpack
<1>2. RowStep(r)
  BY <1>1 DEF RowStep, Terminal, Row
<1>3. LeaseInv(r)' /\ PendingInv(r)' /\ QueuedInv(r)'
  BY <1>1 DEF RowInv, LeaseInv, PendingInv, QueuedInv, Terminal
<1>4. CallbackInv(r)'
  BY <1>1 DEF RowInv, CallbackInv, Terminal, Row
<1>5. CASE row[r].pending
  <2>1. row[r].result # NoResult /\ ~row[r].placeholder
    BY <1>1, <1>5 DEF RowInv, PendingInv
  <2>2. QuietInv(r)' /\ SinkInv(r)'
    BY <1>1, <1>5, <2>1 DEF RowInv, QuietInv, SinkInv
  <2> QED
    BY <1>2, <1>3, <1>4, <2>2 DEF RowInv
<1>6. CASE ~row[r].pending
  <2>1. inflight[r] = {} /\ sink[r] \subseteq {Foreign}
    BY <1>6, Unmarked
  <2>2. QuietInv(r)' /\ SinkInv(r)'
    BY <2>1 DEF QuietInv, SinkInv
  <2> QED
    BY <1>2, <1>3, <1>4, <2>2 DEF RowInv
<1> QED
  BY <1>5, <1>6

(* A statement on one row: it is enough to look at that row.               *)
LEMMA RowWritten ==
  ASSUME IInv, NEW r0 \in Runs, NEW q \in Row, row' = [row EXCEPT ![r0] = q],
         sink' = sink, inflight' = inflight,
         row'[r0] = q => RowInv(r0)' /\ RowStep(r0)
  PROVE  /\ row' \in [Runs -> Row]
         /\ row'[r0] = q
         /\ \A r \in Runs \ {r0} : row'[r] = row[r]
         /\ \A r \in Runs : RowInv(r)' /\ RowStep(r)
<1>1. TypeOK
  BY Unpack
<1>2. /\ row' \in [Runs -> Row]
      /\ row'[r0] = q
      /\ \A r \in Runs \ {r0} : row'[r] = row[r]
  BY <1>1 DEF TypeOK
<1>3. \A r \in Runs \ {r0} : RowInv(r)' /\ RowStep(r)
  BY <1>2, SameRow
<1> QED
  BY <1>2, <1>3

(* A row statement of the API or of the clock: no result is written and no *)
(* worker moves.                                                           *)
LEMMA RowOnlyStep ==
  ASSUME IInv, NEW r0 \in Runs, NEW q \in Row, Set(r0, q),
         UNCHANGED <<wk, sinkOn, sink, inflight>>, faults' \in Nat,
         q.result = row[r0].result,
         row'[r0] = q => RowInv(r0)' /\ RowStep(r0)
  PROVE  IInv' /\ RowSteps
<1>1. row' = [row EXCEPT ![r0] = q]
  BY DEF Set
<1>2. /\ row' \in [Runs -> Row]
      /\ row'[r0] = q
      /\ \A r \in Runs \ {r0} : row'[r] = row[r]
      /\ \A r \in Runs : RowInv(r)' /\ RowStep(r)
  BY <1>1, RowWritten
<1>3. TypeOK'
  BY <1>2, Unpack DEF TypeOK
<1>4. \A r \in Runs : row'[r].result = row[r].result
  BY <1>2
<1> QED
  BY <1>2, <1>3, <1>4, NobodyMoves

-----------------------------------------------------------------------------
(***************************************************************************)
(* The steps of executeOne that change nothing but the worker.             *)
(***************************************************************************)

(* The heartbeat goroutine only notes a cancellation or a lost lease.      *)
LEMMA HeartbeatStep ==
  ASSUME IInv, NEW w \in Workers, Heartbeat(w)
  PROVE  IInv' /\ RowSteps
<1>1. TypeOK /\ WorkerInv(w) /\ wk[w] \in Worker
  BY Unpack
<1> DEFINE l == wk[w]
<1>2. PICK n \in Worker :
        /\ wk' = [wk EXCEPT ![w] = n]
        /\ n.pc = l.pc /\ n.run = l.run /\ n.token = l.token
        /\ n.recovered = l.recovered /\ n.reconcile = l.reconcile
        /\ n.verdict = l.verdict /\ n.result = l.result
        /\ n.placeholder = l.placeholder
  <2>1. CASE Owns(w)
    <3> DEFINE c == wk[w].cancelSeen \/ row[wk[w].run].cancel
    <3>1. c \in BOOLEAN
      OBVIOUS
    <3>2. wk' = [wk EXCEPT ![w] = [l EXCEPT !.cancelSeen = c]]
      BY <2>1 DEF Heartbeat
    <3> HIDE DEF c
    <3> DEFINE m == [l EXCEPT !.cancelSeen = c]
    <3>3. /\ m \in Worker
          /\ m.pc = l.pc /\ m.run = l.run /\ m.token = l.token
          /\ m.recovered = l.recovered /\ m.reconcile = l.reconcile
          /\ m.verdict = l.verdict /\ m.result = l.result
          /\ m.placeholder = l.placeholder
      BY <1>1, <3>1 DEF Worker
    <3> HIDE DEF m
    <3> QED
      BY <3>2, <3>3 DEF m
  <2>2. CASE ~Owns(w)
    <3>2. wk' = [wk EXCEPT ![w] = [l EXCEPT !.leaseLost = TRUE]]
      BY <2>2 DEF Heartbeat
    <3> DEFINE m == [l EXCEPT !.leaseLost = TRUE]
    <3>3. /\ m \in Worker
          /\ m.pc = l.pc /\ m.run = l.run /\ m.token = l.token
          /\ m.recovered = l.recovered /\ m.reconcile = l.reconcile
          /\ m.verdict = l.verdict /\ m.result = l.result
          /\ m.placeholder = l.placeholder
      BY <1>1 DEF Worker
    <3> HIDE DEF m
    <3> QED
      BY <3>2, <3>3 DEF m
  <2> QED
    BY <2>1, <2>2
<1>3. wk'[w] = n /\ wk' \in [Workers -> Worker] /\ \A v \in Workers \ {w} : wk'[v] = wk[v]
  BY <1>1, <1>2 DEF TypeOK
<1>4. UNCHANGED <<row, sink, inflight>> /\ sinkOn' \in [Workers -> BOOLEAN] /\ faults' \in Nat
  BY <1>1 DEF Heartbeat, TypeOK
<1>5. wk[w].pc \in {"executing", "decide"}
  BY DEF Heartbeat
<1>6. WorkerInv(w)'
  BY <1>1, <1>2, <1>3, <1>4, <1>5
     DEF WorkerInv, ClaimInv, ResultInv, WindowInv, CarriesStaged, Holds, Publication
<1> QED
  BY <1>2, <1>3, <1>4, <1>5, <1>6, LocalStep

(* The executor's outcome stays local to the worker, named by its claim.   *)
LEMMA ExecuteStep ==
  ASSUME IInv, NEW w \in Workers, Execute(w)
  PROVE  IInv' /\ RowSteps
<1>1. TypeOK /\ WorkerInv(w) /\ wk[w] \in Worker
  BY Unpack
<1> DEFINE l == wk[w]
<1>2. PICK v \in {"ok", "malfunction", "error"} :
       wk' = [wk EXCEPT ![w].pc = "decide",
                        ![w].verdict = v,
                        ![w].result = IF v = "error" THEN NoResult ELSE wk[w].token,
                        ![w].placeholder = (v # "error" /\ ~sinkOn[w])]
  BY DEF Execute
<1> DEFINE p == IF v = "error" THEN NoResult ELSE wk[w].token
           ph == v # "error" /\ ~sinkOn[w]
           n == [l EXCEPT !.pc = "decide", !.verdict = v, !.result = p, !.placeholder = ph]
<1>3. p \in Nat /\ ph \in BOOLEAN
  BY <1>1 DEF Worker, NoResult
<1>4. wk' = [wk EXCEPT ![w] = n]
  BY <1>2
<1>5. v \in {"ok", "malfunction"} => p = l.token
  OBVIOUS
<1> HIDE DEF p, ph
<1>6. /\ n \in Worker /\ n.pc = "decide" /\ n.run = l.run /\ n.token = l.token
      /\ n.recovered = l.recovered /\ n.reconcile = l.reconcile
      /\ n.verdict = v /\ n.result = p
  BY <1>1, <1>3 DEF Worker, PCs
<1> HIDE DEF n
<1>7. wk'[w] = n /\ wk' \in [Workers -> Worker] /\ \A u \in Workers \ {w} : wk'[u] = wk[u]
  BY <1>1, <1>4, <1>6 DEF TypeOK
<1>8. UNCHANGED <<row, sink, inflight>> /\ sinkOn' \in [Workers -> BOOLEAN] /\ faults' \in Nat
  BY <1>1 DEF Execute, TypeOK
<1>9. wk[w].pc = "executing"
  BY DEF Execute, At
<1>10. WorkerInv(w)'
  BY <1>1, <1>5, <1>6, <1>7, <1>8, <1>9
     DEF WorkerInv, ClaimInv, ResultInv, WindowInv, CarriesStaged, Holds, Publication,
         NoResult, Worker
<1> QED
  BY <1>6, <1>7, <1>8, <1>9, <1>10, LocalStep

(* Every early return of executeOne keeps the invariant.                   *)
LEMMA ReturnActions ==
  ASSUME IInv, NEW w \in Workers, Return(w)
  PROVE  IInv' /\ RowSteps
<1>1. TypeOK
  BY Unpack
<1> QED
  BY <1>1, ReturnStep DEF Return, TypeOK

(* A process that dies leaves the rows and the table as they are.          *)
LEMMA CrashStep ==
  ASSUME IInv, NEW w \in Workers, Crash(w)
  PROVE  IInv' /\ RowSteps
<1>1. TypeOK
  BY Unpack
<1>2. faults' \in Nat
  BY <1>1 DEF Crash, TypeOK
<1>3. sinkOn' \in [Workers -> BOOLEAN]
  BY <1>1, LedgerAssumption DEF Crash, TypeOK
<1> QED
  BY <1>1, <1>2, <1>3, ReturnStep DEF Crash

(* The places executeOne goes to without a write.                          *)
LEMMA GotoActions ==
  ASSUME IInv, NEW w \in Workers,
         \/ UseStaged(w) \/ AfterRefusal(w) \/ BeginReconcile(w) \/ CheckCancellation(w)
         \/ PublishNoSink(w) \/ MergeReturns(w) \/ MergeFails(w)
         \/ ReadBack(w) \/ ReconcilePublication(w)
  PROVE  IInv' /\ RowSteps
<1>1. TypeOK /\ WorkerInv(w) /\ wk[w] \in Worker
  BY Unpack
<1> USE DEF At
<1>2. CASE Return(w)
  BY <1>2, ReturnActions
<1>3. CASE wk[w].pc = "decide" /\ wk[w].recovered /\ Goto(w, "ready")
  <2>1. "ready" \in PCs \ {"idle", "publishing", "merging"}
    BY DEF PCs
  <2> QED
    BY <1>1, <1>3, <2>1, GotoStep
       DEF Goto, WorkerInv, ResultInv, WindowInv, CarriesStaged, Publication
<1>4. CASE wk[w].pc \in {"refused", "ready"} /\ Goto(w, "canceling")
  <2>1. "canceling" \in PCs \ {"idle", "publishing", "merging"}
    BY DEF PCs
  <2> QED
    BY <1>1, <1>4, <2>1, GotoStep
       DEF Goto, WorkerInv, ResultInv, WindowInv, CarriesStaged, Publication
<1>5. CASE wk[w].pc = "ready" /\ ~wk[w].placeholder /\ ~wk[w].reconcile /\ Goto(w, "marking")
  <2>1. "marking" \in PCs \ {"idle", "publishing", "merging"}
    BY DEF PCs
  <2> QED
    BY <1>1, <1>5, <2>1, GotoStep
       DEF Goto, WorkerInv, ResultInv, WindowInv, CarriesStaged, Publication
<1>6. CASE /\ \/ wk[w].pc = "ready" /\ ~wk[w].placeholder /\ wk[w].reconcile
              \/ wk[w].pc \in Publication
           /\ \E p \in {"readback", "verifying", "retrying", "conflicting"} : Goto(w, p)
  <2>1. PICK p \in {"readback", "verifying", "retrying", "conflicting"} : Goto(w, p)
    BY <1>6
  <2>2. p \in PCs \ {"idle", "publishing", "merging"}
    BY DEF PCs
  <2> QED
    BY <1>1, <1>6, <2>1, <2>2, GotoStep
       DEF Goto, WorkerInv, ResultInv, WindowInv, CarriesStaged, Publication
<1>7. CASE /\ wk[w].pc \in Publication /\ sink[wk[w].run] = {wk[w].result}
           /\ Goto(w, "completing")
  <2>1. "completing" \in PCs \ {"idle", "publishing", "merging"}
    BY DEF PCs
  <2> QED
    BY <1>1, <1>7, <2>1, GotoStep
       DEF Goto, WorkerInv, ResultInv, WindowInv, CarriesStaged, Publication
<1>8. "match" \in VerifyStates(w) => sink[wk[w].run] = {wk[w].result}
  BY DEF VerifyStates
<1>9. CASE ReadBack(w) \/ ReconcilePublication(w)
  BY <1>6, <1>7, <1>8, <1>9 DEF ReadBack, ReconcilePublication, Publication
<1> QED
  BY <1>2, <1>3, <1>4, <1>5, <1>6, <1>9
     DEF UseStaged, Decide, AfterRefusal, BeginReconcile, CheckCancellation,
         PublishNoSink, MergeReturns, MergeFails, Publication

-----------------------------------------------------------------------------
(***************************************************************************)
(* The steps of executeOne that end with a fenced statement.               *)
(***************************************************************************)

(* MarkCanceled ends only an unmarked run, so nothing of it is on its way  *)
(* to the table.                                                           *)
LEMMA MarkCanceledStep ==
  ASSUME IInv, NEW w \in Workers, wk[w].pc # "idle", MarkCanceled(w)
  PROVE  IInv' /\ RowSteps
<1> DEFINE q == row[wk[w].run]
           can == Holds(w) /\ q.cancel /\ ~q.pending
           n == Canceled(q)
<1>1. PICK r0 \in Runs : wk[w].run = r0
  BY Unpack DEF WorkerInv, ClaimInv
<1>2. q \in Row /\ q = row[r0] /\ RowInv(r0)
  BY <1>1, Unpack
<1>3. FencedReturn(w, can, n) /\ can \in BOOLEAN
  BY DEF MarkCanceled
<1>4. can => q.status = "running" /\ ~q.pending /\ Holds(w)
  BY DEF Holds
<1> HIDE DEF q, can
<1>5. /\ n \in Row /\ n.status = "canceled" /\ n.lease = NoLease /\ n.live = FALSE
      /\ n.pending = FALSE /\ n.backoff = q.backoff /\ n.attempt = q.attempt
      /\ n.result = q.result /\ n.placeholder = q.placeholder
      /\ q.callback = "none" => n.callback = "none"
      /\ q.callback # "none" => n.callback = "pending"
  BY <1>2, CanceledFields
<1> HIDE DEF n
<1>6. ASSUME can, row'[r0] = n
      PROVE  RowInv(r0)' /\ RowStep(r0)
  <2>1. q.backoff = FALSE
    BY <1>2, <1>4, <1>6 DEF RowInv, QueuedInv, Row
  <2>2. sink' = sink /\ inflight' = inflight
    BY <1>3 DEF FencedReturn
  <2> QED
    BY <1>2, <1>4, <1>5, <1>6, <2>1, <2>2, EndedRow DEF Terminal
<1> QED
  BY <1>1, <1>3, <1>4, <1>5, <1>6, FencedStep

(* Fail is fenced by the live lease; a failed execution has no staged      *)
(* result of its own.                                                      *)
LEMMA FailStep ==
  ASSUME IInv, NEW w \in Workers, Fail(w)
  PROVE  IInv' /\ RowSteps
<1> DEFINE q == row[wk[w].run]
           can == Owns(w)
           n == Finish(q, "failed")
<1>0. wk[w].pc = "decide" /\ wk[w].verdict = "error"
  BY DEF Fail, Decide, At
<1>1. PICK r0 \in Runs : wk[w].run = r0
  BY <1>0, Unpack DEF WorkerInv, ClaimInv
<1>2. q \in Row /\ q = row[r0] /\ RowInv(r0) /\ WorkerInv(w) /\ wk[w] \in Worker
  BY <1>1, Unpack
<1>3. FencedReturn(w, can, n)
  BY DEF Fail
<1>3a. can \in BOOLEAN
  BY <1>1, <1>2 DEF Owns, Holds, Row
<1>4. can => q.status = "running" /\ Holds(w)
  BY DEF Owns, Holds
<1> HIDE DEF q
<1>5. /\ n \in Row /\ n.status = "failed" /\ n.lease = NoLease /\ n.live = FALSE
      /\ n.pending = q.pending /\ n.backoff = q.backoff /\ n.attempt = q.attempt
      /\ n.result = q.result /\ n.placeholder = q.placeholder
      /\ q.callback = "none" => n.callback = "none"
      /\ q.callback # "none" => n.callback = "pending"
  BY <1>2, FinishFields DEF Terminal
<1> HIDE DEF n
<1>6. ASSUME can, row'[r0] = n
      PROVE  RowInv(r0)' /\ RowStep(r0)
  <2>1. q.result = NoResult
    BY <1>0, <1>1, <1>2, <1>6 DEF WorkerInv, ResultInv, Owns
  <2>2. q.pending = FALSE /\ q.backoff = FALSE
    BY <1>2, <1>4, <1>6, <2>1 DEF RowInv, PendingInv, QueuedInv, Row
  <2>3. sink' = sink /\ inflight' = inflight
    BY <1>3 DEF FencedReturn
  <2> QED
    BY <1>2, <1>4, <1>5, <1>6, <2>1, <2>2, <2>3, EndedRow DEF Terminal
<1> HIDE DEF can
<1> QED
  BY <1>0, <1>1, <1>3, <1>3a, <1>4, <1>5, <1>6, FencedStep

(* FailOutcome stores its result only under a claim that has staged        *)
(* nothing.                                                                *)
LEMMA FailOutcomeStep ==
  ASSUME IInv, NEW w \in Workers, FailOutcome(w)
  PROVE  IInv' /\ RowSteps
<1> DEFINE q == row[wk[w].run]
           can == Owns(w) /\ ~q.cancel
           m == Staged(q, wk[w].result, wk[w].placeholder)
           n == Finish(m, "failed")
<1>0. wk[w].pc = "decide" /\ wk[w].verdict = "malfunction"
  BY DEF FailOutcome, Decide, At
<1>1. PICK r0 \in Runs : wk[w].run = r0
  BY <1>0, Unpack DEF WorkerInv, ClaimInv
<1>2. row[r0] \in Row /\ RowInv(r0) /\ WorkerInv(w) /\ wk[w] \in Worker
  BY Unpack
<1>3. FencedReturn(w, can, n) /\ can \in BOOLEAN
  BY DEF FailOutcome, Owns, Holds
<1>5. /\ m \in Row /\ m.pending = q.pending /\ m.backoff = q.backoff
      /\ m.attempt = q.attempt /\ m.callback = q.callback
  BY <1>1, <1>2, StagedFields
<1> HIDE DEF m
<1>6. /\ n \in Row /\ n.status = "failed" /\ n.lease = NoLease /\ n.live = FALSE
      /\ n.pending = q.pending /\ n.backoff = q.backoff /\ n.attempt = q.attempt
      /\ q.callback = "none" => n.callback = "none"
      /\ q.callback # "none" => n.callback = "pending"
  BY <1>5, FinishFields DEF Terminal
<1> HIDE DEF n
<1>7. can => Holds(w) /\ n \in Row
  BY <1>6 DEF Owns
<1>8. ASSUME can, row'[r0] = n
      PROVE  RowInv(r0)' /\ RowStep(r0)
  <2>1. row[r0].status = "running"
    BY <1>1, <1>8 DEF Holds, Owns
  <2>2. row[r0].result = NoResult
    BY <1>0, <1>1, <1>2, <1>8 DEF WorkerInv, ResultInv, Owns
  <2>3. row[r0].pending = FALSE /\ row[r0].backoff = FALSE
    BY <1>2, <2>1, <2>2 DEF RowInv, PendingInv, QueuedInv, Row
  <2>4. sink' = sink /\ inflight' = inflight
    BY <1>3 DEF FencedReturn
  <2> QED
    BY <1>1, <1>2, <1>6, <1>8, <2>1, <2>2, <2>3, <2>4, EndedRow DEF Terminal
<1> HIDE DEF can, q
<1> QED
  BY <1>0, <1>1, <1>3, <1>7, <1>8, FencedStep

(* A worker completes a run whose staged result it carries, and whose row  *)
(* it has seen in the table unless the result says that there is none.     *)
LEMMA CompletePublishedStep ==
  ASSUME IInv, NEW w \in Workers, CompletePublished(w),
         \/ wk[w].pc = "ready" /\ wk[w].placeholder
         \/ wk[w].pc = "completing"
  PROVE  IInv' /\ RowSteps
<1> DEFINE q == row[wk[w].run]
           can == Owns(w)
           l == wk[w]
           n == Completed(q, l.result, l.placeholder)
<1>1. PICK r0 \in Runs : wk[w].run = r0
  BY Unpack DEF WorkerInv, ClaimInv
<1>2. q \in Row /\ q = row[r0] /\ RowInv(r0) /\ WorkerInv(w) /\ wk[w] \in Worker
  BY <1>1, Unpack
<1>3. FencedReturn(w, can, n)
  BY DEF CompletePublished
<1>3a. can \in BOOLEAN
  BY <1>1, <1>2 DEF Owns, Holds, Row
<1>4. can => q.status = "running" /\ Holds(w)
  BY DEF Owns, Holds
<1>6. /\ l \in Worker /\ l.result # NoResult /\ l.result = q.result
      /\ l.placeholder = q.placeholder
      /\ ~l.placeholder => sink[r0] = {l.result}
      /\ \/ l.placeholder \/ q.pending \/ q.status \in {"completed", "failed"}
  BY <1>1, <1>2 DEF WorkerInv, ResultInv, WindowInv, CarriesStaged, Publication
<1> HIDE DEF q, can, l
<1>7. /\ n \in Row /\ n.status = "completed" /\ n.lease = NoLease /\ n.live = FALSE
      /\ n.pending = FALSE /\ n.backoff = FALSE /\ n.attempt = q.attempt
      /\ n.result = l.result /\ n.placeholder = l.placeholder
      /\ q.callback = "none" => n.callback = "none"
      /\ q.callback # "none" => n.callback = "pending"
  <2>1. q \in Row /\ l \in Worker
    BY <1>2, <1>6
  <2>2. n = Completed(q, l.result, l.placeholder)
    OBVIOUS
  <2> HIDE DEF n
  <2> QED
    BY ONLY <2>1, <2>2, CompletedFields
<1> HIDE DEF n
<1>8. ASSUME can, row'[r0] = n
      PROVE  RowInv(r0)' /\ RowStep(r0)
  <2>1. sink' = sink /\ inflight' = inflight
    BY <1>3 DEF FencedReturn
  <2> QED
    BY <1>2, <1>4, <1>6, <1>7, <1>8, <2>1, EndedRow DEF Terminal
<1> QED
  BY <1>1, <1>3, <1>3a, <1>4, <1>7, <1>8, FencedStep

(* FailPublicationConflict ends a marked run and removes the mark.         *)
LEMMA FailPublicationConflictStep ==
  ASSUME IInv, NEW w \in Workers, FailPublicationConflict(w)
  PROVE  IInv' /\ RowSteps
<1> DEFINE q == row[wk[w].run]
           can == Owns(w)
           n == Conflicted(q)
<1>0. wk[w].pc = "conflicting"
  BY DEF FailPublicationConflict, At
<1>1. PICK r0 \in Runs : wk[w].run = r0
  BY <1>0, Unpack DEF WorkerInv, ClaimInv
<1>2. q \in Row /\ q = row[r0] /\ RowInv(r0)
  BY <1>1, Unpack
<1>3. FencedReturn(w, can, n)
  BY DEF FailPublicationConflict
<1>3a. can \in BOOLEAN
  BY <1>1, <1>2 DEF Owns, Holds, Row
<1>4. can => q.status = "running" /\ Holds(w)
  BY DEF Owns, Holds
<1> HIDE DEF q, can
<1>5. /\ n \in Row /\ n.status = "failed" /\ n.lease = NoLease /\ n.live = FALSE
      /\ n.pending = FALSE /\ n.backoff = q.backoff /\ n.attempt = q.attempt
      /\ n.result = q.result /\ n.placeholder = q.placeholder
      /\ q.callback = "none" => n.callback = "none"
      /\ q.callback # "none" => n.callback = "pending"
  BY <1>2, ConflictedFields
<1> HIDE DEF n
<1>6. ASSUME can, row'[r0] = n
      PROVE  RowInv(r0)' /\ RowStep(r0)
  <2>1. q.backoff = FALSE
    BY <1>2, <1>4, <1>6 DEF RowInv, QueuedInv, Row
  <2>2. sink' = sink /\ inflight' = inflight
    BY <1>3 DEF FencedReturn
  <2> QED
    BY <1>2, <1>4, <1>5, <1>6, <2>1, <2>2, EndedRow DEF Terminal
<1> QED
  BY <1>0, <1>1, <1>3, <1>3a, <1>4, <1>5, <1>6, FencedStep

(* RetryVerification requeues a marked run with its mark and its result,   *)
(* or fails it.                                                            *)
LEMMA RetryVerificationStep ==
  ASSUME IInv, NEW w \in Workers, RetryVerification(w)
  PROVE  IInv' /\ RowSteps
<1> DEFINE q == row[wk[w].run]
           can == Owns(w) /\ q.pending
           n == VerificationRetried(q)
           over == q.verification + 1 >= MaxVerificationAttempts
<1>0. wk[w].pc = "retrying"
  BY DEF RetryVerification, At
<1>1. PICK r0 \in Runs : wk[w].run = r0
  BY <1>0, Unpack DEF WorkerInv, ClaimInv
<1>2. q \in Row /\ q = row[r0] /\ RowInv(r0)
  BY <1>1, Unpack
<1>3. FencedReturn(w, can, n)
  BY DEF RetryVerification
<1>3a. can \in BOOLEAN
  BY <1>1, <1>2 DEF Owns, Holds, Row
<1>4. can => q.status = "running" /\ q.pending /\ Holds(w)
  BY DEF Owns, Holds
<1> HIDE DEF q, can
<1>5. /\ n \in Row /\ n.lease = NoLease /\ n.live = FALSE
      /\ n.attempt = q.attempt /\ n.result = q.result /\ n.placeholder = q.placeholder
      /\ over =>
           /\ n.status = "failed" /\ n.pending = FALSE /\ n.backoff = FALSE
           /\ q.callback = "none" => n.callback = "none"
           /\ q.callback # "none" => n.callback = "pending"
      /\ ~over =>
           /\ n.status = "queued" /\ n.pending = q.pending
           /\ n.callback = q.callback
  BY <1>2, VerificationRetriedFields
<1> HIDE DEF n, over
<1>6. ASSUME can, row'[r0] = n
      PROVE  RowInv(r0)' /\ RowStep(r0)
  <2>2. sink' = sink /\ inflight' = inflight
    BY <1>3 DEF FencedReturn
  <2>3. CASE over
    BY <1>2, <1>4, <1>5, <1>6, <2>2, <2>3, EndedRow DEF Terminal
  <2>4. CASE ~over
    <3>2. RowStep(r0)
      BY <1>2, <1>4, <1>5, <1>6, <2>4 DEF RowStep, Terminal, Row
    <3>3. LeaseInv(r0)' /\ PendingInv(r0)' /\ QueuedInv(r0)'
      BY <1>2, <1>4, <1>5, <1>6, <2>4 DEF RowInv, LeaseInv, PendingInv, QueuedInv
    <3>4. QuietInv(r0)' /\ SinkInv(r0)' /\ CallbackInv(r0)'
      BY <1>2, <1>4, <1>5, <1>6, <2>2, <2>4
         DEF RowInv, PendingInv, QuietInv, SinkInv, CallbackInv, Terminal
    <3> QED
      BY <3>2, <3>3, <3>4 DEF RowInv
  <2> QED
    BY <2>3, <2>4
<1> QED
  BY <1>0, <1>1, <1>3, <1>3a, <1>4, <1>5, <1>6, FencedStep

-----------------------------------------------------------------------------
(***************************************************************************)
(* The claim, the staging and the publication mark: the worker goes on.    *)
(***************************************************************************)

(* LeaseNext hands out a fresh token and the result it found, so the new   *)
(* holder and the zombies before it agree on that result.                  *)
LEMMA LeaseNextStep ==
  ASSUME IInv, NEW w \in Workers, NEW r0 \in Runs, LeaseNext(w, r0)
  PROVE  IInv' /\ RowSteps
<1> DEFINE q == row[r0]
           n == Leased(q)
<1>1. TypeOK /\ q \in Row /\ RowInv(r0)
  BY Unpack
<1>2. Leasable(q) /\ row' = [row EXCEPT ![r0] = n] /\ UNCHANGED <<sinkOn, sink, inflight, faults>>
  BY DEF LeaseNext, Set
<1>3. q.status \in {"queued", "running"}
  BY <1>2 DEF Leasable
<1>4. PICK l \in Worker :
        /\ wk' = [wk EXCEPT ![w] = l]
        /\ l.pc = IF q.result = NoResult THEN "executing" ELSE "decide"
        /\ l.run = r0 /\ l.token = q.attempt + 1
        /\ l.recovered = (q.result # NoResult)
        /\ l.reconcile = q.pending
        /\ l.result # NoResult => l.verdict = "ok"
        /\ l.result = q.result /\ l.placeholder = q.placeholder
  <2> DEFINE pc == IF q.result = NoResult THEN "executing" ELSE "decide"
             vd == IF q.result = NoResult THEN "none" ELSE "ok"
             rec == q.result # NoResult
             tk == q.attempt + 1
             m == [Idle EXCEPT !.pc = pc, !.run = r0, !.token = tk, !.recovered = rec,
                               !.reconcile = q.pending, !.verdict = vd,
                               !.result = q.result, !.placeholder = q.placeholder]
  <2>1. wk' = [wk EXCEPT ![w] = m]
    BY DEF LeaseNext
  <2>2. /\ pc \in PCs /\ vd \in {"none", "ok"} /\ rec \in BOOLEAN /\ tk \in Nat
        /\ q.pending \in BOOLEAN /\ q.result \in Nat /\ q.placeholder \in BOOLEAN
    BY <1>1 DEF PCs, Row
  <2>3. q.result # NoResult => vd = "ok"
    OBVIOUS
  <2> HIDE DEF q, pc, vd, rec, tk
  <2>4. /\ m \in Worker /\ m.pc = pc /\ m.run = r0 /\ m.token = tk
        /\ m.recovered = rec /\ m.reconcile = q.pending
        /\ m.verdict = vd
        /\ m.result = q.result /\ m.placeholder = q.placeholder
    BY <2>2 DEF Idle, Worker, NoLease, NoResult
  <2> HIDE DEF m
  <2> QED
    BY <2>1, <2>3, <2>4 DEF pc, rec, tk
<1>5. wk' \in [Workers -> Worker] /\ wk'[w] = l /\ \A v \in Workers \ {w} : wk'[v] = wk[v]
  BY <1>1, <1>4 DEF TypeOK
<1> HIDE DEF q
<1>6. /\ n \in Row /\ n.status = "running" /\ n.lease = q.attempt + 1
      /\ n.pending = q.pending /\ n.backoff = FALSE /\ n.attempt = q.attempt + 1
      /\ n.result = q.result /\ n.placeholder = q.placeholder /\ n.callback = q.callback
  BY <1>1, LeasedFields
<1> HIDE DEF n
<1>7. q = row[r0]
  BY DEF q
<1>8. ASSUME row'[r0] = n PROVE RowInv(r0)' /\ RowStep(r0)
  <2>1. q.attempt \in Nat /\ q.attempt + 1 # 0
    BY <1>1 DEF Row
  <2>2. RowStep(r0)
    BY <1>3, <1>6, <1>7, <1>8, <2>1 DEF RowStep, Terminal
  <2>3. LeaseInv(r0)' /\ PendingInv(r0)' /\ QueuedInv(r0)'
    BY <1>1, <1>3, <1>6, <1>7, <1>8, <2>1 DEF RowInv, LeaseInv, PendingInv, QueuedInv
  <2>4. QuietInv(r0)' /\ SinkInv(r0)' /\ CallbackInv(r0)'
    BY <1>1, <1>2, <1>3, <1>6, <1>7, <1>8
       DEF RowInv, QuietInv, SinkInv, CallbackInv, Terminal
  <2> QED
    BY <2>2, <2>3, <2>4 DEF RowInv
<1>9. /\ row' \in [Runs -> Row] /\ row'[r0] = n
      /\ \A r \in Runs \ {r0} : row'[r] = row[r]
      /\ \A r \in Runs : RowInv(r)' /\ RowStep(r)
  BY <1>2, <1>6, <1>8, RowWritten
<1>10. TypeOK'
  BY <1>1, <1>2, <1>5, <1>9 DEF TypeOK
<1>11. WorkerInv(w)'
  <2>1. q.attempt \in Nat
    BY <1>1 DEF Row
  <2>2. ClaimInv(w)'
    BY <1>4, <1>5, <1>6, <1>9, <2>1 DEF ClaimInv
  <2>3. q.result = NoResult => q.attempt < MaxAttempts /\ ~q.pending
    BY <1>1, <1>2, <1>7 DEF Leasable, RowInv, PendingInv
  <2>4. ResultInv(w)'
    <3>1. q.result = NoResult => l.token <= MaxAttempts
      BY <1>4, <2>1, <2>3, LedgerAssumption
    <3>2. CASE q.result = NoResult
      <4>1. l.pc = "executing" /\ ~l.recovered
        BY <1>4, <3>2
      <4> QED
        BY <1>5, <1>6, <1>9, <3>1, <3>2, <4>1, <1>4
           DEF ResultInv, CarriesStaged, Holds, Publication
    <3>3. CASE q.result # NoResult
      <4>1. l.pc = "decide" /\ l.recovered /\ l.verdict = "ok"
        BY <1>4, <3>3
      <4> QED
        BY <1>4, <1>5, <1>6, <1>9, <3>3, <4>1
           DEF ResultInv, CarriesStaged, Holds, Publication
    <3> QED
      BY <3>2, <3>3
  <2>5. WindowInv(w)'
    BY <1>4, <1>5, <1>6, <1>9, <2>3 DEF WindowInv, CarriesStaged, Publication
  <2> QED
    BY <2>2, <2>4, <2>5 DEF WorkerInv
<1>12. \A v \in Workers \ {w} : wk[v].pc # "idle" =>
         /\ wk[v].run = r0 => wk[v].token # l.token
         /\ row'[wk[v].run].result = row[wk[v].run].result
  <2> SUFFICES ASSUME NEW v \in Workers \ {w}, wk[v].pc # "idle"
               PROVE  /\ wk[v].run = r0 => wk[v].token # l.token
                      /\ row'[wk[v].run].result = row[wk[v].run].result
    OBVIOUS
  <2>1. wk[v].run \in Runs /\ wk[v].token <= row[wk[v].run].attempt /\ wk[v].token \in Nat
    BY Unpack DEF WorkerInv, ClaimInv, Worker
  <2>2. q.attempt \in Nat
    BY <1>1 DEF Row
  <2>3. wk[v].run = r0 => wk[v].token # l.token
    BY <1>4, <1>7, <2>1, <2>2
  <2>4. row'[wk[v].run].result = row[wk[v].run].result
    BY <1>6, <1>7, <1>9, <2>1
  <2> QED
    BY <2>3, <2>4
<1> QED
  BY <1>2, <1>4, <1>5, <1>9, <1>10, <1>11, <1>12, OneMoves

(* StageOutcome is refused once any claim has staged a result.             *)
LEMMA StageOutcomeStep ==
  ASSUME IInv, NEW w \in Workers, StageOutcome(w)
  PROVE  IInv' /\ RowSteps
<1> DEFINE q == row[wk[w].run]
           l == wk[w]
           can == Owns(w) /\ Stageable(q)
           n == Staged(q, l.result, l.placeholder)
           p == IF can THEN "ready" ELSE "refused"
<1>0. wk[w].pc = "decide" /\ ~wk[w].recovered /\ wk[w].verdict = "ok"
  BY DEF StageOutcome, Decide, At
<1>1. PICK r0 \in Runs : wk[w].run = r0
  BY <1>0, Unpack DEF WorkerInv, ClaimInv
<1>2. TypeOK /\ q \in Row /\ q = row[r0] /\ RowInv(r0) /\ WorkerInv(w) /\ l \in Worker
  BY <1>1, Unpack
<1>3. wk' = [wk EXCEPT ![w].pc = p] /\ UNCHANGED <<sinkOn, sink, inflight, faults>>
  BY DEF StageOutcome
<1>4. CASE ~can
  <2>1. p = "refused" /\ p \in PCs \ {"idle", "publishing", "merging"} /\ row' = row
    BY <1>4 DEF PCs, StageOutcome
  <2>2. Goto(w, p)
    BY <1>3, <2>1 DEF Goto
  <2> QED
    BY <1>0, <1>2, <2>1, <2>2, GotoStep
       DEF WorkerInv, ResultInv, WindowInv, CarriesStaged, Publication
<1>5. CASE can
  <2>1. p = "ready" /\ p \in PCs /\ row' = [row EXCEPT ![r0] = n]
    BY <1>1, <1>5 DEF PCs, StageOutcome, Set
  <2>2. q.status = "running" /\ q.result = NoResult
    BY <1>5 DEF Owns, Holds, Stageable
  <2>3. /\ l.result # NoResult /\ ~l.reconcile
    BY <1>0, <1>2 DEF WorkerInv, ResultInv
  <2>4. /\ wk' \in [Workers -> Worker] /\ \A v \in Workers \ {w} : wk'[v] = wk[v]
        /\ wk'[w].pc = "ready" /\ wk'[w].run = r0 /\ wk'[w].token = l.token
        /\ wk'[w].recovered = l.recovered /\ wk'[w].reconcile = l.reconcile
        /\ wk'[w].result = l.result /\ wk'[w].placeholder = l.placeholder
    BY <1>1, <1>2, <1>3, <2>1, GotoFields
  <2>5. \A v \in Workers \ {w} :
          wk[v].pc # "idle" => ~(wk[v].run = r0 /\ wk[v].token = l.token)
    BY <1>0, <1>1, Unpack DEF UniqueClaims
  <2>6. row[r0].lease = l.token
    BY <1>1, <1>5 DEF Owns, Holds
  <2> HIDE DEF q, can, p
  <2>7. /\ n \in Row /\ n.status = q.status /\ n.lease = q.lease /\ n.live = q.live
        /\ n.pending = q.pending /\ n.backoff = q.backoff /\ n.attempt = q.attempt
        /\ n.result = l.result /\ n.placeholder = l.placeholder /\ n.callback = q.callback
    BY <1>2, StagedFields
  <2> HIDE DEF n
  <2>8. ~q.pending
    BY <1>2, <2>2 DEF RowInv, PendingInv
  <2>9. inflight[r0] = {} /\ sink[r0] \subseteq {Foreign}
    BY <1>2, <2>2, <2>8, Unmarked
  <2>10. ASSUME row'[r0] = n PROVE RowInv(r0)' /\ RowStep(r0)
    <3>1. RowStep(r0)
      BY <1>2, <2>2, <2>7, <2>8, <2>10 DEF RowStep, Terminal, Row
    <3>2. LeaseInv(r0)' /\ PendingInv(r0)' /\ QueuedInv(r0)' /\ CallbackInv(r0)'
      BY <1>2, <2>2, <2>7, <2>8, <2>10
         DEF RowInv, LeaseInv, PendingInv, QueuedInv, CallbackInv, Terminal
    <3>3. QuietInv(r0)' /\ SinkInv(r0)'
      BY <1>2, <1>3, <2>2, <2>7, <2>9, <2>10 DEF QuietInv, SinkInv
    <3> QED
      BY <3>1, <3>2, <3>3 DEF RowInv
  <2>11. /\ row' \in [Runs -> Row] /\ row'[r0] = n
         /\ \A r \in Runs \ {r0} : row'[r] = row[r]
         /\ \A r \in Runs : RowInv(r)' /\ RowStep(r)
    BY <1>3, <2>1, <2>7, <2>10, RowWritten
  <2>12. TypeOK'
    BY <1>2, <1>3, <2>4, <2>11 DEF TypeOK
  <2>13. WorkerInv(w)'
    <3>1. ClaimInv(w)'
      BY <1>0, <1>1, <1>2, <2>4, <2>7, <2>11 DEF WorkerInv, ClaimInv
    <3>2. ResultInv(w)' /\ WindowInv(w)'
      BY <2>3, <2>4, <2>7, <2>11 DEF ResultInv, WindowInv, CarriesStaged, Publication
    <3> QED
      BY <3>1, <3>2 DEF WorkerInv
  <2>14. \A v \in Workers \ {w} : wk[v].pc # "idle" /\ Holds(v) =>
           row'[wk[v].run].result = row[wk[v].run].result
    <3> SUFFICES ASSUME NEW v \in Workers \ {w}, wk[v].pc # "idle", Holds(v)
                 PROVE  wk[v].run \in Runs \ {r0}
      BY <2>11
    <3>1. wk[v].run \in Runs
      BY Unpack DEF WorkerInv, ClaimInv
    <3> QED
      BY <2>5, <2>6, <3>1 DEF Holds
  <2> QED
    BY <1>3, <2>4, <2>5, <2>11, <2>12, <2>13, <2>14, OneMoves
<1> QED
  BY <1>4, <1>5

(* The mark is written once per run, by a holder that carries the staged   *)
(* result: hence at most one publisher.                                    *)
LEMMA MarkPublicationPendingStep ==
  ASSUME IInv, NEW w \in Workers, MarkPublicationPending(w)
  PROVE  IInv' /\ RowSteps
<1> DEFINE q == row[wk[w].run]
           l == wk[w]
           can == Owns(w) /\ Markable(q)
           n == Marked(q)
<1>0. wk[w].pc = "marking"
  BY DEF MarkPublicationPending, At
<1>1. PICK r0 \in Runs : wk[w].run = r0
  BY <1>0, Unpack DEF WorkerInv, ClaimInv
<1>2. TypeOK /\ q \in Row /\ q = row[r0] /\ RowInv(r0) /\ WorkerInv(w) /\ l \in Worker
  BY <1>1, Unpack
<1>3. UNCHANGED <<sinkOn, sink, inflight, faults>>
  BY DEF MarkPublicationPending
<1>4. CASE ~can
  <2>1. row' = row /\ wk' = [wk EXCEPT ![w] = Idle]
    BY <1>4 DEF MarkPublicationPending
  <2> QED
    BY <1>2, <1>3, <2>1, ReturnStep DEF TypeOK
<1>5. CASE can
  <2>1. "publishing" \in PCs /\ row' = [row EXCEPT ![r0] = n]
        /\ wk' = [wk EXCEPT ![w].pc = "publishing"]
    BY <1>1, <1>5 DEF PCs, MarkPublicationPending, Set
  <2>2. q.status = "running" /\ ~q.pending /\ ~q.cancel
    BY <1>5 DEF Owns, Holds, Markable
  <2>3. /\ l.result # NoResult /\ l.result = q.result
        /\ l.placeholder = q.placeholder /\ ~l.placeholder
    BY <1>0, <1>1, <1>2 DEF WorkerInv, ResultInv, CarriesStaged
  <2>4. /\ wk' \in [Workers -> Worker] /\ \A v \in Workers \ {w} : wk'[v] = wk[v]
        /\ wk'[w].pc = "publishing" /\ wk'[w].run = r0 /\ wk'[w].token = l.token
        /\ wk'[w].recovered = l.recovered /\ wk'[w].reconcile = l.reconcile
        /\ wk'[w].result = l.result /\ wk'[w].placeholder = l.placeholder
    BY <1>1, <1>2, <2>1, GotoFields
  <2>5. \A v \in Workers \ {w} :
          wk[v].pc # "idle" => ~(wk[v].run = r0 /\ wk[v].token = l.token)
    BY <1>0, <1>1, Unpack DEF UniqueClaims
  <2>6. \A v \in Workers : wk[v].run = r0 => wk[v].pc \notin {"publishing", "merging"}
    BY <1>2, <2>2, Unpack DEF WorkerInv, WindowInv, Publication
  <2> HIDE DEF q, can
  <2>7. /\ n \in Row /\ n.status = q.status /\ n.lease = q.lease /\ n.live = q.live
        /\ n.pending = TRUE /\ n.backoff = FALSE /\ n.attempt = q.attempt
        /\ n.result = q.result /\ n.placeholder = q.placeholder /\ n.callback = q.callback
    BY <1>2, MarkedFields
  <2> HIDE DEF n
  <2>10. ASSUME row'[r0] = n PROVE RowInv(r0)' /\ RowStep(r0)
    <3>1. RowStep(r0)
      BY <1>2, <2>2, <2>7, <2>10 DEF RowStep, Terminal, Row
    <3>2. LeaseInv(r0)' /\ PendingInv(r0)' /\ QueuedInv(r0)' /\ CallbackInv(r0)'
      BY <1>2, <2>2, <2>3, <2>7, <2>10
         DEF RowInv, LeaseInv, PendingInv, QueuedInv, CallbackInv, Terminal
    <3>3. QuietInv(r0)' /\ SinkInv(r0)'
      BY <1>2, <1>3, <2>2, <2>3, <2>7, <2>10 DEF RowInv, QuietInv, SinkInv
    <3> QED
      BY <3>1, <3>2, <3>3 DEF RowInv
  <2>11. /\ row' \in [Runs -> Row] /\ row'[r0] = n
         /\ \A r \in Runs \ {r0} : row'[r] = row[r]
         /\ \A r \in Runs : RowInv(r)' /\ RowStep(r)
    BY <1>3, <2>1, <2>7, <2>10, RowWritten
  <2>12. TypeOK'
    BY <1>2, <1>3, <2>4, <2>11 DEF TypeOK
  <2>13. WorkerInv(w)'
    <3>1. ClaimInv(w)'
      BY <1>0, <1>1, <1>2, <2>4, <2>7, <2>11 DEF WorkerInv, ClaimInv
    <3>2. ResultInv(w)' /\ WindowInv(w)'
      BY <2>3, <2>4, <2>7, <2>11 DEF ResultInv, WindowInv, CarriesStaged, Publication
    <3> QED
      BY <3>1, <3>2 DEF WorkerInv
  <2>14. \A v \in Workers \ {w} : wk[v].pc # "idle" /\ Holds(v) =>
           row'[wk[v].run].result = row[wk[v].run].result
    BY <1>2, <2>7, <2>11, Unpack DEF WorkerInv, ClaimInv
  <2> QED
    BY <1>3, <2>4, <2>5, <2>6, <2>11, <2>12, <2>13, <2>14, OneMoves
<1> QED
  BY <1>4, <1>5

-----------------------------------------------------------------------------
(***************************************************************************)
(* The table.                                                              *)
(***************************************************************************)

(* The MERGE carries the staged result of a marked or finished run.        *)
LEMMA PublishMergeStep ==
  ASSUME IInv, NEW w \in Workers, PublishMerge(w)
  PROVE  IInv' /\ RowSteps
<1> DEFINE l == wk[w]
<1>0. wk[w].pc = "publishing"
  BY DEF PublishMerge, At
<1>1. PICK r0 \in Runs : wk[w].run = r0
  BY <1>0, Unpack DEF WorkerInv, ClaimInv
<1>2. TypeOK /\ row[r0] \in Row /\ RowInv(r0) /\ WorkerInv(w) /\ l \in Worker
  BY Unpack
<1>3. /\ inflight' = [inflight EXCEPT ![r0] = inflight[r0] \cup {l.result}]
      /\ wk' = [wk EXCEPT ![w].pc = "merging"]
      /\ UNCHANGED <<row, sinkOn, sink, faults>>
  BY <1>1 DEF PublishMerge
<1>4. l.result = row[r0].result /\ ~row[r0].placeholder /\ l.result \in Nat
  BY <1>0, <1>1, <1>2 DEF WorkerInv, ResultInv, CarriesStaged, Publication, Worker
<1>5. row[r0].pending \/ row[r0].status \in {"completed", "failed"}
  BY <1>0, <1>1, <1>2 DEF WorkerInv, WindowInv, Publication
<1>6. /\ inflight' \in [Runs -> SUBSET Nat]
      /\ inflight'[r0] = inflight[r0] \cup {l.result}
      /\ \A r \in Runs \ {r0} : inflight'[r] = inflight[r]
  BY <1>2, <1>3, <1>4 DEF TypeOK
<1>7. "merging" \in PCs
  BY DEF PCs
<1>8. /\ wk' \in [Workers -> Worker] /\ \A v \in Workers \ {w} : wk'[v] = wk[v]
      /\ wk'[w].pc = "merging" /\ wk'[w].run = r0 /\ wk'[w].token = l.token
      /\ wk'[w].recovered = l.recovered /\ wk'[w].reconcile = l.reconcile
      /\ wk'[w].result = l.result /\ wk'[w].placeholder = l.placeholder
  BY <1>1, <1>2, <1>3, <1>7, GotoFields
<1>9. TypeOK'
  BY <1>2, <1>3, <1>6, <1>8 DEF TypeOK
<1>10. \A r \in Runs : RowInv(r)' /\ RowStep(r)
  <2>1. RowInv(r0)'
    BY <1>2, <1>3, <1>4, <1>5, <1>6
       DEF RowInv, LeaseInv, PendingInv, QueuedInv, QuietInv, SinkInv, CallbackInv
  <2>2. RowStep(r0)
    BY <1>2, <1>3 DEF RowStep, Row
  <2> QED
    BY <1>3, <1>6, <2>1, <2>2, SameRow
<1>11. WorkerInv(w)'
  BY <1>0, <1>1, <1>2, <1>3, <1>8
     DEF WorkerInv, ClaimInv, ResultInv, WindowInv, CarriesStaged, Publication
<1>12. \A v \in Workers \ {w} :
         /\ wk[v].pc # "idle" => ~(wk[v].run = r0 /\ wk[v].token = l.token)
         /\ wk[v].run = r0 => wk[v].pc \notin {"publishing", "merging"}
  BY <1>0, <1>1, Unpack DEF UniqueClaims, SinglePublisher
<1> QED
  BY <1>3, <1>8, <1>9, <1>10, <1>11, <1>12, OneMoves

(* What the table does with a MERGE, or with somebody else's row, keeps    *)
(* the invariant.                                                          *)
LEMMA TableStep ==
  ASSUME IInv, NEW r0 \in Runs,
         MergeApplies(r0) \/ MergeLost(r0) \/ ForeignWrite(r0)
  PROVE  IInv' /\ RowSteps
<1>1. TypeOK /\ row[r0] \in Row /\ RowInv(r0)
  BY Unpack
<1>2. UNCHANGED <<row, wk, sinkOn, faults>>
  BY DEF MergeApplies, MergeLost, ForeignWrite
<1>3. CASE MergeApplies(r0)
  <2>1. PICK p \in inflight[r0] :
          /\ inflight' = [inflight EXCEPT ![r0] = inflight[r0] \ {p}]
          /\ sink' = [sink EXCEPT ![r0] = IF sink[r0] = {} THEN {p} ELSE sink[r0]]
    BY <1>3 DEF MergeApplies
  <2>2. p \in Nat
    BY <1>1 DEF TypeOK
  <2>3. /\ inflight' \in [Runs -> SUBSET Nat] /\ sink' \in [Runs -> SUBSET Nat]
        /\ inflight'[r0] = inflight[r0] \ {p}
        /\ sink[r0] = {} => sink'[r0] = {p}
        /\ sink[r0] # {} => sink'[r0] = sink[r0]
        /\ \A r \in Runs \ {r0} : inflight'[r] = inflight[r] /\ sink'[r] = sink[r]
    BY <1>1, <2>1, <2>2 DEF TypeOK
  <2>4. ~row[r0].placeholder /\ (row[r0].pending \/ row[r0].status \in {"completed", "failed"})
    BY <1>1, <2>1 DEF RowInv, QuietInv
  <2>5. QuietInv(r0)'
    BY <1>2, <2>4 DEF QuietInv
  <2>6. SinkInv(r0)'
    BY <1>1, <1>2, <2>1, <2>3 DEF RowInv, SinkInv
  <2>7. RowInv(r0)' /\ RowStep(r0)
    BY <1>1, <1>2, <2>5, <2>6
       DEF RowInv, RowStep, LeaseInv, PendingInv, QueuedInv, CallbackInv, Row
  <2> QED
    BY <1>1, <1>2, <2>3, <2>7, SameRow, NobodyMoves DEF TypeOK
<1>4. CASE MergeLost(r0)
  <2>1. PICK p \in inflight[r0] :
          inflight' = [inflight EXCEPT ![r0] = inflight[r0] \ {p}] /\ sink' = sink
    BY <1>4 DEF MergeLost
  <2>2. /\ inflight' \in [Runs -> SUBSET Nat]
        /\ inflight'[r0] = inflight[r0] \ {p}
        /\ \A r \in Runs \ {r0} : inflight'[r] = inflight[r]
    BY <1>1, <2>1 DEF TypeOK
  <2>3. RowInv(r0)' /\ RowStep(r0)
    BY <1>1, <1>2, <2>1, <2>2
       DEF RowInv, RowStep, LeaseInv, PendingInv, QueuedInv, QuietInv, SinkInv,
           CallbackInv, Row
  <2> QED
    BY <1>1, <1>2, <2>1, <2>2, <2>3, SameRow, NobodyMoves DEF TypeOK
<1>5. CASE ForeignWrite(r0)
  <2>1. sink[r0] = {} /\ sink' = [sink EXCEPT ![r0] = {Foreign}] /\ inflight' = inflight
    BY <1>5 DEF ForeignWrite
  <2>2. /\ sink' \in [Runs -> SUBSET Nat]
        /\ sink'[r0] = {Foreign}
        /\ \A r \in Runs \ {r0} : sink'[r] = sink[r]
    BY <1>1, <2>1 DEF TypeOK, Foreign
  <2>3. RowInv(r0)' /\ RowStep(r0)
    BY <1>1, <1>2, <2>1, <2>2
       DEF RowInv, RowStep, LeaseInv, PendingInv, QueuedInv, QuietInv, SinkInv,
           CallbackInv, Row
  <2> QED
    BY <1>1, <1>2, <2>1, <2>2, <2>3, SameRow, NobodyMoves DEF TypeOK
<1> QED
  BY <1>3, <1>4, <1>5

-----------------------------------------------------------------------------
(***************************************************************************)
(* The API, the clock and the recovery sweeps.                             *)
(***************************************************************************)

(* A new row is queued, unclaimed and silent.                              *)
LEMMA CreateRunStep ==
  ASSUME IInv, NEW r0 \in Runs, CreateRun(r0)
  PROVE  IInv' /\ RowSteps
<1> DEFINE n == Queued(r0)
<1>1. TypeOK /\ row[r0] \in Row /\ RowInv(r0) /\ row[r0].status = "absent"
  BY Unpack DEF CreateRun
<1>2. /\ n \in Row /\ n.status = "queued" /\ n.lease = NoLease /\ ~n.live
      /\ ~n.cancel /\ ~n.pending /\ ~n.backoff /\ n.attempt = 0
      /\ n.result = NoResult /\ ~n.placeholder
      /\ r0 \in CallbackRuns => n.callback = "waiting"
      /\ r0 \notin CallbackRuns => n.callback = "none"
  BY QueuedFields
<1>3. Set(r0, n) /\ UNCHANGED <<wk, sinkOn, sink, inflight, faults>>
  BY DEF CreateRun
<1> HIDE DEF n
<1>4. ~row[r0].pending /\ row[r0].result = NoResult /\ row[r0].attempt = 0
  BY <1>1 DEF RowInv, PendingInv, QueuedInv
<1>5. inflight[r0] = {} /\ sink[r0] \subseteq {Foreign}
  BY <1>1, <1>4, Unmarked
<1>6. ASSUME row'[r0] = n PROVE RowInv(r0)' /\ RowStep(r0)
  <2>1. RowStep(r0)
    BY <1>1, <1>2, <1>4, <1>6 DEF RowStep, Terminal
  <2>2. LeaseInv(r0)' /\ PendingInv(r0)' /\ QueuedInv(r0)'
    BY <1>2, <1>6 DEF LeaseInv, PendingInv, QueuedInv
  <2>3. QuietInv(r0)' /\ SinkInv(r0)' /\ CallbackInv(r0)'
    BY <1>2, <1>3, <1>5, <1>6 DEF QuietInv, SinkInv, CallbackInv, Terminal
  <2> QED
    BY <2>1, <2>2, <2>3 DEF RowInv
<1>7. faults' \in Nat
  BY <1>1, <1>3 DEF TypeOK
<1> QED
  BY <1>2, <1>3, <1>4, <1>6, <1>7, RowOnlyStep

(* Cancel ends a run only while it is queued and unmarked.                 *)
LEMMA CancelStep ==
  ASSUME IInv, NEW r0 \in Runs, Cancel(r0)
  PROVE  IInv' /\ RowSteps
<1> DEFINE q == row[r0]
           n == CancelRequested(q)
           now == q.status = "queued" /\ ~q.pending
<1>1. TypeOK /\ q \in Row /\ RowInv(r0) /\ q.status \in {"queued", "running"}
  BY Unpack DEF Cancel
<1>2. Set(r0, n) /\ UNCHANGED <<wk, sinkOn, sink, inflight, faults>>
  BY DEF Cancel
<1>3. now => q.status = "queued" /\ ~q.pending
  OBVIOUS
<1>3a. ~now => q.status = "running" \/ q.pending
  BY <1>1
<1>3b. q = row[r0]
  OBVIOUS
<1> HIDE DEF q
<1>4. /\ n \in Row /\ n.pending = q.pending /\ n.backoff = q.backoff
      /\ n.attempt = q.attempt /\ n.result = q.result /\ n.placeholder = q.placeholder
      /\ now => /\ n.status = "canceled" /\ n.lease = NoLease /\ n.live = FALSE
                /\ q.callback = "none" => n.callback = "none"
                /\ q.callback # "none" => n.callback = "pending"
      /\ ~now => /\ n.status = q.status /\ n.lease = q.lease /\ n.live = q.live
                 /\ n.callback = q.callback
  BY <1>1, CancelRequestedFields
<1> HIDE DEF n, now
<1>5. ASSUME row'[r0] = n PROVE RowInv(r0)' /\ RowStep(r0)
  <2>1. CASE now
    <3>1. q.pending = FALSE /\ q.backoff = FALSE
      BY <1>1, <1>3, <1>3b, <2>1 DEF RowInv, QueuedInv, Row
    <3> QED
      BY <1>1, <1>2, <1>3, <1>3b, <1>4, <1>5, <2>1, <3>1, EndedRow DEF Terminal
  <2>2. CASE ~now
    <3>1. RowStep(r0)
      BY <1>1, <1>3b, <1>4, <1>5, <2>2 DEF RowStep, Terminal, Row
    <3>2. LeaseInv(r0)' /\ PendingInv(r0)' /\ QueuedInv(r0)'
      BY <1>1, <1>3a, <1>3b, <1>4, <1>5, <2>2 DEF RowInv, LeaseInv, PendingInv, QueuedInv
    <3>3. QuietInv(r0)' /\ SinkInv(r0)' /\ CallbackInv(r0)'
      BY <1>1, <1>2, <1>3b, <1>4, <1>5, <2>2
         DEF RowInv, QuietInv, SinkInv, CallbackInv, Terminal
    <3> QED
      BY <3>1, <3>2, <3>3 DEF RowInv
  <2> QED
    BY <2>1, <2>2
<1>6. faults' \in Nat
  BY <1>1, <1>2 DEF TypeOK
<1> QED
  BY <1>2, <1>3b, <1>4, <1>5, <1>6, RowOnlyStep

(* A lease or a back-off that runs out changes nothing else.               *)
LEMMA ClockStep ==
  ASSUME IInv, NEW r0 \in Runs, BackoffEnds(r0) \/ LeaseExpires(r0) \/ Stall(r0)
  PROVE  IInv' /\ RowSteps
<1> DEFINE q == row[r0]
<1>1. TypeOK /\ q \in Row /\ RowInv(r0)
  BY Unpack
<1>2. UNCHANGED <<wk, sinkOn, sink, inflight>>
  BY DEF BackoffEnds, LeaseExpires, Stall
<1>3. faults' \in Nat
  BY <1>1 DEF TypeOK, BackoffEnds, LeaseExpires, Stall
<1>4. CASE BackoffEnds(r0)
  <2> DEFINE n == [q EXCEPT !.backoff = FALSE]
  <2>1. Set(r0, n)
    BY <1>4 DEF BackoffEnds
  <2>2. /\ n \in Row /\ n.backoff = FALSE
        /\ n.status = q.status /\ n.lease = q.lease /\ n.cancel = q.cancel
        /\ n.pending = q.pending /\ n.live = q.live
        /\ n.attempt = q.attempt /\ n.result = q.result
        /\ n.placeholder = q.placeholder /\ n.callback = q.callback
    BY <1>1, ClockFields
  <2>3. row[r0].status = "queued"
    BY <1>1, <1>4 DEF BackoffEnds, RowInv, QueuedInv
  <2> HIDE DEF n
  <2>4. ASSUME row'[r0] = n PROVE RowInv(r0)' /\ RowStep(r0)
    BY <1>1, <1>2, <2>2, <2>3, <2>4
       DEF RowInv, RowStep, LeaseInv, PendingInv, QueuedInv, QuietInv, SinkInv,
           CallbackInv, Row, Terminal
  <2> QED
    BY <1>2, <1>3, <2>1, <2>2, <2>4, RowOnlyStep
<1>5. CASE LeaseExpires(r0) \/ Stall(r0)
  <2> DEFINE n == [q EXCEPT !.live = FALSE]
  <2>1. Set(r0, n) /\ row[r0].live
    BY <1>5 DEF LeaseExpires, Stall, Lapse
  <2>2. /\ n \in Row /\ n.live = FALSE
        /\ n.status = q.status /\ n.lease = q.lease /\ n.cancel = q.cancel
        /\ n.pending = q.pending /\ n.backoff = q.backoff
        /\ n.attempt = q.attempt /\ n.result = q.result
        /\ n.placeholder = q.placeholder /\ n.callback = q.callback
    BY <1>1, ClockFields
  <2>3. row[r0].status = "running"
    BY <1>1, <2>1 DEF RowInv, LeaseInv
  <2> HIDE DEF n
  <2>4. ASSUME row'[r0] = n PROVE RowInv(r0)' /\ RowStep(r0)
    BY <1>1, <1>2, <2>2, <2>3, <2>4
       DEF RowInv, RowStep, LeaseInv, PendingInv, QueuedInv, QuietInv, SinkInv,
           CallbackInv, Row, Terminal
  <2> QED
    BY <1>2, <1>3, <2>1, <2>2, <2>4, RowOnlyStep
<1> QED
  BY <1>4, <1>5

(* The two recovery statements keep the invariant in every row they        *)
(* change.                                                                 *)
LEMMA SweepStep ==
  ASSUME IInv, NEW w \in Workers, RecoverCanceled(w) \/ FailExhausted(w)
  PROVE  IInv' /\ RowSteps
<1>1. TypeOK
  BY Unpack
<1>2. UNCHANGED <<wk, sinkOn, sink, inflight, faults>>
  BY DEF RecoverCanceled, FailExhausted
<1>3. ASSUME NEW r \in Runs
      PROVE  /\ row'[r] \in Row /\ row'[r].result = row[r].result
             /\ RowInv(r)' /\ RowStep(r)
  <2> DEFINE q == row[r]
  <2>1. q \in Row /\ RowInv(r)
    BY Unpack
  <2>2. CASE row'[r] = q
    BY <1>2, <2>1, <2>2, SameRow
  <2>3. CASE Abandoned(q) /\ row'[r] = Canceled(q)
    <3>1. q.status = "running" /\ q.pending = FALSE /\ q.backoff = FALSE
      BY <2>1, <2>3 DEF Abandoned, RowInv, QueuedInv, Row
    <3> DEFINE n == Canceled(q)
    <3>2. /\ n \in Row /\ n.status = "canceled" /\ n.lease = NoLease /\ n.live = FALSE
          /\ n.pending = FALSE /\ n.backoff = q.backoff /\ n.attempt = q.attempt
          /\ n.result = q.result /\ n.placeholder = q.placeholder
          /\ q.callback = "none" => n.callback = "none"
          /\ q.callback # "none" => n.callback = "pending"
      BY <2>1, CanceledFields
    <3>3. row'[r] = n
      BY <2>3
    <3> HIDE DEF n
    <3> QED
      BY <1>2, <2>1, <3>1, <3>2, <3>3, EndedRow DEF Terminal
  <2>4. CASE Exhausted(q) /\ row'[r] = Finish(q, "failed")
    <3>1. q.status = "running" /\ q.result = NoResult
      BY <2>4 DEF Exhausted
    <3>1a. q.pending = FALSE /\ q.backoff = FALSE
      BY <2>1, <3>1 DEF RowInv, PendingInv, QueuedInv, Row
    <3> DEFINE n == Finish(q, "failed")
    <3>2. /\ n \in Row /\ n.status = "failed" /\ n.lease = NoLease /\ n.live = FALSE
          /\ n.pending = q.pending /\ n.backoff = q.backoff /\ n.attempt = q.attempt
          /\ n.result = q.result /\ n.placeholder = q.placeholder
          /\ q.callback = "none" => n.callback = "none"
          /\ q.callback # "none" => n.callback = "pending"
      BY <2>1, FinishFields DEF Terminal
    <3>3. row'[r] = n
      BY <2>4
    <3> HIDE DEF n
    <3> QED
      BY <1>2, <2>1, <3>1, <3>1a, <3>2, <3>3, EndedRow DEF Terminal
  <2> QED
    BY <2>2, <2>3, <2>4 DEF RecoverCanceled, FailExhausted
<1>4. row' = [r \in Runs |-> row'[r]]
  BY DEF RecoverCanceled, FailExhausted
<1>5. TypeOK'
  BY <1>1, <1>2, <1>3, <1>4 DEF TypeOK
<1> QED
  BY <1>2, <1>3, <1>5, NobodyMoves

-----------------------------------------------------------------------------
(***************************************************************************)
(* Every step, and the theorems.                                           *)
(***************************************************************************)

(* The empty ledger with idle workers satisfies the invariant.             *)
LEMMA InitIInv == Init => IInv
<1> SUFFICES ASSUME Init PROVE IInv
  OBVIOUS
<1>1. /\ NewRow \in Row /\ NewRow.status = "absent" /\ ~NewRow.pending /\ ~NewRow.cancel
      /\ ~NewRow.backoff /\ NewRow.attempt = 0 /\ NewRow.lease = NoLease /\ ~NewRow.live
      /\ NewRow.result = NoResult /\ ~NewRow.placeholder /\ NewRow.callback = "none"
  BY DEF NewRow, Row, Statuses, NoLease, NoResult
<1>2. Idle \in Worker /\ Idle.pc = "idle" /\ Idle.run = NoRun
  BY DEF Idle, Worker, PCs, NoLease, NoResult
<1>3. TypeOK
  BY <1>1, <1>2, LedgerAssumption DEF Init, TypeOK
<1> HIDE DEF NewRow, Idle
<1>4. \A r \in Runs : RowInv(r)
  BY <1>1 DEF Init, RowInv, LeaseInv, PendingInv, QueuedInv, QuietInv, SinkInv,
              CallbackInv, Terminal
<1>5. \A w \in Workers : WorkerInv(w)
  BY <1>2 DEF Init, WorkerInv, ClaimInv, ResultInv, WindowInv, CarriesStaged, Publication
<1>6. UniqueClaims /\ SinglePublisher
  BY <1>2 DEF Init, UniqueClaims, SinglePublisher
<1> QED
  BY <1>3, <1>4, <1>5, <1>6 DEF IInv

(* Every step of a worker keeps the invariant and the row discipline.      *)
LEMMA WorkerStep ==
  ASSUME IInv, NEW w \in Workers, WorkerNext(w)
  PROVE  IInv' /\ RowSteps
<1>1. CASE Poll(w)
  BY <1>1, SweepStep, LeaseNextStep DEF Poll
<1>2. CASE Heartbeat(w)
  BY <1>2, HeartbeatStep
<1>3. CASE Crash(w)
  BY <1>3, CrashStep
<1>4. CASE DecideCanceled(w) \/ FinishCancel(w)
  BY <1>4, MarkCanceledStep DEF DecideCanceled, FinishCancel, At
<1>5. CASE CompletePlaceholder(w) \/ FinishPublication(w)
  BY <1>5, CompletePublishedStep DEF CompletePlaceholder, FinishPublication, At
<1>6. CASE DecideLeaseLost(w)
  BY <1>6, ReturnActions DEF DecideLeaseLost
<1>7. CASE \/ UseStaged(w) \/ AfterRefusal(w) \/ BeginReconcile(w) \/ CheckCancellation(w)
           \/ PublishNoSink(w) \/ MergeReturns(w) \/ MergeFails(w)
           \/ ReadBack(w) \/ ReconcilePublication(w)
  BY <1>7, GotoActions
<1>8. CASE \/ Execute(w) \/ Fail(w) \/ FailOutcome(w) \/ StageOutcome(w)
           \/ MarkPublicationPending(w) \/ PublishMerge(w) \/ RetryVerification(w)
           \/ FailPublicationConflict(w)
  BY <1>8, ExecuteStep, FailStep, FailOutcomeStep, StageOutcomeStep,
     MarkPublicationPendingStep, PublishMergeStep, RetryVerificationStep,
     FailPublicationConflictStep
<1> QED
  BY <1>1, <1>2, <1>3, <1>4, <1>5, <1>6, <1>7, <1>8 DEF WorkerNext, ExecuteOne

(* Every step of the system keeps the invariant and the row discipline.    *)
LEMMA NextStep ==
  ASSUME IInv, [Next]_vars
  PROVE  IInv' /\ RowSteps
<1>1. ASSUME NEW w \in Workers, WorkerNext(w) PROVE IInv' /\ RowSteps
  BY <1>1, WorkerStep
<1>2. ASSUME NEW r \in Runs, RunNext(r) PROVE IInv' /\ RowSteps
  BY <1>2, CreateRunStep, CancelStep, TableStep, ClockStep DEF RunNext
<1>3. CASE UNCHANGED vars
  <2>1. TypeOK' /\ wk' = wk
    BY <1>3, Unpack DEF vars, TypeOK
  <2>2. \A r \in Runs : RowInv(r)' /\ RowStep(r)
    BY <1>3, SameRow DEF vars
  <2> QED
    BY <1>3, <2>1, <2>2, NobodyMoves DEF vars
<1> QED
  BY <1>1, <1>2, <1>3 DEF Next

(* The inductive invariant holds.                                          *)
THEOREM Invariance == Spec => []IInv
<1>1. IInv /\ [Next]_vars => IInv'
  BY NextStep
<1> QED
  BY InitIInv, <1>1, PTL DEF Spec

(* The columns of the ledger, the workers' locals and the table always     *)
(* hold values of their types.                                             *)
THEOREM TypeCorrect == Spec => []TypeOK
<1>1. IInv => TypeOK
  BY DEF IInv
<1> QED
  BY Invariance, <1>1, PTL

(* Nothing of a canceled run is, or will ever be, in the table, whatever   *)
(* the workers that once held it still do.                                 *)
THEOREM CancellationSafe == Spec => []CanceledNeverPublished
<1>1. IInv => CanceledNeverPublished
  <2> SUFFICES ASSUME IInv, NEW r \in Runs, row[r].status = "canceled"
               PROVE  /\ sink[r] \subseteq {Foreign} /\ inflight[r] = {}
                      /\ \A w \in Workers : wk[w].run = r => wk[w].pc \notin Publication
    BY DEF CanceledNeverPublished
  <2>1. ~row[r].pending
    BY Unpack DEF RowInv, PendingInv
  <2>2. \A w \in Workers : wk[w].run = r => wk[w].pc \notin Publication
    BY <2>1, Unpack DEF WorkerInv, WindowInv
  <2> QED
    BY <2>1, <2>2, Unmarked
<1> QED
  BY Invariance, <1>1, PTL

(* Only the staged result of a run reaches the table, or ever will.        *)
THEOREM OnlyStagedPublished == Spec => []PublishedIsStaged
<1>1. IInv => PublishedIsStaged
  BY DEF IInv, RowInv, SinkInv, PublishedIsStaged
<1> QED
  BY Invariance, <1>1, PTL

(* A completed run that names a table row names one that holds exactly the *)
(* result of the ledger.                                                   *)
THEOREM PublicationCorrect == Spec => []CompletedMatchesSink
<1>1. IInv => CompletedMatchesSink
  BY DEF IInv, RowInv, SinkInv, CompletedMatchesSink
<1> QED
  BY Invariance, <1>1, PTL

(* At most one worker sends the MERGE of a run at a time.                  *)
THEOREM OnePublisher == Spec => []SinglePublisher
<1>1. IInv => SinglePublisher
  BY DEF IInv
<1> QED
  BY Invariance, <1>1, PTL

(* The WHERE clauses of LeaseNext, RecoverCanceled and FailExhausted leave *)
(* no run behind.                                                          *)
THEOREM NobodyStranded == Spec => []NoStrandedRun
<1>1. IInv => NoStrandedRun
  <2> SUFFICES ASSUME IInv, NEW r \in Runs, row[r].status \in {"queued", "running"},
                      ~row[r].live, ~row[r].backoff
               PROVE  Leasable(row[r]) \/ Abandoned(row[r]) \/ Exhausted(row[r])
    BY DEF NoStrandedRun
  <2>1. row[r] \in Row /\ RowInv(r)
    BY Unpack
  <2>2. row[r].attempt \in Nat /\ MaxAttempts \in Nat /\ MaxAttempts # 0
    BY <2>1, LedgerAssumption DEF Row
  <2>3. CASE row[r].status = "queued"
    BY <2>1, <2>2, <2>3 DEF RowInv, PendingInv, QueuedInv, Leasable
  <2>4. CASE row[r].status = "running"
    BY <2>1, <2>2, <2>4 DEF RowInv, PendingInv, Leasable, Abandoned, Exhausted
  <2> QED
    BY <2>3, <2>4
<1> QED
  BY Invariance, <1>1, PTL

(* No check is started beyond maxAttempts claims.                          *)
THEOREM BoundedExecutions == Spec => []ExecutionsBounded
<1>1. IInv => ExecutionsBounded
  BY DEF IInv, WorkerInv, ResultInv, ExecutionsBounded
<1> QED
  BY Invariance, <1>1, PTL

(* The callback outbox is armed exactly by the end of its run.             *)
THEOREM OutboxFollowsStatus == Spec => []OutboxArmed
<1>1. IInv => OutboxArmed
  BY DEF IInv, RowInv, CallbackInv, OutboxArmed
<1> QED
  BY Invariance, <1>1, PTL

(* No step changes a row once it is terminal.                              *)
THEOREM TerminalForGood == Spec => TerminalImmutable
<1>1. IInv /\ [Next]_vars =>
        \A r \in Runs : row[r].status \in Terminal => row'[r] = row[r]
  BY NextStep DEF RowSteps, RowStep
<1> QED
  BY Invariance, <1>1, PTL DEF Spec, TerminalImmutable

(* No step replaces a staged result.                                       *)
THEOREM StagedForGood == Spec => ResultWrittenOnce
<1>1. IInv /\ [Next]_vars =>
        \A r \in Runs : row[r].result # NoResult =>
          /\ row'[r].result = row[r].result
          /\ row'[r].placeholder = row[r].placeholder
  BY NextStep DEF RowSteps, RowStep
<1> QED
  BY Invariance, <1>1, PTL DEF Spec, ResultWrittenOnce

(* No step overrules a cancellation accepted before the mark, nor a mark   *)
(* that was set first.                                                     *)
THEOREM CutoffRespected == Spec => CancellationCutoff
<1>1. IInv /\ [Next]_vars =>
        \A r \in Runs :
          /\ row[r].cancel /\ ~row[r].pending =>
               /\ ~row'[r].pending
               /\ row[r].status = "running" /\ row'[r].status = "completed" =>
                    row'[r].placeholder
          /\ row[r].pending /\ ~row'[r].pending =>
               row'[r].status \in {"completed", "failed"}
  BY NextStep DEF RowSteps, RowStep
<1> QED
  BY Invariance, <1>1, PTL DEF Spec, CancellationCutoff

-----------------------------------------------------------------------------
(***************************************************************************)
(* RunLedger implements RunLifecycle: every step of the ledger, the workers*)
(* and the table is a step of the lifecycle that a caller is promised, or  *)
(* leaves what the caller sees as it is.                                   *)
(***************************************************************************)

(* What a caller sees of one run.                                          *)
Published(r) == sink[r] \ {Foreign} # {}
Answer(r) ==
  IF row[r].status # "completed" THEN "none"
  ELSE IF row[r].placeholder THEN "placeholder" ELSE "row"

(* A step of the lifecycle, or none.                                       *)
LifecycleStep == [Lifecycle!Next]_(Lifecycle!vars)

(* A step after which a caller sees every run as before.                   *)
LEMMA NothingSeen ==
  ASSUME \A r \in Runs : /\ row'[r].status = row[r].status
                         /\ Published(r)' = Published(r)
                         /\ Answer(r)' = Answer(r)
  PROVE  LifecycleStep
<1>1. [r \in Runs |-> row[r].status]' = [r \in Runs |-> row[r].status]
  OBVIOUS
<1>2. [r \in Runs |-> sink[r] \ {Foreign} # {}]' = [r \in Runs |-> sink[r] \ {Foreign} # {}]
  BY DEF Published
<1>3. [r \in Runs |-> IF row[r].status # "completed" THEN "none"
                      ELSE IF row[r].placeholder THEN "placeholder" ELSE "row"]'
      = [r \in Runs |-> IF row[r].status # "completed" THEN "none"
                        ELSE IF row[r].placeholder THEN "placeholder" ELSE "row"]
  BY DEF Answer
<1> QED
  BY <1>1, <1>2, <1>3 DEF LifecycleStep, Lifecycle!vars

(* A step that leaves the rows and the table alone.                        *)
LEMMA Unseen ==
  ASSUME UNCHANGED <<row, sink>>
  PROVE  LifecycleStep
  BY NothingSeen DEF Published, Answer

(* What the invariant says, after a step, of a run that is over.           *)
LEMMA EndsSeen ==
  ASSUME IInv', NEW r \in Runs
  PROVE  /\ row'[r].status = "canceled" => ~Published(r)'
         /\ row'[r].status = "completed" =>
              Answer(r)' \in {"row", "placeholder"} /\ (Answer(r)' = "row" <=> Published(r)')
<1>1. PendingInv(r)' /\ QuietInv(r)' /\ SinkInv(r)'
  BY DEF IInv, RowInv
<1>2. row'[r].status = "canceled" => ~Published(r)'
  BY <1>1 DEF PendingInv, QuietInv, Published
<1>3. row'[r].status = "completed" /\ row'[r].placeholder =>
        ~Published(r)' /\ Answer(r)' = "placeholder"
  BY <1>1 DEF QuietInv, Published, Answer
<1>4. row'[r].status = "completed" /\ ~row'[r].placeholder => Published(r)' /\ Answer(r)' = "row"
  BY <1>1 DEF SinkInv, Published, Answer, NoResult, Foreign
<1> QED
  BY <1>2, <1>3, <1>4

(* The transitions of a run's status.                                      *)
Transition(from, to) ==
  \/ from = to
  \/ from = "absent" /\ to = "queued"
  \/ from = "queued" /\ to \in {"running", "canceled"}
  \/ from = "running" /\ to \in {"queued", "completed", "failed", "canceled"}

(* A statement that writes one row is a step of the lifecycle when the     *)
(* status it leaves is a possible one: the rest follows from the invariant *)
(* before and after it.                                                    *)
LEMMA OneRowSeen ==
  ASSUME IInv, IInv', RowSteps, NEW r0 \in Runs, sink' = sink,
         \A r \in Runs \ {r0} : row'[r] = row[r],
         Transition(row[r0].status, row'[r0].status)
  PROVE  LifecycleStep
<1> DEFINE status == [r \in Runs |-> row[r].status]
           published == [r \in Runs |-> sink[r] \ {Foreign} # {}]
           answer == [r \in Runs |->
             IF row[r].status # "completed" THEN "none"
             ELSE IF row[r].placeholder THEN "placeholder" ELSE "row"]
           to == row'[r0].status
<1>1. /\ status' = [status EXCEPT ![r0] = to]
      /\ published' = published
  OBVIOUS
<1>2. row[r0].status # "completed" /\ to # "completed" => answer' = answer
  OBVIOUS
<1>3. row[r0].status # "completed" /\ to = "completed" =>
        /\ answer' = [answer EXCEPT ![r0] = Answer(r0)']
        /\ Answer(r0)' \in {"row", "placeholder"}
        /\ Answer(r0)' = "row" <=> published[r0]
  <2>1. row[r0].status # "completed" /\ to = "completed" =>
          answer' = [answer EXCEPT ![r0] = Answer(r0)']
    BY DEF Answer
  <2>2. published[r0] = Published(r0)'
    BY DEF Published
  <2> QED
    BY <2>1, <2>2, EndsSeen
<1>4. CASE row[r0].status = to
  <2>1. row[r0].status = "completed" => row'[r0] = row[r0]
    BY DEF RowSteps, RowStep, Terminal
  <2> QED
    BY <1>4, <2>1, NothingSeen DEF Published, Answer
<1>5. CASE row[r0].status = "absent" /\ to = "queued"
  <2>1. Lifecycle!Submit(r0)
    BY <1>1, <1>2, <1>5 DEF Lifecycle!Submit, Lifecycle!Move
  <2> QED
    BY <2>1 DEF LifecycleStep, Lifecycle!Next
<1>6. CASE row[r0].status = "queued" /\ to = "running"
  <2>1. Lifecycle!Start(r0)
    BY <1>1, <1>2, <1>6 DEF Lifecycle!Start, Lifecycle!Move
  <2> QED
    BY <2>1 DEF LifecycleStep, Lifecycle!Next
<1>7. CASE row[r0].status = "running" /\ to = "queued"
  <2>1. Lifecycle!Requeue(r0)
    BY <1>1, <1>2, <1>7 DEF Lifecycle!Requeue, Lifecycle!Move
  <2> QED
    BY <2>1 DEF LifecycleStep, Lifecycle!Next
<1>8. CASE row[r0].status = "running" /\ to = "completed"
  <2>1. Lifecycle!Complete(r0)
    BY <1>1, <1>3, <1>8 DEF Lifecycle!Complete, Lifecycle!Move
  <2> QED
    BY <2>1 DEF LifecycleStep, Lifecycle!Next
<1>9. status' = [r \in Runs |-> IF r \in {r0} THEN to ELSE status[r]]
  BY <1>1
<1>10. CASE row[r0].status = "running" /\ to = "failed"
  <2>1. Lifecycle!Fail({r0})
    BY <1>1, <1>2, <1>9, <1>10 DEF Lifecycle!Fail, Lifecycle!Drop
  <2> QED
    BY <2>1 DEF LifecycleStep, Lifecycle!Next
<1>11. CASE row[r0].status \in {"queued", "running"} /\ to = "canceled"
  <2>1. ~published[r0]
    BY <1>11, EndsSeen DEF Published
  <2>2. Lifecycle!Cancel({r0})
    BY <1>1, <1>2, <1>9, <1>11, <2>1 DEF Lifecycle!Cancel, Lifecycle!Drop
  <2> QED
    BY <2>2 DEF LifecycleStep, Lifecycle!Next
<1> QED
  BY <1>4, <1>5, <1>6, <1>7, <1>8, <1>10, <1>11 DEF Transition

(* A statement that rewrites one row keeps the others.                     *)
LEMMA SetSeen ==
  ASSUME IInv, IInv', RowSteps, NEW r0 \in Runs, NEW q, Set(r0, q), sink' = sink,
         Transition(row[r0].status, q.status)
  PROVE  LifecycleStep
<1>1. row'[r0] = q /\ \A r \in Runs \ {r0} : row'[r] = row[r]
  BY Unpack DEF TypeOK, Set
<1> QED
  BY <1>1, OneRowSeen

(* A fenced statement writes a running row, or none.                       *)
LEMMA FencedSeen ==
  ASSUME IInv, IInv', RowSteps, NEW w \in Workers, wk[w].pc # "idle",
         NEW can, NEW q, FencedReturn(w, can, q),
         can => Holds(w) /\ q.status \in {"queued", "completed", "failed", "canceled"}
  PROVE  LifecycleStep
<1>1. PICK r0 \in Runs : wk[w].run = r0
  BY Unpack DEF WorkerInv, ClaimInv
<1>2. sink' = sink
  BY DEF FencedReturn
<1>3. CASE ~can
  BY <1>2, <1>3, Unseen DEF FencedReturn
<1>4. CASE can
  <2>1. Set(r0, q)
    BY <1>1, <1>4 DEF FencedReturn
  <2>2. Transition(row[r0].status, q.status)
    BY <1>1, <1>4 DEF Holds, Transition
  <2> QED
    BY <1>2, <2>1, <2>2, SetSeen
<1> QED
  BY <1>3, <1>4

-----------------------------------------------------------------------------
(***************************************************************************)
(* The actions.                                                            *)
(***************************************************************************)

(* The fenced statements with which executeOne ends.                       *)
LEMMA EndingSeen ==
  ASSUME IInv, IInv', RowSteps, NEW w \in Workers,
         \/ DecideCanceled(w) \/ FinishCancel(w) \/ Fail(w) \/ FailOutcome(w)
         \/ CompletePlaceholder(w) \/ FinishPublication(w)
         \/ RetryVerification(w) \/ FailPublicationConflict(w)
  PROVE  LifecycleStep
<1> DEFINE q == row[wk[w].run]
<1>1. wk[w].pc # "idle"
  BY DEF DecideCanceled, FinishCancel, Fail, FailOutcome, CompletePlaceholder,
         FinishPublication, RetryVerification, FailPublicationConflict, Decide, At
<1>2. wk[w].run \in Runs /\ q \in Row /\ wk[w] \in Worker
  BY <1>1, Unpack DEF WorkerInv, ClaimInv
<1>3. Owns(w) => Holds(w)
  BY DEF Owns
<1>4. CASE DecideCanceled(w) \/ FinishCancel(w)
  <2>1. FencedReturn(w, Holds(w) /\ q.cancel /\ ~q.pending, Canceled(q))
    BY <1>4 DEF DecideCanceled, FinishCancel, MarkCanceled
  <2>2. Canceled(q).status = "canceled"
    BY <1>2, CanceledFields
  <2> QED
    BY <1>1, <2>1, <2>2, FencedSeen
<1>5. CASE Fail(w)
  <2>1. FencedReturn(w, Owns(w), Finish(q, "failed"))
    BY <1>5 DEF Fail
  <2>2. Finish(q, "failed").status = "failed"
    BY <1>2, FinishFields DEF Terminal
  <2> QED
    BY <1>1, <1>3, <2>1, <2>2, FencedSeen
<1>6. CASE FailOutcome(w)
  <2> DEFINE n == Finish(Staged(q, wk[w].result, wk[w].placeholder), "failed")
  <2>1. FencedReturn(w, Owns(w) /\ ~q.cancel, n)
    BY <1>6 DEF FailOutcome
  <2>2. n.status = "failed"
    BY <1>2, StagedFields, FinishFields DEF Terminal
  <2> QED
    BY <1>1, <1>3, <2>1, <2>2, FencedSeen
<1>7. CASE CompletePlaceholder(w) \/ FinishPublication(w)
  <2> DEFINE n == Completed(q, wk[w].result, wk[w].placeholder)
  <2>1. FencedReturn(w, Owns(w), n)
    BY <1>7 DEF CompletePlaceholder, FinishPublication, CompletePublished
  <2>2. n.status = "completed"
    BY <1>2, CompletedFields
  <2> QED
    BY <1>1, <1>3, <2>1, <2>2, FencedSeen
<1>8. CASE RetryVerification(w)
  <2>1. FencedReturn(w, Owns(w) /\ q.pending, VerificationRetried(q))
    BY <1>8 DEF RetryVerification
  <2>2. VerificationRetried(q).status \in {"failed", "queued"}
    BY <1>2, VerificationRetriedFields
  <2> QED
    BY <1>1, <1>3, <2>1, <2>2, FencedSeen
<1>9. CASE FailPublicationConflict(w)
  <2>1. FencedReturn(w, Owns(w), Conflicted(q))
    BY <1>9 DEF FailPublicationConflict
  <2>2. Conflicted(q).status = "failed"
    BY <1>2, ConflictedFields
  <2> QED
    BY <1>1, <1>3, <2>1, <2>2, FencedSeen
<1> QED
  BY <1>4, <1>5, <1>6, <1>7, <1>8, <1>9

(* Staging and marking write columns that a caller does not see.           *)
LEMMA StagingSeen ==
  ASSUME IInv, IInv', RowSteps, NEW w \in Workers,
         StageOutcome(w) \/ MarkPublicationPending(w)
  PROVE  LifecycleStep
<1> DEFINE r == wk[w].run
<1>1. r \in Runs /\ row[r] \in Row /\ wk[w] \in Worker
  BY Unpack DEF StageOutcome, MarkPublicationPending, Decide, At, WorkerInv, ClaimInv
<1>2. sink' = sink
  BY DEF StageOutcome, MarkPublicationPending
<1>3. CASE row' = row
  BY <1>2, <1>3, Unseen
<1>4. CASE Set(r, Staged(row[r], wk[w].result, wk[w].placeholder))
  <2>1. Staged(row[r], wk[w].result, wk[w].placeholder).status = row[r].status
    BY <1>1, StagedFields
  <2> QED
    BY <1>1, <1>2, <1>4, <2>1, SetSeen DEF Transition
<1>5. CASE Set(r, Marked(row[r]))
  <2>1. Marked(row[r]).status = row[r].status
    BY <1>1, MarkedFields
  <2> QED
    BY <1>1, <1>2, <1>5, <2>1, SetSeen DEF Transition
<1> QED
  BY <1>3, <1>4, <1>5 DEF StageOutcome, MarkPublicationPending

(* The other steps of a worker touch neither the rows nor the table.       *)
LEMMA LocalSeen ==
  ASSUME NEW w \in Workers,
         \/ Execute(w) \/ DecideLeaseLost(w) \/ UseStaged(w) \/ AfterRefusal(w)
         \/ BeginReconcile(w) \/ CheckCancellation(w) \/ PublishNoSink(w)
         \/ PublishMerge(w) \/ MergeReturns(w) \/ MergeFails(w) \/ ReadBack(w)
         \/ ReconcilePublication(w) \/ Heartbeat(w) \/ Crash(w)
  PROVE  LifecycleStep
<1>1. UNCHANGED <<row, sink>>
  BY DEF Execute, DecideLeaseLost, UseStaged, AfterRefusal, BeginReconcile,
         CheckCancellation, PublishNoSink, PublishMerge, MergeReturns, MergeFails,
         ReadBack, ReconcilePublication, Heartbeat, Crash, Goto, Return
<1> QED
  BY <1>1, Unseen

(* A claim starts a queued run, or takes over a running one.               *)
LEMMA ClaimSeen ==
  ASSUME IInv, IInv', RowSteps, NEW w \in Workers, NEW r \in Runs, LeaseNext(w, r)
  PROVE  LifecycleStep
<1>1. Leased(row[r]).status = "running"
  BY Unpack, LeasedFields
<1>2. Transition(row[r].status, Leased(row[r]).status)
  BY <1>1 DEF LeaseNext, Leasable, Transition
<1> QED
  BY <1>2, SetSeen DEF LeaseNext

(* A sweep over the table cancels or fails the runs its WHERE clause       *)
(* selects, in one step.                                                   *)
LEMMA SweepSeen ==
  ASSUME IInv, IInv', NEW w \in Workers, RecoverCanceled(w) \/ FailExhausted(w)
  PROVE  LifecycleStep
<1> DEFINE status == [r \in Runs |-> row[r].status]
           published == [r \in Runs |-> sink[r] \ {Foreign} # {}]
           answer == [r \in Runs |->
             IF row[r].status # "completed" THEN "none"
             ELSE IF row[r].placeholder THEN "placeholder" ELSE "row"]
<1>1. sink' = sink
  BY DEF RecoverCanceled, FailExhausted
<1>2. published' = published
  BY <1>1
<1>3. CASE RecoverCanceled(w)
  <2>0. PICK S \in SUBSET Runs : S = {r \in Runs : Abandoned(row[r])}
    OBVIOUS
  <2>1. S # {} /\ \A r \in S : row[r].status = "running"
    BY <1>3, <2>0 DEF RecoverCanceled, Abandoned
  <2>2. \A r \in Runs : IF r \in S THEN row'[r].status = "canceled" ELSE row'[r] = row[r]
    BY <1>3, <2>0, Unpack, CanceledFields DEF RecoverCanceled
  <2>3. \A r \in S : ~(sink[r] \ {Foreign} # {})
    BY <1>1, <2>1, <2>2, EndsSeen DEF Published
  <2>4. status' = [r \in Runs |-> IF r \in S THEN "canceled" ELSE status[r]]
    BY <2>2
  <2>5. answer' = answer
    BY <2>1, <2>2
  <2>6. Lifecycle!Cancel(S)
    BY <1>2, <2>1, <2>3, <2>4, <2>5 DEF Lifecycle!Cancel, Lifecycle!Drop
  <2> QED
    BY <2>6 DEF LifecycleStep, Lifecycle!Next
<1>4. CASE FailExhausted(w)
  <2>0. PICK S \in SUBSET Runs : S = {r \in Runs : Exhausted(row[r])}
    OBVIOUS
  <2>1. S # {} /\ \A r \in S : row[r].status = "running"
    BY <1>4, <2>0 DEF FailExhausted, Exhausted
  <2>2. \A r \in Runs : IF r \in S THEN row'[r].status = "failed" ELSE row'[r] = row[r]
    BY <1>4, <2>0, Unpack, FinishFields DEF FailExhausted, Terminal
  <2>4. status' = [r \in Runs |-> IF r \in S THEN "failed" ELSE status[r]]
    BY <2>2
  <2>5. answer' = answer
    BY <2>1, <2>2
  <2>6. Lifecycle!Fail(S)
    BY <1>2, <2>1, <2>4, <2>5 DEF Lifecycle!Fail, Lifecycle!Drop
  <2> QED
    BY <2>6 DEF LifecycleStep, Lifecycle!Next
<1> QED
  BY <1>3, <1>4

(* Submission, cancellation and the clock write one row each.              *)
LEMMA RowSeen ==
  ASSUME IInv, IInv', RowSteps, NEW r \in Runs,
         CreateRun(r) \/ Cancel(r) \/ BackoffEnds(r) \/ LeaseExpires(r) \/ Stall(r)
  PROVE  LifecycleStep
<1>1. row[r] \in Row
  BY Unpack
<1>2. CASE CreateRun(r)
  <2>1. Queued(r).status = "queued"
    BY QueuedFields
  <2> QED
    BY <1>2, <2>1, SetSeen DEF CreateRun, Transition
<1>3. CASE Cancel(r)
  <2>1. Transition(row[r].status, CancelRequested(row[r]).status)
    BY <1>1, <1>3, CancelRequestedFields DEF Cancel, Transition
  <2> QED
    BY <1>3, <2>1, SetSeen DEF Cancel
<1>4. CASE BackoffEnds(r)
  <2>1. [row[r] EXCEPT !.backoff = FALSE].status = row[r].status
    BY <1>1, ClockFields
  <2> QED
    BY <1>4, <2>1, SetSeen DEF BackoffEnds, Transition
<1>5. CASE LeaseExpires(r) \/ Stall(r)
  <2>1. [row[r] EXCEPT !.live = FALSE].status = row[r].status
    BY <1>1, ClockFields
  <2> QED
    BY <1>5, <2>1, SetSeen DEF LeaseExpires, Stall, Lapse, Transition
<1> QED
  BY <1>2, <1>3, <1>4, <1>5

(* A MERGE that takes effect publishes a run that is not over, or that     *)
(* failed while the MERGE was under way: never a canceled or completed one.*)
LEMMA MergeSeen ==
  ASSUME IInv, NEW r0 \in Runs, MergeApplies(r0)
  PROVE  LifecycleStep
<1> DEFINE published == [r \in Runs |-> sink[r] \ {Foreign} # {}]
<1>1. PICK p \in inflight[r0] : sink' = [sink EXCEPT ![r0] = IF @ = {} THEN {p} ELSE @]
  BY DEF MergeApplies
<1>2. row' = row
  BY DEF MergeApplies
<1>3. /\ sink'[r0] = IF sink[r0] = {} THEN {p} ELSE sink[r0]
      /\ \A r \in Runs \ {r0} : sink'[r] = sink[r]
  BY <1>1, Unpack DEF TypeOK
<1>4. CASE sink[r0] # {} \/ p = Foreign
  <2>1. \A r \in Runs : Published(r)' = Published(r)
    BY <1>3, <1>4 DEF Published
  <2> QED
    BY <1>2, <2>1, NothingSeen DEF Answer
<1>5. CASE sink[r0] = {} /\ p # Foreign
  <2>1. PendingInv(r0) /\ QuietInv(r0) /\ SinkInv(r0) /\ row[r0] \in Row
    BY Unpack DEF RowInv
  <2>2. ~row[r0].placeholder
    BY <1>1, <2>1 DEF QuietInv
  <2>3. row[r0].status \in {"queued", "running", "failed"}
    BY <1>1, <1>5, <2>1, <2>2 DEF QuietInv, PendingInv, SinkInv
  <2>4. published' = [published EXCEPT ![r0] = TRUE]
    BY <1>3, <1>5
  <2>5. Lifecycle!Publish(r0)
    BY <1>2, <2>3, <2>4 DEF Lifecycle!Publish
  <2> QED
    BY <2>5 DEF LifecycleStep, Lifecycle!Next
<1> QED
  BY <1>4, <1>5

(* A lost MERGE, and a row that somebody else wrote, are not seen.         *)
LEMMA TableSeen ==
  ASSUME IInv, NEW r0 \in Runs, MergeLost(r0) \/ ForeignWrite(r0)
  PROVE  LifecycleStep
<1>1. CASE MergeLost(r0)
  BY <1>1, Unseen DEF MergeLost
<1>2. CASE ForeignWrite(r0)
  <2>1. /\ row' = row
        /\ sink[r0] = {} /\ sink'[r0] = {Foreign}
        /\ \A r \in Runs \ {r0} : sink'[r] = sink[r]
    BY <1>2, Unpack DEF ForeignWrite, TypeOK
  <2>2. \A r \in Runs : Published(r)' = Published(r)
    BY <2>1 DEF Published
  <2> QED
    BY <2>1, <2>2, NothingSeen DEF Answer
<1> QED
  BY <1>1, <1>2

-----------------------------------------------------------------------------
(* The empty ledger is where the lifecycle starts.                         *)
LEMMA InitSeen == Init => Lifecycle!Init
<1> SUFFICES ASSUME Init PROVE Lifecycle!Init
  OBVIOUS
<1>1. NewRow.status = "absent"
  BY DEF NewRow
<1>2. \A r \in Runs : row[r].status = "absent" /\ sink[r] = {}
  BY <1>1 DEF Init
<1> QED
  BY <1>2 DEF Lifecycle!Init

(* Every step of the ledger is a step of the lifecycle.                    *)
LEMMA StepSeen ==
  ASSUME IInv, [Next]_vars
  PROVE  LifecycleStep
<1>1. IInv' /\ RowSteps
  BY NextStep
<1>2. ASSUME NEW w \in Workers, WorkerNext(w) PROVE LifecycleStep
  <2>1. CASE Poll(w)
    BY <1>1, <2>1, SweepSeen, ClaimSeen DEF Poll
  <2>2. CASE Heartbeat(w) \/ Crash(w)
    BY <2>2, LocalSeen
  <2>3. CASE ExecuteOne(w)
    BY <1>1, <2>3, EndingSeen, StagingSeen, LocalSeen DEF ExecuteOne
  <2> QED
    BY <1>2, <2>1, <2>2, <2>3 DEF WorkerNext
<1>3. ASSUME NEW r \in Runs, RunNext(r) PROVE LifecycleStep
  BY <1>1, <1>3, RowSeen, MergeSeen, TableSeen DEF RunNext
<1>4. CASE UNCHANGED vars
  BY <1>4, Unseen DEF vars
<1> QED
  BY <1>2, <1>3, <1>4 DEF Next

(* The ledger, the workers and the table implement the lifecycle that is   *)
(* promised to a caller, whatever crashes, stalls and late MERGEs happen.  *)
THEOREM LifecycleImplemented == Spec => ImplementsLifecycle
<1>1. Init => Lifecycle!Init
  BY InitSeen
<1>2. IInv /\ [Next]_vars => [Lifecycle!Next]_(Lifecycle!vars)
  BY StepSeen DEF LifecycleStep
<1> QED
  BY Invariance, <1>1, <1>2, PTL DEF Spec, ImplementsLifecycle, Lifecycle!Spec
=============================================================================
