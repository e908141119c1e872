--------------------------- MODULE CallbackOutbox ---------------------------
(***************************************************************************)
(* The terminal callback outbox: the callback columns of the ledger        *)
(* (api/lifecycle_store.go) and the dispatchers that deliver one wakeup    *)
(* per run to the orchestration API (api/callback.go).                     *)
(*                                                                         *)
(* RunLedger shows that a run with callback headers is armed by the very   *)
(* statement that ends it (OutboxArmed); here that statement is RunEnds.   *)
(*                                                                         *)
(* Abstractions.  A lease token is random; because a dispatcher works on   *)
(* one delivery at a time and the fence names the run as well, the         *)
(* dispatcher that drew it is a name for it.  callback_attempt is counted  *)
(* up to the length of the retry schedule, beyond which the code does not  *)
(* look at it.  Time is whether callback_next_at has come and whether a    *)
(* lease still runs; jitter and Retry-After only move callback_next_at.    *)
(***************************************************************************)
EXTENDS Naturals

CONSTANTS
  Runs,          \* runs submitted with callback headers
  NoRun,         \* what an idle dispatcher works on
  Dispatchers,   \* dispatcher goroutines, one per API process
  NoDispatcher,  \* callback_lease_token IS NULL
  HttpStatuses,  \* what the orchestration API may answer
  TokenConfigs,  \* is CAPABILITY_CALLBACK_TOKEN set?  One choice per process
  ScheduleLength,  \* delays in the schedule of callbackRetryDelay
  MaxMishaps     \* bound: crashes, stalls and lost answers in a behaviour

ASSUME OutboxAssumption ==
  /\ NoRun \notin Runs
  /\ NoDispatcher \notin Dispatchers
  /\ HttpStatuses \subseteq 100..599
  /\ TokenConfigs \subseteq BOOLEAN /\ TokenConfigs # {}
  /\ ScheduleLength \in Nat \ {0}
  /\ MaxMishaps \in Nat

VARIABLES
  box,       \* the status and the callback columns of each run
  disp,      \* the local state of each dispatcher
  hasToken,  \* has the dispatcher's process a callback token?
  accepts,   \* how often the orchestration API accepted the run's wakeup
  mishaps    \* crashes, stalls and lost answers so far

vars == <<box, disp, hasToken, accepts, mishaps>>

-----------------------------------------------------------------------------
States == {"waiting", "pending", "delivering", "retry", "delivered",
           "configuration_failed"}

(* The dispatcher does not come back to these.                             *)
Settled == {"delivered", "configuration_failed"}

Box == [
  ended : BOOLEAN,                   \* status is terminal
  state : States,                    \* callback_state
  attempt : 0..ScheduleLength,       \* callback_attempt, capped
  delay : 0..ScheduleLength,         \* schedule entry behind callback_next_at
  due : BOOLEAN,                     \* callback_next_at <= now()
  token : Dispatchers \cup {NoDispatcher},  \* callback_lease_token
  live : BOOLEAN]                    \* callback_lease_expires_at > now()

PCs == {"idle", "claimed", "posted", "accepted", "failed", "refused"}

Dispatcher == [
  pc : PCs,
  run : Runs \cup {NoRun},
  attempt : 0..ScheduleLength]       \* delivery.Attempt

NewBox == [ended |-> FALSE, state |-> "waiting", attempt |-> 0, delay |-> 0,
           due |-> TRUE, token |-> NoDispatcher, live |-> FALSE]

Idle == [pc |-> "idle", run |-> NoRun, attempt |-> 0]

Init ==
  /\ box = [r \in Runs |-> NewBox]
  /\ disp = [d \in Dispatchers |-> Idle]
  /\ hasToken \in [Dispatchers -> TokenConfigs]
  /\ accepts = [r \in Runs |-> 0]
  /\ mishaps = 0

-----------------------------------------------------------------------------
(* The attempts that have an entry of their own in the schedule.           *)
Capped(n) == IF n < ScheduleLength THEN n ELSE ScheduleLength

(* Mistake: an event whose dispatcher died while delivering is left alone. *)
Claimable_NotDelivering(q) ==
  q.ended /\ q.state \in {"pending", "retry"} /\ q.due /\ ~q.live

Claimable(q) ==
  /\ q.ended
  /\ q.state \in {"pending", "retry", "delivering"}
  /\ q.due
  /\ ~q.live

Claimed(q, d) == [q EXCEPT !.state = "delivering", !.token = d, !.live = TRUE]

(* One more recorded attempt; the lease is given back.                     *)
Recorded(q, s) ==
  [q EXCEPT !.state = s, !.attempt = Capped(q.attempt + 1),
            !.token = NoDispatcher, !.live = FALSE]

(* Mistake: the delay is one entry of the schedule ahead.                  *)
Postponed_Ahead(q, n) ==
  [Recorded(q, "retry") EXCEPT !.due = FALSE, !.delay = Capped(n + 1)]

Postponed(q, n) == [Recorded(q, "retry") EXCEPT !.due = FALSE, !.delay = Capped(n)]

(* Mistake: every answer below 500 counts as success.                      *)
Accepted_NoError(s) == s < 500

Accepted(s) == s = 202

retryableCallbackStatus(s) == s \in {408, 425, 429, 500, 502, 503, 504}

(* Mistake: the completion statements look at neither state nor token.     *)
Owns_Unfenced(d) == TRUE

(* The WHERE clause of the three completion statements: the event is being *)
(* delivered under this token.  The lease may have run out.                *)
Owns(d) ==
  LET q == box[disp[d].run]
  IN  q.state = "delivering" /\ q.token = d

At(d, pc) == disp[d].pc = pc

Goto(d, pc) == disp' = [disp EXCEPT ![d].pc = pc]

Set(r, q) == box' = [box EXCEPT ![r] = q]

(* A fenced UPDATE at the end of a delivery.                               *)
Record(d, q) ==
  /\ IF Owns(d) THEN Set(disp[d].run, q) ELSE box' = box
  /\ disp' = [disp EXCEPT ![d] = Idle]
  /\ UNCHANGED <<hasToken, accepts, mishaps>>

-----------------------------------------------------------------------------
RunEnds(r) ==
  /\ ~box[r].ended
  /\ Set(r, [box[r] EXCEPT !.ended = TRUE, !.state = "pending"])
  /\ UNCHANGED <<disp, hasToken, accepts, mishaps>>

(* Mistake: a claim does not lease the event.                              *)
ClaimNextCallback_NoLease(d, r) ==
  /\ At(d, "idle")
  /\ Claimable(box[r])
  /\ Set(r, [Claimed(box[r], d) EXCEPT !.live = FALSE])
  /\ disp' = [disp EXCEPT ![d] =
                [pc |-> "claimed", run |-> r, attempt |-> box[r].attempt]]
  /\ UNCHANGED <<hasToken, accepts, mishaps>>

(* FOR UPDATE SKIP LOCKED: any claimable event.                            *)
ClaimNextCallback(d, r) ==
  /\ At(d, "idle")
  /\ Claimable(box[r])
  /\ Set(r, Claimed(box[r], d))
  /\ disp' = [disp EXCEPT ![d] =
                [pc |-> "claimed", run |-> r, attempt |-> box[r].attempt]]
  /\ UNCHANGED <<hasToken, accepts, mishaps>>

(* deliver: without a token the event is given up ...                      *)
TokenMissing(d) ==
  /\ At(d, "claimed") /\ ~hasToken[d]
  /\ Record(d, Recorded(box[disp[d].run], "configuration_failed"))

(* ... otherwise the wakeup is posted.                                     *)
Post(d) ==
  /\ At(d, "claimed") /\ hasToken[d]
  /\ Goto(d, "posted")
  /\ UNCHANGED <<box, hasToken, accepts, mishaps>>

(* The orchestration API answers with status s.                            *)
Answer(d, s) ==
  /\ At(d, "posted")
  /\ accepts' = [accepts EXCEPT ![disp[d].run] = @ + (IF s = 202 THEN 1 ELSE 0)]
  /\ Goto(d, IF Accepted(s) THEN "accepted"
             ELSE IF retryableCallbackStatus(s) THEN "failed" ELSE "refused")
  /\ UNCHANGED <<box, hasToken, mishaps>>

(* The request never reaches it, or the client's time limit ends it first. *)
Unreachable(d) ==
  /\ At(d, "posted")
  /\ Goto(d, "failed")
  /\ UNCHANGED <<box, hasToken, accepts, mishaps>>

(* The wakeup is accepted but the answer gets lost.                        *)
AnswerLost(d) ==
  /\ mishaps < MaxMishaps /\ mishaps' = mishaps + 1
  /\ At(d, "posted")
  /\ accepts' = [accepts EXCEPT ![disp[d].run] = @ + 1]
  /\ Goto(d, "failed")
  /\ UNCHANGED <<box, hasToken>>

CallbackSucceeded(d) ==
  At(d, "accepted") /\ Record(d, Recorded(box[disp[d].run], "delivered"))

CallbackFailed(d) ==
  At(d, "failed") /\ Record(d, Postponed(box[disp[d].run], disp[d].attempt))

CallbackConfigurationFailed(d) ==
  /\ At(d, "refused")
  /\ Record(d, Recorded(box[disp[d].run], "configuration_failed"))

-----------------------------------------------------------------------------
(* callback_next_at comes.                                                 *)
NextAttemptDue(r) ==
  /\ ~box[r].due
  /\ Set(r, [box[r] EXCEPT !.due = TRUE])
  /\ UNCHANGED <<disp, hasToken, accepts, mishaps>>

HolderAlive(r) == \E d \in Dispatchers : disp[d].run = r /\ box[r].token = d

Lapse(r) == box[r].live /\ Set(r, [box[r] EXCEPT !.live = FALSE])

(* The lease (30 s) is longer than the client's time limit (15 s), so only *)
(* the lease of a dead dispatcher runs out ...                             *)
LeaseExpires(r) ==
  /\ ~HolderAlive(r) /\ Lapse(r)
  /\ UNCHANGED <<disp, hasToken, accepts, mishaps>>

(* ... or that of one that was paused.                                     *)
Stall(r) ==
  /\ mishaps < MaxMishaps /\ mishaps' = mishaps + 1
  /\ HolderAlive(r) /\ Lapse(r)
  /\ UNCHANGED <<disp, hasToken, accepts>>

(* The process dies, also after the wakeup was accepted and before that is *)
(* recorded, or the recording statement fails.  A new process may be       *)
(* configured differently.                                                 *)
Crash(d) ==
  /\ mishaps < MaxMishaps /\ mishaps' = mishaps + 1
  /\ ~At(d, "idle")
  /\ disp' = [disp EXCEPT ![d] = Idle]
  /\ \E c \in TokenConfigs : hasToken' = [hasToken EXCEPT ![d] = c]
  /\ UNCHANGED <<box, accepts>>

-----------------------------------------------------------------------------
Deliver(d) ==
  \/ TokenMissing(d) \/ Post(d)
  \/ (\E s \in HttpStatuses : Answer(d, s)) \/ Unreachable(d)
  \/ CallbackSucceeded(d) \/ CallbackFailed(d) \/ CallbackConfigurationFailed(d)

Next ==
  \/ \E d \in Dispatchers :
       \/ \E r \in Runs : ClaimNextCallback(d, r)
       \/ Deliver(d) \/ AnswerLost(d) \/ Crash(d)
  \/ \E r \in Runs :
       RunEnds(r) \/ NextAttemptDue(r) \/ LeaseExpires(r) \/ Stall(r)

Spec == Init /\ [][Next]_vars

(* Dispatchers keep polling, a delivery that was claimed ends (the client  *)
(* has a time limit), and the clock advances.  ORDER BY callback_next_at   *)
(* puts a postponed event behind the ones that are due, so an event that   *)
(* is claimable again and again is claimed.                                *)
Fairness ==
  /\ \A d \in Dispatchers : WF_vars(Deliver(d))
  /\ \A r \in Runs :
       /\ SF_vars(\E d \in Dispatchers : ClaimNextCallback(d, r))
       /\ WF_vars(NextAttemptDue(r)) /\ WF_vars(LeaseExpires(r))

FairSpec == Spec /\ Fairness

-----------------------------------------------------------------------------
(* The callback columns and the dispatchers' locals hold what they may.    *)
TypeOK ==
  /\ box \in [Runs -> Box]
  /\ disp \in [Dispatchers -> Dispatcher]
  /\ hasToken \in [Dispatchers -> BOOLEAN]
  /\ accepts \in [Runs -> Nat]
  /\ mishaps \in Nat

(* An event recorded as delivered was accepted by the orchestration API,   *)
(* whichever of several dispatchers recorded it.                           *)
DeliveredWasAccepted ==
  \A r \in Runs : box[r].state = "delivered" => accepts[r] > 0

(* No dispatcher works on an event, and nothing is delivered, before the   *)
(* terminal status of the run is committed.                                *)
DeliveryAfterTerminal ==
  /\ \A d \in Dispatchers : ~At(d, "idle") => box[disp[d].run].ended
  /\ \A r \in Runs : accepts[r] > 0 => box[r].ended

(* Duplicates have a cause: a wakeup is accepted twice only after a crash, *)
(* a stall of a whole lease or a lost answer, once more for each of them.  *)
DuplicatesExplained == \A r \in Runs : accepts[r] <= 1 + mishaps

(* The delay of a postponed event is the schedule's entry for the failures *)
(* recorded so far: a late dispatcher never sets the schedule back.        *)
ScheduleFollowed ==
  \A r \in Runs : box[r].state = "retry" =>
    /\ box[r].attempt > 0
    /\ \/ box[r].delay + 1 = box[r].attempt
       \/ box[r].delay = ScheduleLength /\ box[r].attempt = ScheduleLength

(* What is settled stays settled: a dispatcher that lost its lease cannot  *)
(* reopen a delivered event, nor deliver one that was given up.            *)
SettledFinal ==
  [][\A r \in Runs : box[r].state \in Settled => box'[r] = box[r]]_vars

(* An ended run's wakeup is tried again until it is settled, without limit *)
(* and whatever dispatchers crash or stall: it is never forgotten.         *)
KeepsTrying ==
  \A r \in Runs :
    []<>( \/ ~box[r].ended
          \/ box[r].state \in Settled
          \/ \E d \in Dispatchers : At(d, "posted") /\ disp[d].run = r )
=============================================================================
