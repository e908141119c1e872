------------------------ MODULE CallbackOutboxProofs ------------------------
(***************************************************************************)
(* What the callback outbox guarantees for any number of runs, dispatchers *)
(* and mishaps, any schedule and whatever the orchestration API answers.   *)
(***************************************************************************)
EXTENDS CallbackOutbox, FiniteSetTheorems, TLAPS

(* A busy dispatcher has an ended run, has seen its wakeup accepted if it  *)
(* says so, and, as long as its token is the row's, knows the attempts the *)
(* row has recorded.                                                       *)
DispatcherInv(d) ==
  IF At(d, "idle") THEN disp[d].run = NoRun
  ELSE /\ disp[d].run \in Runs
       /\ box[disp[d].run].ended
       /\ At(d, "accepted") => accepts[disp[d].run] > 0
       /\ Owns(d) => disp[d].attempt = box[disp[d].run].attempt

(* An event waits exactly until its run ends; only a postponed event is    *)
(* not due, and only one that is being delivered is leased.                *)
BoxInv(r) ==
  /\ ~box[r].due => box[r].state = "retry"
  /\ box[r].live => box[r].state = "delivering"
  /\ box[r].state = "waiting" <=> ~box[r].ended
  /\ box[r].state = "delivered" => accepts[r] > 0
  /\ accepts[r] > 0 => box[r].ended
  /\ box[r].state = "retry" =>
       /\ box[r].attempt > 0
       /\ \/ box[r].delay + 1 = box[r].attempt
          \/ box[r].delay = ScheduleLength /\ box[r].attempt = ScheduleLength

(* The inductive invariant of the outbox.                                  *)
OutboxInv ==
  /\ TypeOK
  /\ \A d \in Dispatchers : DispatcherInv(d)
  /\ \A r \in Runs : BoxInv(r)

(* Dispatchers that may yet have the run's wakeup accepted.                *)
Trying(r) ==
  {d \in Dispatchers : disp[d].run = r /\ disp[d].pc \in {"claimed", "posted"}}

(* The leaseholder is at work, and has not failed: nobody else may claim   *)
(* the event unless something goes wrong.                                  *)
Attended(r) ==
  box[r].live /\ \E d \in Dispatchers :
                   disp[d].run = r /\ box[r].token = d /\ ~At(d, "failed")

(* One more claim can come without a further mishap.                       *)
Open(r) == box[r].state \notin Settled /\ ~Attended(r)

(* The wakeups accepted, those that may still be and the next claim share  *)
(* one regular delivery and one for each mishap.                           *)
Budget(r) ==
  /\ IsFiniteSet(Trying(r))
  /\ accepts[r] + Cardinality(Trying(r)) + (IF Open(r) THEN 1 ELSE 0)
       <= 1 + mishaps

Budgets == \A r \in Runs : Budget(r)

(* One step's discipline for settled events.                               *)
SettledStep == \A r \in Runs : box[r].state \in Settled => box'[r] = box[r]

-----------------------------------------------------------------------------
(* The outbox starts in the invariant.                                     *)
LEMMA InitOutbox == Init => OutboxInv
<1> SUFFICES ASSUME Init PROVE OutboxInv
  OBVIOUS
<1>1. NewBox \in Box
  BY OutboxAssumption DEF NewBox, Box, States
<1>2. Idle \in Dispatcher
  BY OutboxAssumption DEF Idle, Dispatcher, PCs
<1>3. TypeOK
  BY <1>1, <1>2, OutboxAssumption DEF Init, TypeOK
<1>4. ASSUME NEW d \in Dispatchers PROVE DispatcherInv(d)
  BY DEF Init, DispatcherInv, At, Idle
<1>5. ASSUME NEW r \in Runs PROVE BoxInv(r)
  BY DEF Init, BoxInv, NewBox
<1> QED
  BY <1>3, <1>4, <1>5 DEF OutboxInv

(* A dispatcher that records an outcome and returns keeps the invariant:   *)
(* under its own token it writes a truthful row, and without it nothing.   *)
LEMMA RecordStep ==
  ASSUME OutboxInv, NEW d \in Dispatchers, ~At(d, "idle"), NEW q,
         Record(d, q),
         Owns(d) => /\ q \in Box /\ q.ended
                    /\ q.state \in {"delivered", "retry", "configuration_failed"}
                    /\ q.token = NoDispatcher
                    /\ ~q.live /\ (q.state # "retry" => q.due)
                    /\ q.state = "delivered" => accepts[disp[d].run] > 0
                    /\ q.state = "retry" =>
                         /\ q.attempt > 0
                         /\ \/ q.delay + 1 = q.attempt
                            \/ q.delay = ScheduleLength /\ q.attempt = ScheduleLength
  PROVE  OutboxInv' /\ SettledStep
<1> DEFINE r0 == disp[d].run
<1>1. TypeOK /\ r0 \in Runs /\ box[r0].ended
  BY DEF OutboxInv, DispatcherInv
<1>2. disp' = [disp EXCEPT ![d] = Idle] /\ UNCHANGED <<hasToken, accepts, mishaps>>
  BY DEF Record
<1>3. Idle \in Dispatcher /\ Idle.pc = "idle" /\ Idle.run = NoRun
  BY OutboxAssumption DEF Idle, Dispatcher, PCs
<1>4. CASE ~Owns(d)
  <2>1. box' = box
    BY <1>4 DEF Record
  <2>2. TypeOK'
    BY <1>1, <1>2, <1>3, <2>1 DEF TypeOK
  <2>3. ASSUME NEW e \in Dispatchers PROVE DispatcherInv(e)'
    <3>1. CASE e = d
      BY <1>1, <1>2, <1>3, <3>1 DEF DispatcherInv, At, TypeOK
    <3>2. CASE e # d
      <4>1. disp'[e] = disp[e]
        BY <1>1, <1>2, <3>2 DEF TypeOK
      <4> QED
        BY <1>2, <2>1, <4>1 DEF OutboxInv, DispatcherInv, At, Owns
    <3> QED
      BY <3>1, <3>2
  <2>4. ASSUME NEW r \in Runs PROVE BoxInv(r)'
    BY <1>2, <2>1 DEF OutboxInv, BoxInv
  <2> QED
    BY <2>1, <2>2, <2>3, <2>4 DEF OutboxInv, SettledStep
<1>5. CASE Owns(d)
  <2>1. box' = [box EXCEPT ![r0] = q]
    BY <1>5 DEF Record, Set
  <2>2. TypeOK'
    BY <1>1, <1>2, <1>3, <1>5, <2>1 DEF TypeOK
  <2>3. box'[r0] = q /\ \A r \in Runs \ {r0} : box'[r] = box[r]
    BY <1>1, <2>1 DEF TypeOK
  <2>4. ASSUME NEW e \in Dispatchers PROVE DispatcherInv(e)'
    <3>1. CASE e = d
      BY <1>1, <1>2, <1>3, <3>1 DEF DispatcherInv, At, TypeOK
    <3>2. CASE e # d
      <4>1. disp'[e] = disp[e] /\ DispatcherInv(e)
        BY <1>1, <1>2, <3>2 DEF TypeOK, OutboxInv
      <4>2. CASE At(e, "idle")
        BY <4>1, <4>2 DEF DispatcherInv, At
      <4>3. CASE ~At(e, "idle") /\ disp[e].run # r0
        BY <1>2, <2>3, <4>1, <4>3 DEF DispatcherInv, At, Owns
      <4>4. CASE ~At(e, "idle") /\ disp[e].run = r0
        <5>1. ~Owns(e)'
          BY <1>5, <2>3, <4>1, <4>4, OutboxAssumption DEF Owns
        <5> QED
          BY <1>2, <1>5, <2>3, <4>1, <4>4, <5>1 DEF DispatcherInv, At
      <4> QED
        BY <4>2, <4>3, <4>4
    <3> QED
      BY <3>1, <3>2
  <2>5. ASSUME NEW r \in Runs PROVE BoxInv(r)'
    <3>1. CASE r = r0
      BY <1>2, <1>5, <2>3, <3>1 DEF BoxInv
    <3>2. CASE r # r0
      BY <1>2, <2>3, <3>2 DEF OutboxInv, BoxInv
    <3> QED
      BY <3>1, <3>2
  <2>6. SettledStep
    BY <1>5, <2>3 DEF SettledStep, Settled, Owns
  <2> QED
    BY <2>2, <2>4, <2>5, <2>6 DEF OutboxInv
<1> QED
  BY <1>4, <1>5

(* The three completion statements, as they are called by deliver.         *)
LEMMA CompletionStep ==
  ASSUME OutboxInv, NEW d \in Dispatchers,
         \/ TokenMissing(d) \/ CallbackSucceeded(d)
         \/ CallbackFailed(d) \/ CallbackConfigurationFailed(d)
  PROVE  OutboxInv' /\ SettledStep
<1> DEFINE q == box[disp[d].run]
<1>1. ~At(d, "idle")
  BY DEF TokenMissing, CallbackSucceeded, CallbackFailed,
         CallbackConfigurationFailed, At
<1>2. /\ TypeOK /\ DispatcherInv(d) /\ disp[d].run \in Runs
      /\ q \in Box /\ q.ended /\ q.attempt \in Nat
      /\ disp[d].attempt \in 0..ScheduleLength
  BY <1>1, OutboxAssumption DEF OutboxInv, DispatcherInv, TypeOK, Box, Dispatcher
<1>3. /\ Capped(q.attempt + 1) \in 0..ScheduleLength
      /\ Capped(q.attempt + 1) > 0
      /\ Capped(disp[d].attempt) \in 0..ScheduleLength
  BY <1>2, OutboxAssumption DEF Capped
<1>4. ASSUME NEW s \in States \ {"waiting"}
      PROVE  /\ Recorded(q, s) \in Box /\ Recorded(q, s).ended
             /\ Recorded(q, s).state = s /\ Recorded(q, s).token = NoDispatcher
             /\ Recorded(q, s).attempt = Capped(q.attempt + 1)
             /\ ~Recorded(q, s).live /\ Recorded(q, s).due = q.due
  BY <1>2, <1>3 DEF Recorded, Box, States
<1>5. Owns(d) => q.due
  BY <1>2 DEF OutboxInv, BoxInv, Owns
<1>6. CASE CallbackSucceeded(d)
  <2>1. accepts[disp[d].run] > 0
    BY <1>1, <1>2, <1>6 DEF DispatcherInv, CallbackSucceeded
  <2>2. Record(d, Recorded(q, "delivered"))
    BY <1>6 DEF CallbackSucceeded
  <2> QED
    BY ONLY OutboxInv, <1>1, <1>4, <1>5, <2>1, <2>2, RecordStep DEF States
<1>7. CASE TokenMissing(d) \/ CallbackConfigurationFailed(d)
  <2>1. Record(d, Recorded(q, "configuration_failed"))
    BY <1>7 DEF TokenMissing, CallbackConfigurationFailed
  <2> QED
    BY ONLY OutboxInv, <1>1, <1>4, <1>5, <2>1, RecordStep DEF States
<1>8. CASE CallbackFailed(d)
  <2> DEFINE p == Postponed(q, disp[d].attempt)
  <2>1. Record(d, p)
    BY <1>8 DEF CallbackFailed
  <2> DEFINE b == Recorded(q, "retry")
  <2>2. /\ b \in Box /\ b.ended /\ b.state = "retry" /\ b.token = NoDispatcher
        /\ b.attempt = Capped(q.attempt + 1) /\ ~b.live
    BY <1>4 DEF States
  <2>3. p = [b EXCEPT !.due = FALSE, !.delay = Capped(disp[d].attempt)]
    BY DEF Postponed
  <2> HIDE DEF b, p
  <2>4. /\ p \in Box /\ p.ended /\ p.state = "retry" /\ p.token = NoDispatcher
        /\ ~p.live
        /\ p.attempt = Capped(q.attempt + 1) /\ p.delay = Capped(disp[d].attempt)
    BY <1>3, <2>2, <2>3 DEF Box
  <2>5. Owns(d) => disp[d].attempt = q.attempt
    BY <1>1, <1>2 DEF DispatcherInv
  <2>6. Owns(d) =>
          /\ p.attempt > 0
          /\ \/ p.delay + 1 = p.attempt
             \/ p.delay = ScheduleLength /\ p.attempt = ScheduleLength
    BY <1>2, <1>3, <2>4, <2>5, OutboxAssumption DEF Capped
  <2> QED
    BY ONLY OutboxInv, <1>1, <2>1, <2>4, <2>6, RecordStep
<1> QED
  BY <1>6, <1>7, <1>8

(* A claim gives the dispatcher what the row holds and takes the token     *)
(* from whoever had it.                                                    *)
LEMMA ClaimStep ==
  ASSUME OutboxInv, NEW d \in Dispatchers, NEW r0 \in Runs,
         ClaimNextCallback(d, r0)
  PROVE  OutboxInv' /\ SettledStep
<1> DEFINE q == box[r0]
           c == Claimed(q, d)
           n == [pc |-> "claimed", run |-> r0, attempt |-> q.attempt]
<1>1. TypeOK /\ q \in Box /\ BoxInv(r0) /\ Claimable(q)
  BY DEF OutboxInv, TypeOK, ClaimNextCallback
<1>2. /\ box' = [box EXCEPT ![r0] = c] /\ disp' = [disp EXCEPT ![d] = n]
      /\ UNCHANGED <<hasToken, accepts, mishaps>>
  BY DEF ClaimNextCallback, Set
<1>3. /\ c \in Box /\ c.state = "delivering" /\ c.token = d
      /\ c.ended /\ c.attempt = q.attempt /\ c.due
  BY <1>1 DEF Claimed, Claimable, Box, States
<1>4. n \in Dispatcher /\ n.pc = "claimed" /\ n.run = r0 /\ n.attempt = q.attempt
  BY <1>1 DEF Dispatcher, PCs, Box
<1> HIDE DEF c, n
<1>5. TypeOK'
  BY <1>1, <1>2, <1>3, <1>4 DEF TypeOK
<1>6. /\ box'[r0] = c /\ \A r \in Runs \ {r0} : box'[r] = box[r]
      /\ disp'[d] = n /\ \A e \in Dispatchers \ {d} : disp'[e] = disp[e]
  BY <1>1, <1>2 DEF TypeOK
<1>7. ASSUME NEW e \in Dispatchers PROVE DispatcherInv(e)'
  <2>1. CASE e = d
    BY <1>3, <1>4, <1>6, <2>1 DEF DispatcherInv, At
  <2>2. CASE e # d
    <3>1. disp'[e] = disp[e] /\ DispatcherInv(e)
      BY <1>6, <2>2 DEF OutboxInv
    <3>2. CASE At(e, "idle")
      BY <3>1, <3>2 DEF DispatcherInv, At
    <3>3. CASE ~At(e, "idle") /\ disp[e].run # r0
      BY <1>2, <1>6, <3>1, <3>3 DEF DispatcherInv, At, Owns
    <3>4. CASE ~At(e, "idle") /\ disp[e].run = r0
      <4>1. ~Owns(e)'
        BY <1>3, <1>6, <2>2, <3>1, <3>4 DEF Owns
      <4> QED
        BY <1>2, <1>3, <1>6, <3>1, <3>4, <4>1 DEF DispatcherInv, At
    <3> QED
      BY <3>2, <3>3, <3>4
  <2> QED
    BY <2>1, <2>2
<1>8. ASSUME NEW r \in Runs PROVE BoxInv(r)'
  <2>1. CASE r = r0
    BY <1>1, <1>2, <1>3, <1>6, <2>1 DEF BoxInv
  <2>2. CASE r # r0
    BY <1>2, <1>6, <2>2 DEF OutboxInv, BoxInv
  <2> QED
    BY <2>1, <2>2
<1>9. SettledStep
  BY <1>1, <1>6 DEF SettledStep, Settled, Claimable
<1> QED
  BY <1>5, <1>7, <1>8, <1>9 DEF OutboxInv

(* Posting, answering and dying leave the rows alone; an accepted wakeup   *)
(* is counted before its dispatcher says so.                               *)
LEMMA LocalStep ==
  ASSUME OutboxInv, NEW d \in Dispatchers,
         \/ Post(d) \/ (\E s \in HttpStatuses : Answer(d, s)) \/ Unreachable(d)
         \/ AnswerLost(d) \/ Crash(d)
  PROVE  OutboxInv' /\ SettledStep
<1>1. TypeOK
  BY DEF OutboxInv
<1>2. ~At(d, "idle") /\ DispatcherInv(d) /\ disp[d].run \in Runs
      /\ box[disp[d].run].ended
  BY DEF OutboxInv, DispatcherInv, Post, Answer, Unreachable, AnswerLost, Crash, At
<1>3. box' = box
  BY DEF Post, Answer, Unreachable, AnswerLost, Crash
<1>4. mishaps' \in Nat /\ hasToken' \in [Dispatchers -> BOOLEAN]
  BY <1>1, OutboxAssumption
     DEF TypeOK, Post, Answer, Unreachable, AnswerLost, Crash
<1>5. /\ accepts' \in [Runs -> Nat]
      /\ \A r \in Runs : accepts'[r] >= accepts[r]
      /\ \A r \in Runs : r # disp[d].run => accepts'[r] = accepts[r]
  BY <1>1, <1>2 DEF TypeOK, Post, Answer, Unreachable, AnswerLost, Crash
<1>6. /\ disp' \in [Dispatchers -> Dispatcher]
      /\ \A e \in Dispatchers : e # d => disp'[e] = disp[e]
      /\ \/ disp'[d].pc = "idle" /\ disp'[d].run = NoRun
         \/ /\ disp'[d].pc # "idle"
            /\ disp'[d].run = disp[d].run
            /\ disp'[d].attempt = disp[d].attempt
            /\ disp'[d].pc = "accepted" => accepts'[disp[d].run] > 0
  <2>1. CASE Crash(d)
    <3>1. Idle \in Dispatcher /\ Idle.pc = "idle" /\ Idle.run = NoRun
      BY OutboxAssumption DEF Idle, Dispatcher, PCs
    <3> QED
      BY <1>1, <2>1, <3>1 DEF Crash, TypeOK
  <2>2. CASE Post(d) \/ Unreachable(d) \/ AnswerLost(d)
    <3>1. PICK p \in {"posted", "failed"} : Goto(d, p)
      BY <2>2 DEF Post, Unreachable, AnswerLost
    <3> QED
      BY <1>1, <3>1 DEF Goto, TypeOK, Dispatcher, PCs
  <2>3. CASE \E s \in HttpStatuses : Answer(d, s)
    <3>1. PICK s \in HttpStatuses : Answer(d, s)
      BY <2>3
    <3>2. CASE Accepted(s)
      <4>1. Goto(d, "accepted")
        BY <3>1, <3>2 DEF Answer
      <4>2. accepts'[disp[d].run] > 0
        BY <1>1, <1>2, <3>1, <3>2 DEF Answer, Accepted, TypeOK
      <4> QED
        BY <1>1, <4>1, <4>2 DEF Goto, TypeOK, Dispatcher, PCs
    <3>3. CASE ~Accepted(s)
      <4>1. PICK p \in {"failed", "refused"} : Goto(d, p)
        BY <3>1, <3>3 DEF Answer
      <4> QED
        BY <1>1, <4>1 DEF Goto, TypeOK, Dispatcher, PCs
    <3> QED
      BY <3>2, <3>3
  <2> QED
    BY <2>1, <2>2, <2>3
<1>7. TypeOK'
  BY <1>1, <1>3, <1>4, <1>5, <1>6 DEF TypeOK
<1>8. ASSUME NEW e \in Dispatchers PROVE DispatcherInv(e)'
  <2>1. CASE e = d
    BY <1>2, <1>3, <1>5, <1>6, <2>1 DEF DispatcherInv, At, Owns
  <2>2. CASE e # d
    <3>1. disp'[e] = disp[e] /\ DispatcherInv(e)
      BY <1>6, <2>2 DEF OutboxInv
    <3>2. CASE At(e, "idle")
      BY <3>1, <3>2 DEF DispatcherInv, At
    <3>3. CASE ~At(e, "idle")
      <4>1. disp[e].run \in Runs
        BY <3>1, <3>3 DEF DispatcherInv
      <4>2. accepts[disp[e].run] \in Nat /\ accepts'[disp[e].run] \in Nat
            /\ accepts'[disp[e].run] >= accepts[disp[e].run]
        BY <1>1, <1>5, <4>1 DEF TypeOK
      <4> QED
        BY <1>3, <3>1, <3>3, <4>1, <4>2 DEF DispatcherInv, At, Owns
    <3> QED
      BY <3>2, <3>3
  <2> QED
    BY <2>1, <2>2
<1>9. ASSUME NEW r \in Runs PROVE BoxInv(r)'
  <2>1. BoxInv(r) /\ accepts[r] \in Nat /\ accepts'[r] \in Nat
        /\ accepts'[r] >= accepts[r]
    BY <1>1, <1>5 DEF OutboxInv, TypeOK
  <2>2. CASE r = disp[d].run
    BY <1>2, <1>3, <2>1, <2>2 DEF BoxInv
  <2>3. CASE r # disp[d].run
    BY <1>3, <1>5, <2>1, <2>3 DEF BoxInv
  <2> QED
    BY <2>2, <2>3
<1> QED
  BY <1>3, <1>7, <1>8, <1>9 DEF OutboxInv, SettledStep

(* The end of a run and the clock.                                         *)
LEMMA RowStep ==
  ASSUME OutboxInv, NEW r0 \in Runs,
         RunEnds(r0) \/ NextAttemptDue(r0) \/ LeaseExpires(r0) \/ Stall(r0)
  PROVE  OutboxInv' /\ SettledStep
<1> DEFINE q == box[r0]
<1>1. TypeOK /\ q \in Box /\ BoxInv(r0)
  BY DEF OutboxInv, TypeOK
<1>2. UNCHANGED <<disp, hasToken, accepts>> /\ mishaps' \in Nat
  BY <1>1 DEF TypeOK, RunEnds, NextAttemptDue, LeaseExpires, Stall, Lapse
<1>3. PICK n \in Box :
        /\ box' = [box EXCEPT ![r0] = n]
        /\ \/ n.ended /\ n.state # "waiting"
           \/ n.ended = q.ended /\ n.state = q.state
        /\ n.attempt = q.attempt /\ n.delay = q.delay /\ n.token = q.token
        /\ q.ended => n.ended /\ n.state = q.state
        /\ n.state \in {"delivered", "retry", "delivering"} => n.state = q.state
        /\ q.state \in Settled => n = q
        /\ ~n.due => ~q.due
        /\ n.live => q.live /\ n.state = q.state
  <2>1. CASE RunEnds(r0)
    <3> DEFINE n == [q EXCEPT !.ended = TRUE, !.state = "pending"]
    <3>1. box' = [box EXCEPT ![r0] = n] /\ ~q.ended
      BY <2>1 DEF RunEnds, Set
    <3>2. n \in Box /\ n.ended /\ n.state = "pending" /\ n.attempt = q.attempt
          /\ n.delay = q.delay /\ n.token = q.token
          /\ n.due = q.due /\ n.live = q.live
      BY <1>1 DEF Box, States
    <3>3. q.state = "waiting" /\ ~q.live
      BY <1>1, <3>1 DEF BoxInv
    <3> HIDE DEF n
    <3> QED
      BY <3>1, <3>2, <3>3 DEF Settled
  <2>2. CASE NextAttemptDue(r0)
    <3> DEFINE n == [q EXCEPT !.due = TRUE]
    <3>1. box' = [box EXCEPT ![r0] = n] /\ ~q.due
      BY <2>2 DEF NextAttemptDue, Set
    <3>2. n \in Box
      BY <1>1 DEF Box
    <3>3. q.state = "retry"
      BY <1>1, <3>1 DEF BoxInv
    <3> QED
      BY <1>1, <3>1, <3>2, <3>3 DEF Box, Settled
  <2>3. CASE LeaseExpires(r0) \/ Stall(r0)
    <3> DEFINE n == [q EXCEPT !.live = FALSE]
    <3>1. box' = [box EXCEPT ![r0] = n] /\ q.live
      BY <2>3 DEF LeaseExpires, Stall, Lapse, Set
    <3>2. n \in Box
      BY <1>1 DEF Box
    <3>3. q.state = "delivering"
      BY <1>1, <3>1 DEF BoxInv
    <3> QED
      BY <1>1, <3>1, <3>2, <3>3 DEF Box, Settled
  <2> QED
    BY <2>1, <2>2, <2>3
<1>4. box'[r0] = n /\ \A r \in Runs \ {r0} : box'[r] = box[r]
  BY <1>1, <1>3 DEF TypeOK
<1>5. TypeOK'
  BY <1>1, <1>2, <1>3 DEF TypeOK
<1>6. ASSUME NEW e \in Dispatchers PROVE DispatcherInv(e)'
  <2>1. DispatcherInv(e)
    BY DEF OutboxInv
  <2>2. CASE At(e, "idle")
    BY <1>2, <2>1, <2>2 DEF DispatcherInv, At
  <2>3. CASE ~At(e, "idle") /\ disp[e].run # r0
    BY <1>2, <1>4, <2>1, <2>3 DEF DispatcherInv, At, Owns
  <2>4. CASE ~At(e, "idle") /\ disp[e].run = r0
    BY <1>2, <1>3, <1>4, <2>1, <2>4 DEF DispatcherInv, At, Owns
  <2> QED
    BY <2>2, <2>3, <2>4
<1>7. ASSUME NEW r \in Runs PROVE BoxInv(r)'
  <2>1. CASE r = r0
    BY <1>1, <1>2, <1>3, <1>4, <2>1 DEF BoxInv
  <2>2. CASE r # r0
    BY <1>2, <1>4, <2>2 DEF OutboxInv, BoxInv
  <2> QED
    BY <2>1, <2>2
<1>8. SettledStep
  BY <1>3, <1>4 DEF SettledStep
<1> QED
  BY <1>5, <1>6, <1>7, <1>8 DEF OutboxInv

(* Every step of the outbox keeps the invariant and what is settled.       *)
LEMMA OutboxStep ==
  ASSUME OutboxInv, [Next]_vars
  PROVE  OutboxInv' /\ SettledStep
<1>1. CASE UNCHANGED vars
  <2>1. TypeOK'
    BY <1>1 DEF OutboxInv, TypeOK, vars
  <2>2. ASSUME NEW d \in Dispatchers PROVE DispatcherInv(d)'
    BY <1>1 DEF OutboxInv, DispatcherInv, At, Owns, vars
  <2>3. ASSUME NEW r \in Runs PROVE BoxInv(r)'
    BY <1>1 DEF OutboxInv, BoxInv, vars
  <2> QED
    BY <1>1, <2>1, <2>2, <2>3 DEF OutboxInv, SettledStep, vars
<1>2. CASE Next
  BY <1>2, ClaimStep, CompletionStep, LocalStep, RowStep DEF Next, Deliver
<1> QED
  BY <1>1, <1>2

-----------------------------------------------------------------------------
(* A step that spends no more than it earns stays within the budget.       *)
LEMMA BudgetKept ==
  ASSUME TypeOK, TypeOK', NEW r \in Runs, Budget(r),
         NEW W, IsFiniteSet(W), Trying(r)' = W,
         accepts'[r] + Cardinality(W) + (IF Open(r)' THEN 1 ELSE 0) - mishaps'
           <= accepts[r] + Cardinality(Trying(r)) + (IF Open(r) THEN 1 ELSE 0)
                - mishaps
  PROVE  Budget(r)'
<1>1. Cardinality(W) \in Nat /\ Cardinality(Trying(r)) \in Nat
  BY FS_CardinalityType DEF Budget
<1>2. /\ accepts[r] \in Nat /\ mishaps \in Nat
      /\ accepts'[r] \in Nat /\ mishaps' \in Nat
  BY DEF TypeOK
<1>3. accepts'[r] + Cardinality(W) + (IF Open(r)' THEN 1 ELSE 0) <= 1 + mishaps'
  BY <1>1, <1>2 DEF Budget
<1> QED
  BY <1>3 DEF Budget

(* A run whose row and dispatchers a step leaves alone keeps its budget.   *)
LEMMA Untouched ==
  ASSUME TypeOK, TypeOK', NEW r \in Runs, Budget(r), NEW d \in Dispatchers,
         box'[r] = box[r], accepts'[r] = accepts[r], mishaps' >= mishaps,
         \A e \in Dispatchers \ {d} : disp'[e] = disp[e],
         disp[d].run # r, disp'[d].run # r
  PROVE  Budget(r)'
<1>1. Trying(r)' = Trying(r)
  BY DEF Trying
<1>2. Open(r)' = Open(r)
  BY DEF Open, Attended, At
<1>3. Cardinality(Trying(r)) \in Nat /\ IsFiniteSet(Trying(r))
  BY FS_CardinalityType DEF Budget
<1>4. accepts[r] \in Nat /\ mishaps \in Nat /\ mishaps' \in Nat
  BY DEF TypeOK
<1> QED
  BY <1>1, <1>2, <1>3, <1>4, BudgetKept

(* A dispatcher that stops trying gives its share back.                    *)
LEMMA StopsTrying ==
  ASSUME NEW r \in Runs, NEW d \in Dispatchers, IsFiniteSet(Trying(r)),
         \A e \in Dispatchers \ {d} : disp'[e] = disp[e],
         \/ disp'[d].run # r
         \/ disp'[d].pc \notin {"claimed", "posted"}
  PROVE  /\ Trying(r)' = Trying(r) \ {d} /\ IsFiniteSet(Trying(r) \ {d})
         /\ Cardinality(Trying(r)) \in Nat /\ Cardinality(Trying(r) \ {d}) \in Nat
         /\ Cardinality(Trying(r) \ {d}) <= Cardinality(Trying(r))
         /\ d \in Trying(r) =>
              Cardinality(Trying(r) \ {d}) = Cardinality(Trying(r)) - 1
<1>1. Trying(r)' = Trying(r) \ {d}
  BY DEF Trying
<1>2. /\ IsFiniteSet(Trying(r) \ {d})
      /\ Cardinality(Trying(r) \ {d}) =
           IF d \in Trying(r) THEN Cardinality(Trying(r)) - 1
           ELSE Cardinality(Trying(r))
  BY FS_RemoveElement
<1>3. Cardinality(Trying(r)) \in Nat /\ Cardinality(Trying(r) \ {d}) \in Nat
  BY <1>2, FS_CardinalityType
<1> QED
  BY <1>1, <1>2, <1>3

(* The start: nobody tries, and one claim is open for every run.           *)
LEMMA InitBudgets == Init => Budgets
<1> SUFFICES ASSUME Init, NEW r \in Runs PROVE Budget(r)
  BY DEF Budgets
<1>1. Trying(r) = {}
  BY DEF Init, Trying, Idle
<1>2. accepts[r] = 0 /\ mishaps = 0
  BY DEF Init
<1>3. IsFiniteSet(Trying(r)) /\ Cardinality(Trying(r)) = 0
  BY <1>1, FS_EmptySet
<1> QED
  BY <1>2, <1>3 DEF Budget

(* A claim turns the open delivery into one that is tried.                 *)
LEMMA ClaimBudget ==
  ASSUME OutboxInv, TypeOK', Budgets, NEW d \in Dispatchers, NEW r0 \in Runs,
         ClaimNextCallback(d, r0), NEW r \in Runs
  PROVE  Budget(r)'
<1> DEFINE n == [pc |-> "claimed", run |-> r0, attempt |-> box[r0].attempt]
<1>1. TypeOK /\ Budget(r) /\ BoxInv(r0) /\ At(d, "idle") /\ Claimable(box[r0])
  BY DEF OutboxInv, Budgets, ClaimNextCallback
<1>2. /\ box' = [box EXCEPT ![r0] = Claimed(box[r0], d)]
      /\ disp' = [disp EXCEPT ![d] = n]
      /\ UNCHANGED <<hasToken, accepts, mishaps>>
  BY DEF ClaimNextCallback, Set
<1>3. n.pc = "claimed" /\ n.run = r0
  OBVIOUS
<1> HIDE DEF n
<1>4. /\ box'[r0] = Claimed(box[r0], d) /\ \A q \in Runs \ {r0} : box'[q] = box[q]
      /\ disp'[d] = n /\ \A e \in Dispatchers \ {d} : disp'[e] = disp[e]
  BY <1>1, <1>2 DEF TypeOK
<1>5. disp[d].run = NoRun /\ NoRun \notin Runs
  BY <1>1, OutboxAssumption DEF OutboxInv, DispatcherInv
<1>6. accepts[r] \in Nat /\ mishaps \in Nat
  BY <1>1 DEF TypeOK
<1>7. CASE r # r0
  BY <1>1, <1>2, <1>3, <1>4, <1>5, <1>6, <1>7, Untouched
<1>8. CASE r = r0
  <2> DEFINE W == Trying(r) \cup {d}
  <2>1. Trying(r)' = W
    BY <1>3, <1>4, <1>8 DEF Trying
  <2>2. d \notin Trying(r)
    BY <1>5, <1>8 DEF Trying
  <2>3. /\ IsFiniteSet(W) /\ Cardinality(Trying(r)) \in Nat
        /\ Cardinality(W) = Cardinality(Trying(r)) + 1
    BY <1>1, <2>2, FS_AddElement, FS_CardinalityType DEF Budget
  <2>4. Open(r)
    BY <1>1, <1>8 DEF Claimable, Open, Attended, Settled
  <2>5. box'[r].live /\ box'[r].token = d
    <3>1. box[r0] \in Box
      BY <1>1 DEF TypeOK
    <3> QED
      BY <1>4, <1>8, <3>1 DEF Claimed, Box
  <2>6. ~Open(r)'
    BY <1>3, <1>4, <1>8, <2>5 DEF Open, Attended, At
  <2> HIDE DEF W
  <2> QED
    BY <1>1, <1>2, <1>6, <2>1, <2>3, <2>4, <2>6, BudgetKept
<1> QED
  BY <1>7, <1>8

(* The completion statements close the event or reopen one whose delivery  *)
(* failed; without the token they change no row.                           *)
LEMMA CompletionBudget ==
  ASSUME OutboxInv, TypeOK', Budgets, NEW d \in Dispatchers, NEW r \in Runs,
         \/ TokenMissing(d) \/ CallbackSucceeded(d)
         \/ CallbackFailed(d) \/ CallbackConfigurationFailed(d)
  PROVE  Budget(r)'
<1> DEFINE r0 == disp[d].run
<1>1. ~At(d, "idle")
  BY DEF TokenMissing, CallbackSucceeded, CallbackFailed,
         CallbackConfigurationFailed, At
<1>2. TypeOK /\ Budget(r) /\ r0 \in Runs /\ BoxInv(r0) /\ box[r0] \in Box
  BY <1>1 DEF OutboxInv, Budgets, DispatcherInv, TypeOK
<1>3. PICK q :
        /\ Record(d, q)
        /\ \/ q.state \in Settled
           \/ At(d, "failed")
  <2>1. CASE CallbackFailed(d)
    BY <2>1 DEF CallbackFailed
  <2>2. ASSUME NEW s \in Settled PROVE Recorded(box[r0], s).state \in Settled
    BY <1>2 DEF Recorded, Box
  <2>3. CASE CallbackSucceeded(d)
    BY <2>2, <2>3 DEF CallbackSucceeded, Settled
  <2>4. CASE TokenMissing(d) \/ CallbackConfigurationFailed(d)
    BY <2>2, <2>4 DEF TokenMissing, CallbackConfigurationFailed, Settled
  <2> QED
    BY <2>1, <2>3, <2>4
<1>4. /\ disp' = [disp EXCEPT ![d] = Idle]
      /\ UNCHANGED <<accepts, mishaps>>
      /\ IF Owns(d) THEN box' = [box EXCEPT ![r0] = q] ELSE box' = box
  BY <1>3 DEF Record, Set
<1>5. /\ disp'[d].run = NoRun /\ disp'[d].pc = "idle" /\ NoRun \notin Runs
      /\ \A e \in Dispatchers \ {d} : disp'[e] = disp[e]
  BY <1>2, <1>4, OutboxAssumption DEF TypeOK, Idle
<1>6. accepts[r] \in Nat /\ mishaps \in Nat
  BY <1>2 DEF TypeOK
<1>7. CASE r # r0
  <2>1. box'[r] = box[r]
    BY <1>2, <1>4, <1>7 DEF TypeOK
  <2> QED
    BY <1>2, <1>4, <1>5, <1>6, <1>7, <2>1, Untouched
<1>8. CASE r = r0
  <2>1. /\ Trying(r)' = Trying(r) \ {d} /\ IsFiniteSet(Trying(r) \ {d})
        /\ Cardinality(Trying(r)) \in Nat /\ Cardinality(Trying(r) \ {d}) \in Nat
        /\ Cardinality(Trying(r) \ {d}) <= Cardinality(Trying(r))
    BY <1>2, <1>5, StopsTrying DEF Budget
  <2>2. Open(r)' => Open(r)
    <3>1. CASE Owns(d)
      <4>1. box'[r] = q
        BY <1>2, <1>4, <1>8, <3>1 DEF TypeOK
      <4>2. CASE q.state \in Settled
        BY <4>1, <4>2 DEF Open
      <4>3. CASE At(d, "failed")
        BY <1>8, <3>1, <4>3 DEF Open, Attended, Owns, Settled
      <4> QED
        BY <1>3, <4>2, <4>3
    <3>2. CASE ~Owns(d)
      <4>1. box'[r] = box[r]
        BY <1>4, <3>2
      <4>2. box[r].live => box[r].token # d
        BY <1>2, <1>8, <3>2 DEF BoxInv, Owns
      <4> QED
        BY <1>5, <4>1, <4>2 DEF Open, Attended, At
    <3> QED
      BY <3>1, <3>2
  <2>3. accepts'[r] + Cardinality(Trying(r) \ {d}) + (IF Open(r)' THEN 1 ELSE 0)
            - mishaps'
          <= accepts[r] + Cardinality(Trying(r)) + (IF Open(r) THEN 1 ELSE 0)
               - mishaps
    BY <1>4, <1>6, <2>1, <2>2
  <2> QED
    BY <1>2, <2>1, <2>3, BudgetKept
<1> QED
  BY <1>7, <1>8

(* Posting keeps the share, an answer spends or returns it, a lost answer  *)
(* and a crash are paid for by the mishap.                                 *)
LEMMA LocalBudget ==
  ASSUME OutboxInv, TypeOK', Budgets, NEW d \in Dispatchers, NEW r \in Runs,
         \/ Post(d) \/ (\E s \in HttpStatuses : Answer(d, s)) \/ Unreachable(d)
         \/ AnswerLost(d) \/ Crash(d)
  PROVE  Budget(r)'
<1> DEFINE r0 == disp[d].run
<1>1. TypeOK /\ Budget(r) /\ r0 \in Runs /\ ~At(d, "idle")
  BY DEF OutboxInv, Budgets, DispatcherInv, Post, Answer, Unreachable,
         AnswerLost, Crash, At
<1>2. box' = box /\ \A e \in Dispatchers \ {d} : disp'[e] = disp[e]
  BY <1>1 DEF TypeOK, Post, Answer, Unreachable, AnswerLost, Crash, Goto
<1>3. disp'[d].run \in {r0, NoRun} /\ NoRun \notin Runs
  BY <1>1, OutboxAssumption
     DEF TypeOK, Post, Answer, Unreachable, AnswerLost, Crash, Goto, Idle, Dispatcher
<1>4. /\ accepts[r] \in Nat /\ mishaps \in Nat
      /\ accepts'[r] \in Nat /\ mishaps' \in Nat
  BY <1>1 DEF TypeOK
<1>5. mishaps' = mishaps \/ mishaps' = mishaps + 1
  BY DEF Post, Answer, Unreachable, AnswerLost, Crash
<1>6. CASE r # r0
  <2>1. accepts'[r] = accepts[r]
    BY <1>1, <1>6 DEF TypeOK, Post, Answer, Unreachable, AnswerLost, Crash
  <2>2. mishaps' >= mishaps
    BY <1>4, <1>5
  <2> QED
    BY <1>1, <1>2, <1>3, <1>6, <2>1, <2>2, Untouched
<1>7. CASE r = r0 /\ Post(d)
  <2>1. disp'[d].pc = "posted" /\ disp'[d].run = r0 /\ disp[d].pc = "claimed"
    BY <1>1, <1>7 DEF Post, Goto, At, TypeOK, Dispatcher
  <2>2. Trying(r)' = Trying(r)
    BY <1>2, <2>1 DEF Trying
  <2>3. Open(r)' = Open(r)
    BY <1>2, <2>1 DEF Open, Attended, At
  <2>4. accepts' = accepts /\ mishaps' = mishaps
    BY <1>7 DEF Post
  <2>5. Cardinality(Trying(r)) \in Nat /\ IsFiniteSet(Trying(r))
    BY <1>1, FS_CardinalityType DEF Budget
  <2> QED
    BY <1>1, <1>4, <2>2, <2>3, <2>4, <2>5, BudgetKept
<1>8. CASE r = r0 /\ Crash(d)
  <2>1. disp'[d].run # r
    BY <1>1, <1>8, OutboxAssumption DEF Crash, TypeOK, Idle
  <2>2. accepts' = accepts /\ mishaps' = mishaps + 1
    BY <1>8 DEF Crash
  <2>3. /\ Trying(r)' = Trying(r) \ {d} /\ IsFiniteSet(Trying(r) \ {d})
        /\ Cardinality(Trying(r)) \in Nat /\ Cardinality(Trying(r) \ {d}) \in Nat
        /\ Cardinality(Trying(r) \ {d}) <= Cardinality(Trying(r))
    BY <1>1, <1>2, <2>1, StopsTrying DEF Budget
  <2>4. accepts'[r] + Cardinality(Trying(r) \ {d}) + (IF Open(r)' THEN 1 ELSE 0)
            - mishaps'
          <= accepts[r] + Cardinality(Trying(r)) + (IF Open(r) THEN 1 ELSE 0)
               - mishaps
    BY <1>4, <2>2, <2>3
  <2> QED
    BY <1>1, <2>3, <2>4, BudgetKept
<1>9. CASE /\ r = r0
           /\ (\E s \in HttpStatuses : Answer(d, s)) \/ Unreachable(d) \/ AnswerLost(d)
  <2>1. disp[d].pc = "posted"
    BY <1>9 DEF Answer, Unreachable, AnswerLost, At
  <2>2. /\ disp'[d].pc \in {"accepted", "failed", "refused"}
        /\ disp'[d].run = r0
    BY <1>1, <1>9 DEF Answer, Unreachable, AnswerLost, Goto, TypeOK, Dispatcher
  <2>3. /\ Trying(r)' = Trying(r) \ {d} /\ IsFiniteSet(Trying(r) \ {d})
        /\ Cardinality(Trying(r)) \in Nat /\ Cardinality(Trying(r) \ {d}) \in Nat
        /\ Cardinality(Trying(r) \ {d}) = Cardinality(Trying(r)) - 1
    <3>1. d \in Trying(r)
      BY <1>9, <2>1 DEF Trying
    <3> QED
      BY <1>1, <1>2, <2>2, <3>1, StopsTrying DEF Budget
  <2>4. disp'[d].pc # "failed" => Open(r)' = Open(r)
    BY <1>2, <2>1, <2>2 DEF Open, Attended, At
  <2>5. \/ accepts'[r] = accepts[r] /\ mishaps' = mishaps
        \/ accepts'[r] = accepts[r] + 1 /\ mishaps' = mishaps + 1
        \/ /\ accepts'[r] = accepts[r] + 1 /\ mishaps' = mishaps
           /\ disp'[d].pc = "accepted"
    BY <1>1, <1>9 DEF Answer, Unreachable, AnswerLost, Accepted, Goto, TypeOK,
                      Dispatcher
  <2>6. accepts'[r] + Cardinality(Trying(r) \ {d}) + (IF Open(r)' THEN 1 ELSE 0)
            - mishaps'
          <= accepts[r] + Cardinality(Trying(r)) + (IF Open(r) THEN 1 ELSE 0)
               - mishaps
    BY <1>4, <2>3, <2>4, <2>5
  <2> QED
    BY <1>1, <2>3, <2>6, BudgetKept
<1> QED
  BY <1>6, <1>7, <1>8, <1>9

(* The end of a run and the clock: a lease that runs out over a working    *)
(* dispatcher is a mishap, over a dead one the event was open before.      *)
LEMMA RowBudget ==
  ASSUME OutboxInv, TypeOK', Budgets, NEW r0 \in Runs, NEW r \in Runs,
         RunEnds(r0) \/ NextAttemptDue(r0) \/ LeaseExpires(r0) \/ Stall(r0)
  PROVE  Budget(r)'
<1>1. TypeOK /\ Budget(r) /\ BoxInv(r) /\ box[r] \in Box
  BY DEF OutboxInv, Budgets, TypeOK
<1>2. UNCHANGED <<disp, accepts>>
  BY DEF RunEnds, NextAttemptDue, LeaseExpires, Stall
<1>3. Trying(r)' = Trying(r)
  BY <1>2 DEF Trying
<1>4. Cardinality(Trying(r)) \in Nat /\ IsFiniteSet(Trying(r))
  BY <1>1, FS_CardinalityType DEF Budget
<1>5. accepts[r] \in Nat /\ mishaps \in Nat
  BY <1>1 DEF TypeOK
<1>6. CASE Stall(r0)
  BY <1>1, <1>2, <1>3, <1>4, <1>5, <1>6, BudgetKept DEF Stall
<1>7. CASE RunEnds(r0) \/ NextAttemptDue(r0) \/ LeaseExpires(r0)
  <2>1. mishaps' = mishaps
    BY <1>7 DEF RunEnds, NextAttemptDue, LeaseExpires
  <2>2. CASE r # r0
    <3>1. box'[r] = box[r]
      BY <1>1, <1>7, <2>2 DEF RunEnds, NextAttemptDue, LeaseExpires, Lapse, Set, TypeOK
    <3>2. Open(r)' = Open(r)
      BY <1>2, <3>1 DEF Open, Attended, At
    <3> QED
      BY <1>1, <1>2, <1>3, <1>4, <1>5, <2>1, <3>2, BudgetKept
  <2>3. CASE r = r0 /\ RunEnds(r)
    <3>1. Open(r)
      BY <1>1, <2>3 DEF RunEnds, BoxInv, Open, Attended, Settled
    <3> QED
      BY <1>1, <1>2, <1>3, <1>4, <1>5, <2>1, <3>1, BudgetKept
  <2>4. CASE r = r0 /\ NextAttemptDue(r)
    <3>1. Open(r)
      BY <1>1, <2>4 DEF NextAttemptDue, BoxInv, Open, Attended, Settled
    <3> QED
      BY <1>1, <1>2, <1>3, <1>4, <1>5, <2>1, <3>1, BudgetKept
  <2>5. CASE r = r0 /\ LeaseExpires(r)
    <3>1. Open(r)
      BY <1>1, <2>5
         DEF LeaseExpires, HolderAlive, Lapse, BoxInv, Open, Attended, Settled
    <3> QED
      BY <1>1, <1>2, <1>3, <1>4, <1>5, <2>1, <3>1, BudgetKept
  <2> QED
    BY <1>7, <2>2, <2>3, <2>4, <2>5
<1> QED
  BY <1>6, <1>7

(* Every step of the outbox stays within the budget of every run.          *)
LEMMA BudgetStep ==
  ASSUME OutboxInv, Budgets, [Next]_vars
  PROVE  Budgets'
<1>1. TypeOK'
  BY OutboxStep DEF OutboxInv
<1>2. SUFFICES ASSUME NEW r \in Runs PROVE Budget(r)'
  BY DEF Budgets
<1>3. CASE UNCHANGED vars
  BY <1>3 DEF Budgets, Budget, Trying, Open, Attended, At, vars
<1>4. CASE Next
  BY <1>1, <1>4, ClaimBudget, CompletionBudget, LocalBudget, RowBudget
     DEF Next, Deliver
<1> QED
  BY <1>3, <1>4

-----------------------------------------------------------------------------
(* The inductive invariant holds in every reachable state.                 *)
THEOREM OutboxInvariance == Spec => []OutboxInv
<1>1. Init => OutboxInv
  BY InitOutbox
<1>2. OutboxInv /\ [Next]_vars => OutboxInv'
  BY OutboxStep
<1> QED
  BY <1>1, <1>2, PTL DEF Spec

(* The callback columns and the dispatchers' locals hold what they may.    *)
THEOREM OutboxTypeCorrect == Spec => []TypeOK
<1>1. OutboxInv => TypeOK
  BY DEF OutboxInv
<1> QED
  BY <1>1, OutboxInvariance, PTL

(* What CallbackSucceeded records is true: the event was accepted.         *)
THEOREM DeliveryTruthful == Spec => []DeliveredWasAccepted
<1>1. OutboxInv => DeliveredWasAccepted
  BY DEF OutboxInv, BoxInv, DeliveredWasAccepted
<1> QED
  BY <1>1, OutboxInvariance, PTL

(* No wakeup is under way before the terminal status is committed.         *)
THEOREM WakeupAfterCommit == Spec => []DeliveryAfterTerminal
<1>1. OutboxInv => DeliveryAfterTerminal
  BY DEF OutboxInv, BoxInv, DispatcherInv, DeliveryAfterTerminal
<1> QED
  BY <1>1, OutboxInvariance, PTL

(* The delay of a postponed event is the one for its recorded failures.    *)
THEOREM BackoffOnSchedule == Spec => []ScheduleFollowed
<1>1. OutboxInv => ScheduleFollowed
  BY DEF OutboxInv, BoxInv, ScheduleFollowed
<1> QED
  BY <1>1, OutboxInvariance, PTL

(* A settled event is never touched again, by no dispatcher however late.  *)
THEOREM SettledForGood == Spec => SettledFinal
<1>1. OutboxInv /\ [Next]_vars => SettledStep
  BY OutboxStep
<1> QED
  BY <1>1, OutboxInvariance, PTL DEF Spec, SettledFinal, SettledStep

(* A wakeup is accepted more than once only because of a mishap: whatever  *)
(* number of dispatchers, the duplicates of a run never outnumber the      *)
(* crashes, stalls and lost answers.                                       *)
THEOREM DuplicatesHaveACause == Spec => []DuplicatesExplained
<1>1. Init => Budgets
  BY InitBudgets
<1>2. OutboxInv /\ Budgets /\ [Next]_vars => Budgets'
  BY BudgetStep
<1>3. OutboxInv /\ Budgets => DuplicatesExplained
  <2> SUFFICES ASSUME OutboxInv, NEW r \in Runs, Budget(r)
               PROVE  accepts[r] <= 1 + mishaps
    BY DEF Budgets, DuplicatesExplained
  <2>1. accepts[r] \in Nat /\ mishaps \in Nat
    BY DEF OutboxInv, TypeOK
  <2>2. Cardinality(Trying(r)) \in Nat
    BY FS_CardinalityType DEF Budget
  <2> QED
    BY <2>1, <2>2 DEF Budget
<1> QED
  BY <1>1, <1>2, <1>3, OutboxInvariance, PTL DEF Spec
=============================================================================
