---------------------------- MODULE RunLifecycle ----------------------------
(***************************************************************************)
(* What the asynchronous lifecycle promises a caller, with no workers,     *)
(* leases or retries in sight: the transitions a run's status may make,    *)
(* when its result may reach the authoritative store, and what a completed *)
(* run says about that result.  RunLedger implements this specification.   *)
(***************************************************************************)
CONSTANT Runs

VARIABLES
  status,     \* the status a poll of the run returns
  published,  \* the run's result is in the authoritative store
  answer      \* what the run's result reference says: see Answers

vars == <<status, published, answer>>

Statuses == {"absent", "queued", "running", "completed", "failed", "canceled"}
Terminal == {"completed", "failed", "canceled"}

(* "row" names a published row; "placeholder" says that none was written.  *)
Answers == {"none", "row", "placeholder"}

TypeOK ==
  /\ status \in [Runs -> Statuses]
  /\ published \in [Runs -> BOOLEAN]
  /\ answer \in [Runs -> Answers]

Init ==
  /\ status = [r \in Runs |-> "absent"]
  /\ published = [r \in Runs |-> FALSE]
  /\ answer = [r \in Runs |-> "none"]

Move(r, from, to) ==
  /\ status[r] = from
  /\ status' = [status EXCEPT ![r] = to]

Submit(r) == Move(r, "absent", "queued") /\ UNCHANGED <<published, answer>>
Start(r) == Move(r, "queued", "running") /\ UNCHANGED <<published, answer>>
Requeue(r) == Move(r, "running", "queued") /\ UNCHANGED <<published, answer>>

(* One sweep over the ledger may end several runs at once.                 *)
Drop(S, from, to) ==
  /\ S # {}
  /\ \A r \in S : status[r] \in from
  /\ status' = [r \in Runs |-> IF r \in S THEN to ELSE status[r]]
  /\ UNCHANGED <<published, answer>>

Fail(S) == Drop(S, {"running"}, "failed")

(* A run can be canceled only while nothing of it has been published ...   *)
Cancel(S) ==
  /\ \A r \in S : ~published[r]
  /\ Drop(S, {"queued", "running"}, "canceled")

(* ... and nothing of a canceled run is published afterwards.  A write      *)
(* that was under way when the run failed may still arrive.                *)
Publish(r) ==
  /\ status[r] \in {"queued", "running", "failed"}
  /\ published' = [published EXCEPT ![r] = TRUE]
  /\ UNCHANGED <<status, answer>>

(* A completed run names a row that is there, or says that there is none.  *)
Complete(r) ==
  /\ Move(r, "running", "completed")
  /\ \E a \in {"row", "placeholder"} :
       /\ a = "row" <=> published[r]
       /\ answer' = [answer EXCEPT ![r] = a]
  /\ UNCHANGED published

Next ==
  \/ \E r \in Runs :
       Submit(r) \/ Start(r) \/ Requeue(r) \/ Publish(r) \/ Complete(r)
  \/ \E S \in SUBSET Runs : Fail(S) \/ Cancel(S)

Spec == Init /\ [][Next]_vars
=============================================================================
