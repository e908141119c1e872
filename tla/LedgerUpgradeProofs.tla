------------------------ MODULE LedgerUpgradeProofs -------------------------
(***************************************************************************)
(* What start-up and the synchronous path guarantee for any number of      *)
(* replicas and runs, any ledger an earlier release can have left, and     *)
(* however many processes die.                                             *)
(***************************************************************************)
EXTENDS LedgerUpgrade, TLAPS

(* Every row, in whichever table: a synchronous row is never work and has  *)
(* no callback, a completed durable one has a result, and the event agrees *)
(* with the status and with how it was settled.                            *)
RowInv(x) ==
  /\ x \in Row
  /\ x.pending => x.response # "none"
  /\ IF x.durable
       THEN /\ x.status # "NULL"
            /\ x.status = "completed" => x.response # "none"
       ELSE x.status \in {"NULL", "completed", "failed"} /\ ~x.url
  /\ ~x.url => x.event = "NULL" /\ x.settled = "no"
  /\ x.settled # "no" => x.status \in Terminal /\ x.event \in {"NULL", x.settled}
  /\ x.event \in Settled => x.settled = x.event
  /\ x.event = "waiting" => x.status \notin Terminal
  /\ x.event = "pending" => x.status \in Terminal

(* A completed durable run was published, and its bytes, where the ledger  *)
(* has them, are the published ones.                                       *)
PublishedInv(r) ==
  row[r].durable /\ row[r].status = "completed" /\ configured =>
    sink[r] # "none" /\ row[r].payload \in {"none", sink[r]}

(* There is one table, or there were two from the start; rows are in       *)
(* tables that exist, and none is lost.                                    *)
TablesInv ==
  /\ oldTable /\ newTable => start.oldTable /\ start.newTable
  /\ \A r \in Runs :
       /\ where[r] = "old" => oldTable
       /\ where[r] = "new" => newTable
       /\ start.where[r] # "nowhere" => where[r] # "nowhere"

(* Nothing is left for renameLegacyLedger to do.                           *)
Renamed == newTable \/ ~oldTable

AfterDrop == {"create", "columns", "status", "callback", "backfill", "serving"}
AfterCreate == AfterDrop \ {"create"}
AfterColumns == AfterCreate \ {"columns"}

(* What each statement of start-up achieved still holds: no other replica, *)
(* however far it is, undoes it.                                           *)
StartInv(p) ==
  /\ pc[p] \in AfterDrop \union {"drop"} => Renamed
  /\ pc[p] \in AfterDrop /\ newTable => "match" \notin columns
  /\ pc[p] \in AfterCreate => newTable
  /\ pc[p] \in AfterColumns => LifecycleColumns \subseteq columns
  /\ pc[p] \in {"backfill", "serving"} =>
       \A r \in Runs : InTable(r) /\ row[r].url => row[r].event # "NULL"
  /\ pc[p] = "serving" =>
       \A r \in Runs : InTable(r) /\ row[r].durable /\ row[r].status = "completed"
                         => row[r].payload # "none"

(* The synchronous path knows what it published, and the ledger has the    *)
(* run only once Add has put it there, as it was answered.                 *)
CallInv(r) ==
  /\ sink[r] \in {"none", "original"}
  /\ IF call[r].status = "storage-failed" THEN call[r].content = "degraded"
                                          ELSE call[r].content \in {"none", "original"}
  /\ call[r].step \notin {"idle", "refused", "dead"} => call[r].content # "none"
  /\ call[r].malfunction => call[r].status # "completed"
  /\ call[r].step \in {"publish", "merge", "verify"} =>
       call[r].status \in {"completed", "failed"}
  /\ call[r].step \in {"add", "answer", "answered"} =>
       (call[r].status = "completed" /\ configured => sink[r] = "original")
  /\ where[r] # "nowhere" =>
       /\ ~row[r].durable
       /\ call[r].step \in {"answer", "answered", "dead"}
       /\ row[r].response = call[r].content

(* The inductive invariant.                                                *)
UpgradeInv ==
  /\ TypeOK
  /\ start \in Ledgers
  /\ TablesInv
  /\ \A p \in Replicas : StartInv(p)
  /\ \A r \in Runs : RowInv(row[r]) /\ PublishedInv(r)
  /\ \A r \in SyncRuns : CallInv(r)

(* How a statement or a worker may change a row: it stays consistent, an   *)
(* event once filled in is not forgotten, a run is completed with its      *)
(* bytes or was before, and a synchronous record is left alone.            *)
RowStep(x, y) ==
  /\ RowInv(y)
  /\ y.durable = x.durable /\ y.url = x.url
  /\ x.event # "NULL" => y.event # "NULL"
  /\ y.durable /\ y.status = "completed" =>
       y.payload = x.payload /\ (x.status = "completed" \/ y.payload # "none")
  /\ ~x.durable =>
       y.response = x.response /\ y.payload = x.payload /\ y.event = x.event

(* What no step undoes: a table that is there, its columns, and that a row *)
(* in it stays there.  Only Add puts further rows in once the ledger has   *)
(* its name.                                                               *)
LedgerStable ==
  /\ oldTable' => oldTable
  /\ newTable => newTable' /\ columns \ {"match"} \subseteq columns'
  /\ Renamed /\ newTable' /\ "match" \in columns' => newTable /\ "match" \in columns
  /\ Renamed => \A r \in Runs : where'[r] = "new" =>
       \/ where[r] = "new" /\ RowStep(row[r], row'[r])
       \/ ~row'[r].url /\ ~row'[r].durable

(* One step's discipline for synchronous records.                          *)
FrozenStep ==
  \A r \in Runs : InTable(r) /\ ~row[r].durable =>
    /\ InTable(r)' /\ ~row[r].durable'
    /\ row'[r].response = row[r].response /\ row'[r].payload = row[r].payload
    /\ row'[r].event = row[r].event

(* The part of the invariant that is about the ledger alone.               *)
LedgerInv ==
  /\ start \in Ledgers /\ TablesInv
  /\ \A r \in Runs : RowInv(row[r]) /\ PublishedInv(r)

-----------------------------------------------------------------------------
(* The columns the migration adds do not include the verdict column.       *)
LEMMA ColumnFacts ==
  LifecycleColumns = {"status", "payload", "callback_url", "callback_state"}
<1>1. DOMAIN ColumnOrder = {1, 2, 3, 4}
  BY DEF ColumnOrder
<1>2. /\ ColumnOrder[1] = "status" /\ ColumnOrder[2] = "payload"
      /\ ColumnOrder[3] = "callback_url" /\ ColumnOrder[4] = "callback_state"
  BY DEF ColumnOrder
<1> QED
  BY <1>1, <1>2 DEF LifecycleColumns

(* A row may stay as it is.                                                *)
LEMMA RowStays ==
  ASSUME NEW x, RowInv(x)
  PROVE  RowStep(x, x)
BY DEF RowStep

(* FillStatus ends rows without a status, which are synchronous ones.      *)
LEMMA StatusRow ==
  ASSUME NEW x, RowInv(x)
  PROVE  /\ RowStep(x, StatusFilled(x))
         /\ x.durable => StatusFilled(x).status = x.status
<1>1. CASE x.status # "NULL"
  BY <1>1, RowStays DEF StatusFilled
<1>2. CASE x.status = "NULL"
  <2> DEFINE s == IF x.malfunction THEN "failed" ELSE "completed"
             y == [x EXCEPT !.status = s]
  <2>1. x \in Row /\ ~x.durable /\ s \in {"failed", "completed"}
    BY <1>2 DEF RowInv
  <2> HIDE DEF s
  <2>2. /\ y \in Row /\ y.status = s /\ y.durable = x.durable /\ y.url = x.url
        /\ y.pending = x.pending /\ y.response = x.response
        /\ y.payload = x.payload /\ y.event = x.event /\ y.settled = x.settled
    BY <2>1 DEF Row, Statuses
  <2>3. StatusFilled(x) = y
    BY <1>2 DEF StatusFilled, s
  <2> HIDE DEF y
  <2>4. RowInv(y)
    BY <1>2, <2>1, <2>2 DEF RowInv, Terminal, Settled
  <2> QED
    BY <2>1, <2>2, <2>3, <2>4 DEF RowStep
<1> QED
  BY <1>1, <1>2

(* FillEvents gives an event to a row that asked for one, to match it.     *)
LEMMA EventRow ==
  ASSUME NEW x, RowInv(x)
  PROVE  /\ RowStep(x, EventFilled(x)) /\ EventFilled(x).status = x.status
         /\ x.url => EventFilled(x).event # "NULL"
<1>1. CASE ~(x.url /\ x.event = "NULL")
  BY <1>1, RowStays DEF EventFilled
<1>2. CASE x.url /\ x.event = "NULL"
  <2> DEFINE e == CASE x.settled # "no" -> x.settled
                    [] x.settled = "no" /\ x.status \in Terminal -> "pending"
                    [] OTHER -> "waiting"
             y == [x EXCEPT !.event = e]
  <2>1. x \in Row /\ x.settled \in Settled \union {"no"}
    BY DEF RowInv, Row
  <2>2. /\ e = IF x.settled # "no" THEN x.settled
               ELSE IF x.status \in Terminal THEN "pending" ELSE "waiting"
        /\ e \in Events \ {"NULL"}
    BY <2>1 DEF Events, Settled
  <2>3. EventFilled(x) = y
    BY <1>2 DEF EventFilled
  <2> HIDE DEF e
  <2>4. /\ y \in Row /\ y.event = e /\ y.durable = x.durable /\ y.url = x.url
        /\ y.pending = x.pending /\ y.response = x.response
        /\ y.payload = x.payload /\ y.status = x.status /\ y.settled = x.settled
    BY <2>1, <2>2 DEF Row
  <2> HIDE DEF y
  <2>5. RowInv(y)
    BY <1>2, <2>1, <2>2, <2>4 DEF RowInv, Settled
  <2>6. x.durable
    BY <1>2 DEF RowInv
  <2>7. RowStep(x, y)
    BY <1>2, <2>2, <2>4, <2>5, <2>6 DEF RowStep, RowInv
  <2> QED
    BY <2>2, <2>3, <2>4, <2>7
<1> QED
  BY <1>1, <1>2

(* The backfill rewrites results that cannot have been published.          *)
LEMMA PayloadRow ==
  ASSUME NEW x, RowInv(x)
  PROVE  RowStep(x, PayloadRebuilt(x)) /\ PayloadRebuilt(x).status = x.status
<1>1. CASE ~(LacksPayload(x) /\ ~MayBePublished(x))
  BY <1>1, RowStays DEF PayloadRebuilt
<1>2. CASE LacksPayload(x) /\ ~MayBePublished(x)
  <2> DEFINE y == [x EXCEPT !.response = "rebuilt", !.payload = "rebuilt"]
  <2>1. x \in Row /\ x.durable /\ x.status # "completed" /\ ~x.pending
    BY <1>2 DEF RowInv, LacksPayload, MayBePublished
  <2>2. /\ y \in Row /\ y.event = x.event /\ y.durable = x.durable /\ y.url = x.url
        /\ y.pending = x.pending /\ y.response = "rebuilt"
        /\ y.payload = "rebuilt" /\ y.status = x.status /\ y.settled = x.settled
    BY <2>1 DEF Row, Contents
  <2>3. PayloadRebuilt(x) = y
    BY <1>2 DEF PayloadRebuilt
  <2> HIDE DEF y
  <2>4. RowInv(y)
    BY <2>1, <2>2 DEF RowInv
  <2> QED
    BY <2>1, <2>2, <2>3, <2>4 DEF RowStep
<1> QED
  BY <1>1, <1>2

(* A terminal statement of a worker or of a cancellation.                  *)
LEMMA EndedRow ==
  ASSUME NEW x, RowInv(x), x.durable, x.status \in {"queued", "running"},
         NEW status \in Terminal,
         status = "completed" => x.payload # "none" /\ x.response # "none"
  PROVE  /\ RowStep(x, Ended(x, status)) /\ Ended(x, status).status = status
         /\ Ended(x, status).payload = x.payload
<1> DEFINE e == IF x.url THEN "pending" ELSE x.event
           y == [x EXCEPT !.status = status, !.pending = FALSE, !.event = e]
<1>1. x \in Row /\ x.settled = "no" /\ e \in Events
  BY DEF RowInv, Row, Events, Terminal
<1>2. Ended(x, status) = y
  BY <1>1 DEF Ended
<1>3. e = (IF x.url THEN "pending" ELSE x.event)
  OBVIOUS
<1> HIDE DEF e
<1>4. /\ y \in Row /\ y.event = e /\ y.durable = x.durable /\ y.url = x.url
      /\ ~y.pending /\ y.response = x.response
      /\ y.payload = x.payload /\ y.status = status /\ y.settled = x.settled
  BY <1>1 DEF Row, Statuses, Terminal
<1> HIDE DEF y
<1>5. RowInv(y)
  BY <1>1, <1>3, <1>4 DEF RowInv, Terminal, Settled
<1>6. RowStep(x, y)
  BY <1>3, <1>4, <1>5 DEF RowStep
<1> QED
  BY <1>2, <1>4, <1>6

(* The outcome of a malfunction, stored with or without a result.          *)
LEMMA FailedRow ==
  ASSUME NEW x, RowInv(x), x.durable, x.status \in {"queued", "running"},
         NEW y, \/ y = [Ended(x, "failed") EXCEPT !.malfunction = TRUE]
                \/ y = [Ended(x, "failed") EXCEPT !.malfunction = TRUE,
                                                  !.response = "original"]
  PROVE  RowStep(x, y) /\ y.status = "failed"
<1> DEFINE z == Ended(x, "failed")
<1>1. RowStep(x, z) /\ z.status = "failed"
  BY EndedRow DEF Terminal
<1>2. z \in Row /\ RowInv(z)
  BY <1>1 DEF RowStep, RowInv
<1>3. \/ y = [z EXCEPT !.malfunction = TRUE]
      \/ y = [z EXCEPT !.malfunction = TRUE, !.response = "original"]
  OBVIOUS
<1> HIDE DEF z
<1>4. /\ y \in Row /\ y.event = z.event /\ y.durable = z.durable /\ y.url = z.url
      /\ y.pending = z.pending /\ y.response \in {z.response, "original"}
      /\ y.payload = z.payload /\ y.status = z.status /\ y.settled = z.settled
  <2>1. CASE y = [z EXCEPT !.malfunction = TRUE]
    BY ONLY <1>2, <2>1 DEF Row
  <2>2. CASE y = [z EXCEPT !.malfunction = TRUE, !.response = "original"]
    <3>1. "original" \in Contents
      BY DEF Contents
    <3> QED
      BY ONLY <1>2, <2>2, <3>1 DEF Row
  <2> QED
    BY <1>3, <2>1, <2>2
<1>5. RowInv(y)
  BY <1>1, <1>2, <1>4 DEF RowInv
<1> QED
  BY <1>1, <1>4, <1>5 DEF RowStep

(* What a worker or a dispatcher does to the row of a durable run; a run   *)
(* it completes has its bytes in the result table, if there is one.        *)
LEMMA WorkerRow ==
  ASSUME UpgradeInv, NEW r \in Runs, WorkerStep(r), ~Publish(r)
  PROVE  /\ UNCHANGED sink /\ WorkerKeeps /\ InTable(r) /\ row[r].durable
         /\ \E y : row' = [row EXCEPT ![r] = y] /\ RowStep(row[r], y)
                    /\ (y.status = "completed" /\ configured =>
                          \/ row[r].status = "completed"
                          \/ y.payload # "none" /\ sink[r] = y.payload)
<1> DEFINE x == row[r]
<1>1. TypeOK /\ RowInv(x) /\ x \in Row
  BY DEF UpgradeInv, RowInv
<1>2. UNCHANGED sink /\ WorkerKeeps
  BY DEF WorkerStep, StageOutcome, FailOutcome, MarkPublicationPending,
         RetryVerification, CompletePublished, GiveUp, Dispatch
<1>3. InTable(r) /\ x.durable
  BY <1>1 DEF WorkerStep, StageOutcome, FailOutcome, MarkPublicationPending,
         RetryVerification, CompletePublished, GiveUp, Dispatch, Workable, RowInv
<1>4. CASE StageOutcome(r)
  <2> DEFINE y == [x EXCEPT !.status = "running", !.response = "original",
                            !.payload = "original"]
  <2>1. row' = [row EXCEPT ![r] = y]
    BY <1>1, <1>4 DEF StageOutcome, TypeOK
  <2>2. x.status \in {"queued", "running"}
    BY <1>4 DEF StageOutcome, Workable
  <2>3. /\ y \in Row /\ y.event = x.event /\ y.durable = x.durable /\ y.url = x.url
        /\ y.pending = x.pending /\ y.response = "original"
        /\ y.status = "running" /\ y.settled = x.settled
    BY <1>1 DEF Row, Contents, Statuses
  <2> HIDE DEF y
  <2>4. RowInv(y)
    BY <1>1, <1>3, <2>2, <2>3 DEF RowInv, Terminal
  <2>5. RowStep(x, y)
    BY <1>3, <2>3, <2>4 DEF RowStep
  <2> QED
    BY <1>2, <1>3, <2>1, <2>3, <2>5
<1>5. CASE MarkPublicationPending(r)
  <2> DEFINE y == [x EXCEPT !.status = "running", !.pending = TRUE]
  <2>1. row' = [row EXCEPT ![r] = y]
    BY <1>1, <1>5 DEF MarkPublicationPending, TypeOK
  <2>2. x.status \in {"queued", "running"} /\ x.response # "none"
    BY <1>5 DEF MarkPublicationPending, Workable
  <2>3. /\ y \in Row /\ y.event = x.event /\ y.durable = x.durable /\ y.url = x.url
        /\ y.pending /\ y.response = x.response
        /\ y.status = "running" /\ y.settled = x.settled
    BY <1>1 DEF Row, Statuses
  <2> HIDE DEF y
  <2>4. RowInv(y)
    BY <1>1, <1>3, <2>2, <2>3 DEF RowInv, Terminal
  <2>5. RowStep(x, y)
    BY <1>3, <2>3, <2>4 DEF RowStep
  <2> QED
    BY <1>2, <1>3, <2>1, <2>3, <2>5
<1>6. CASE RetryVerification(r)
  <2> DEFINE y == [x EXCEPT !.status = "queued"]
  <2>1. row' = [row EXCEPT ![r] = y]
    BY <1>1, <1>6 DEF RetryVerification, TypeOK
  <2>2. x.status \in {"queued", "running"}
    BY <1>6 DEF RetryVerification, Workable
  <2>3. /\ y \in Row /\ y.event = x.event /\ y.durable = x.durable /\ y.url = x.url
        /\ y.pending = x.pending /\ y.response = x.response
        /\ y.status = "queued" /\ y.settled = x.settled
    BY <1>1 DEF Row, Statuses
  <2> HIDE DEF y
  <2>4. RowInv(y)
    BY <1>1, <1>3, <2>2, <2>3 DEF RowInv, Terminal
  <2>5. RowStep(x, y)
    BY <1>3, <2>3, <2>4 DEF RowStep
  <2> QED
    BY <1>2, <1>3, <2>1, <2>3, <2>5
<1>7. CASE Dispatch(r)
  <2>1. PICK v \in Settled :
          row' = [row EXCEPT ![r].event = v, ![r].settled = v]
    BY <1>7 DEF Dispatch
  <2> DEFINE y == [x EXCEPT !.event = v, !.settled = v]
  <2>2. row' = [row EXCEPT ![r] = y]
    BY <1>1, <2>1 DEF TypeOK
  <2>3. x.event = "pending"
    BY <1>7 DEF Dispatch
  <2>4. /\ y \in Row /\ y.event = v /\ y.durable = x.durable /\ y.url = x.url
        /\ y.pending = x.pending /\ y.response = x.response
        /\ y.payload = x.payload /\ y.status = x.status /\ y.settled = v
    BY <1>1 DEF Row, Events
  <2> HIDE DEF y
  <2>5. RowInv(y)
    BY <1>1, <1>3, <2>3, <2>4 DEF RowInv, Terminal, Settled
  <2>6. v # "NULL"
    BY DEF Settled
  <2>7. RowStep(x, y)
    BY <1>3, <2>4, <2>5, <2>6 DEF RowStep
  <2> QED
    BY <1>2, <1>3, <2>2, <2>4, <2>7
<1>8. CASE CompletePublished(r)
  <2>1. row' = [row EXCEPT ![r] = Ended(x, "completed")]
    BY <1>8 DEF CompletePublished
  <2>2. /\ x.status \in {"queued", "running"} /\ x.payload # "none"
        /\ x.response # "none"
        /\ configured => sink[r] = x.payload
    BY <1>1, <1>8 DEF CompletePublished, Workable, RowInv
  <2>3. RowStep(x, Ended(x, "completed")) /\ Ended(x, "completed").payload = x.payload
    BY <1>1, <1>3, <2>2, EndedRow DEF Terminal
  <2> QED
    BY <1>2, <1>3, <2>1, <2>2, <2>3
<1>9. CASE FailOutcome(r) \/ GiveUp(r)
  <2>1. x.status \in {"queued", "running"}
    BY <1>9 DEF FailOutcome, GiveUp, Workable
  <2>2. CASE row' = [row EXCEPT ![r] = Ended(@, "canceled")]
    <3>1. RowStep(x, Ended(x, "canceled")) /\ Ended(x, "canceled").status = "canceled"
      BY <1>1, <1>3, <2>1, EndedRow DEF Terminal
    <3> QED
      BY <1>2, <1>3, <2>2, <3>1
  <2>3. CASE row' # [row EXCEPT ![r] = Ended(@, "canceled")]
    <3>1. PICK y : /\ row' = [row EXCEPT ![r] = y]
                   /\ \/ y = [Ended(x, "failed") EXCEPT !.malfunction = TRUE]
                      \/ y = [Ended(x, "failed") EXCEPT !.malfunction = TRUE,
                                                        !.response = "original"]
      BY <1>9, <2>3 DEF FailOutcome, GiveUp
    <3>2. RowStep(x, y) /\ y.status = "failed"
      BY <1>1, <1>3, <2>1, <3>1, FailedRow
    <3> QED
      BY <1>2, <1>3, <3>1, <3>2
  <2> QED
    BY <2>2, <2>3
<1> QED
  BY <1>4, <1>5, <1>6, <1>7, <1>8, <1>9 DEF WorkerStep

-----------------------------------------------------------------------------
(* A ledger an earlier release left is consistent.                         *)
LEMMA PossibleRowConsistent ==
  ASSUME NEW x, PossibleRow(x) \/ x = NoRow
  PROVE  RowInv(x)
<1>1. CASE x = NoRow
  <2>1. NoRow \in Row
    BY DEF NoRow, Row, Statuses, Contents, Events, Settled
  <2> QED
    BY <1>1, <2>1 DEF RowInv, NoRow, Settled
<1>2. CASE PossibleRow(x)
  BY <1>2 DEF PossibleRow, RowInv
<1> QED
  BY <1>1, <1>2

(* Start-up begins in the invariant, whatever ledger it finds.             *)
LEMMA InitUpgrade == Init => UpgradeInv
<1> SUFFICES ASSUME Init PROVE UpgradeInv
  OBVIOUS
<1>1. start \in Ledgers /\ PossibleLedger(start)
  BY LedgersArePossible DEF Init
<1>2. NoCall \in Calls
  BY DEF NoCall, Calls, Contents
<1>3. TypeOK
  BY <1>1, <1>2, MaxFaultsIsNat DEF Init, TypeOK, PossibleLedger, Steps
<1>4. TablesInv
  BY <1>1 DEF Init, TablesInv, PossibleLedger
<1>5. ASSUME NEW p \in Replicas PROVE StartInv(p)
  BY DEF Init, StartInv, AfterDrop, AfterCreate, AfterColumns
<1>6. ASSUME NEW r \in Runs PROVE RowInv(row[r]) /\ PublishedInv(r)
  <2>1. PossibleRow(row[r]) \/ row[r] = NoRow
    BY <1>1 DEF Init, PossibleLedger
  <2>2. RowInv(row[r])
    BY <2>1, PossibleRowConsistent
  <2>3. row[r].durable /\ row[r].status = "completed" /\ configured =>
          sink[r] = "original" /\ row[r].payload \in {"none", "original"}
    BY <1>1, <2>1 DEF Init, PossibleLedger, PossibleRow, NoRow
  <2> QED
    BY <2>2, <2>3 DEF PublishedInv
<1>7. ASSUME NEW r \in SyncRuns PROVE CallInv(r)
  <2>1. where[r] = "nowhere" /\ row[r] = NoRow
    BY <1>1 DEF Init, PossibleLedger, Runs
  <2>2. sink[r] = "none"
    BY <1>1, <2>1 DEF Init, PossibleLedger, Runs, NoRow
  <2>3. call[r] = NoCall
    BY DEF Init
  <2> QED
    BY <2>1, <2>2, <2>3 DEF CallInv, NoCall
<1> QED
  BY <1>1, <1>3, <1>4, <1>5, <1>6, <1>7 DEF UpgradeInv

-----------------------------------------------------------------------------
(* What a replica has achieved survives any stable step.                   *)
LEMMA StartKept ==
  ASSUME UpgradeInv, LedgerStable, NEW p \in Replicas,
         pc'[p] = pc[p] \/ pc'[p] \in {"down", "rename"}
  PROVE  StartInv(p)'
<1>1. CASE pc'[p] \in {"down", "rename"}
  BY <1>1 DEF StartInv, AfterDrop, AfterCreate, AfterColumns
<1>2. CASE pc'[p] = pc[p]
  <2>1. StartInv(p)
    BY DEF UpgradeInv
  <2>2. Renamed => Renamed'
    BY DEF LedgerStable, Renamed
  <2>3. "match" \notin LifecycleColumns
    BY ColumnFacts
  <2>4. pc[p] \in AfterDrop \union {"drop"} => Renamed
    BY <2>1 DEF StartInv
  <2>5. pc[p] \in AfterDrop /\ newTable' => "match" \notin columns'
    BY <2>1, <2>4 DEF StartInv, LedgerStable
  <2>6. pc[p] \in AfterCreate => newTable /\ newTable'
    BY <2>1 DEF StartInv, LedgerStable
  <2>7. pc[p] \in AfterColumns => LifecycleColumns \subseteq columns'
    BY <2>1, <2>3, <2>6 DEF StartInv, LedgerStable, AfterColumns, AfterCreate
  <2>8. pc[p] \in {"backfill", "serving"} => Renamed
    BY <2>4 DEF AfterDrop
  <2>9. pc[p] \in {"backfill", "serving"} =>
          \A r \in Runs : where'[r] = "new" /\ row'[r].url => row'[r].event # "NULL"
    BY <2>1, <2>8 DEF StartInv, LedgerStable, RowStep, InTable
  <2>10. pc[p] = "serving" =>
           \A r \in Runs : where'[r] = "new" /\ row'[r].durable
                              /\ row'[r].status = "completed" => row'[r].payload # "none"
    BY <2>1, <2>8 DEF StartInv, LedgerStable, RowStep, InTable
  <2> QED
    BY <1>2, <2>2, <2>4, <2>5, <2>6, <2>7, <2>9, <2>10 DEF StartInv, InTable
<1> QED
  BY <1>1, <1>2

(* A step that moves no row and follows the rules for each keeps the       *)
(* ledger consistent.                                                      *)
LEMMA RowsFollow ==
  ASSUME UpgradeInv, UNCHANGED <<start, configured, oldTable, newTable, columns, where>>,
         \A r \in Runs :
           /\ RowStep(row[r], row'[r])
           /\ sink[r] # "none" => sink'[r] = sink[r]
           /\ row'[r].durable /\ row'[r].status = "completed" /\ configured =>
                \/ row[r].status = "completed"
                \/ row'[r].payload # "none" /\ sink'[r] = row'[r].payload
  PROVE  LedgerInv' /\ LedgerStable /\ FrozenStep
<1>1. start' \in Ledgers /\ TablesInv'
  BY DEF UpgradeInv, TablesInv
<1>2. ASSUME NEW r \in Runs PROVE RowInv(row[r])' /\ PublishedInv(r)'
  <2>1. RowInv(row'[r])
    BY DEF RowStep
  <2>2. PublishedInv(r)
    BY DEF UpgradeInv
  <2>3. PublishedInv(r)'
    BY <2>2 DEF PublishedInv, RowStep
  <2> QED
    BY <2>1, <2>3
<1>3. LedgerStable
  BY DEF LedgerStable
<1>4. FrozenStep
  BY DEF FrozenStep, InTable, RowStep
<1> QED
  BY <1>1, <1>2, <1>3, <1>4 DEF LedgerInv

(* A step that changes nothing in the ledger and only adds to the results. *)
LEMMA LedgerUntouched ==
  ASSUME UpgradeInv, UNCHANGED <<start, configured>>, UNCHANGED ledgerVars,
         \A r \in Runs : sink[r] # "none" => sink'[r] = sink[r]
  PROVE  LedgerInv' /\ LedgerStable /\ FrozenStep
<1>1. UNCHANGED <<start, configured, oldTable, newTable, columns, where, row>>
  BY DEF ledgerVars
<1>2. ASSUME NEW r \in Runs PROVE RowStep(row[r], row'[r])
  BY <1>1, RowStays DEF UpgradeInv
<1>3. ASSUME NEW r \in Runs PROVE row'[r].status = row[r].status
  BY <1>1
<1> QED
  BY <1>1, <1>2, <1>3, RowsFollow

(* A call that a step does not touch.                                      *)
LEMMA CallKept ==
  ASSUME UpgradeInv, NEW r \in SyncRuns, UNCHANGED configured,
         call'[r] = call[r], sink'[r] = sink[r],
         where'[r] # "nowhere" =>
           where[r] # "nowhere" /\ RowStep(row[r], row'[r])
  PROVE  CallInv(r)'
<1>1. CallInv(r)
  BY DEF UpgradeInv
<1> QED
  BY <1>1 DEF CallInv, RowStep

(* The parts of the invariant make it up.                                  *)
LEMMA Assembled ==
  ASSUME TypeOK', LedgerInv', \A p \in Replicas : StartInv(p)',
         \A r \in SyncRuns : CallInv(r)'
  PROVE  UpgradeInv'
BY DEF UpgradeInv, LedgerInv

-----------------------------------------------------------------------------
(* Start-up: the step that only starts a process.                          *)
LEMMA NewRunStoreStep ==
  ASSUME UpgradeInv, NEW p \in Replicas, NewRunStore(p)
  PROVE  UpgradeInv' /\ FrozenStep
<1>1. /\ TypeOK /\ pc' = [pc EXCEPT ![p] = "rename"]
      /\ UNCHANGED <<start, sink, configured, faults>>
      /\ UNCHANGED ledgerVars /\ UNCHANGED callVars
  BY DEF UpgradeInv, NewRunStore, Goto
<1>2. TypeOK'
  BY <1>1 DEF TypeOK, ledgerVars, callVars, Steps, Starting
<1>3. LedgerInv' /\ LedgerStable /\ FrozenStep
  BY <1>1, LedgerUntouched
<1>4. \A q \in Replicas : pc'[q] = pc[q] \/ pc'[q] \in {"down", "rename"}
  BY <1>1 DEF TypeOK
<1>5. ASSUME NEW q \in Replicas PROVE StartInv(q)'
  BY <1>3, <1>4, StartKept
<1>6. ASSUME NEW r \in SyncRuns PROVE CallInv(r)'
  <2>1. RowStep(row[r], row'[r])
    BY <1>1, RowStays DEF UpgradeInv, ledgerVars, Runs
  <2> QED
    BY <1>1, <2>1, CallKept DEF ledgerVars, callVars
<1> QED
  BY <1>2, <1>3, <1>5, <1>6, Assembled

(* The rename moves all rows of the old table, and only when there is no   *)
(* new one; after that it is never done again.                             *)
LEMMA RenameStep ==
  ASSUME UpgradeInv, NEW p \in Replicas, renameLegacyLedger(p)
  PROVE  UpgradeInv' /\ FrozenStep
<1>1. /\ TypeOK /\ TablesInv /\ pc' = [pc EXCEPT ![p] = "drop"]
      /\ UNCHANGED <<columns, row, start, sink, configured, call, merging, faults>>
  BY DEF UpgradeInv, renameLegacyLedger, Goto, callVars
<1>2. \/ /\ oldTable /\ ~newTable /\ ~oldTable' /\ newTable'
         /\ oldTable' \in BOOLEAN /\ newTable' \in BOOLEAN
         /\ where' = [r \in Runs |-> IF where[r] = "old" THEN "new" ELSE where[r]]
      \/ Renamed /\ UNCHANGED <<oldTable, newTable, where>>
  BY <1>1 DEF renameLegacyLedger, Renamed, TypeOK
<1>3. TypeOK'
  BY <1>1, <1>2 DEF TypeOK, Steps, Starting
<1>4. ASSUME NEW r \in Runs
      PROVE  /\ where'[r] # "nowhere" => where[r] # "nowhere"
             /\ where[r] = "new" => where'[r] = "new"
  <2>1. CASE UNCHANGED <<oldTable, newTable, where>>
    BY <2>1
  <2>2. CASE where'[r] = IF where[r] = "old" THEN "new" ELSE where[r]
    BY <2>2
  <2> QED
    BY <1>2, <2>1, <2>2
<1>5. TablesInv'
  BY <1>1, <1>2 DEF TablesInv, TypeOK
<1>6. ASSUME NEW r \in Runs
      PROVE  RowInv(row[r])' /\ PublishedInv(r)' /\ RowStep(row[r], row'[r])
  <2>1. RowInv(row[r]) /\ PublishedInv(r)
    BY DEF UpgradeInv
  <2> QED
    BY <1>1, <2>1, RowStays DEF PublishedInv
<1>7. LedgerStable
  BY <1>1, <1>2, <1>6 DEF LedgerStable, Renamed
<1>8. FrozenStep
  <2> SUFFICES ASSUME NEW r \in Runs, InTable(r), ~row[r].durable
               PROVE  where'[r] = "new"
    BY <1>1 DEF FrozenStep, InTable
  <2> QED
    BY <1>4 DEF InTable
<1>9. ASSUME NEW q \in Replicas PROVE StartInv(q)'
  <2>1. CASE q = p
    <3>1. pc'[q] = "drop"
      BY <1>1, <2>1 DEF TypeOK
    <3> QED
      BY <1>2, <3>1 DEF StartInv, AfterDrop, AfterCreate, AfterColumns, Renamed
  <2>2. CASE q # p
    <3>1. pc'[q] = pc[q]
      BY <1>1, <2>2 DEF TypeOK
    <3> QED
      BY <1>7, <3>1, StartKept
  <2> QED
    BY <2>1, <2>2
<1>10. ASSUME NEW r \in SyncRuns PROVE CallInv(r)'
  <2>1. r \in Runs
    BY DEF Runs
  <2> QED
    BY <1>1, <1>4, <1>6, <2>1, CallKept
<1>11. LedgerInv'
  BY <1>1, <1>5, <1>6 DEF UpgradeInv, LedgerInv
<1> QED
  BY <1>3, <1>8, <1>9, <1>10, <1>11, Assembled

(* The statements on the table and its columns.                            *)
LEMMA SchemaStep ==
  ASSUME UpgradeInv, NEW p \in Replicas,
         DropMatch(p) \/ CreateTable(p) \/ AddColumn(p)
  PROVE  UpgradeInv' /\ FrozenStep
<1>1. /\ TypeOK /\ TablesInv /\ StartInv(p)
      /\ UNCHANGED <<oldTable, where, row, start, sink, configured, call, merging,
                     faults>>
  BY DEF UpgradeInv, DropMatch, CreateTable, AddColumn, callVars
<1>2. LifecycleColumns \subseteq Columns /\ "match" \notin LifecycleColumns
  BY ColumnFacts DEF Columns
<1>3. /\ newTable => newTable' /\ columns \ {"match"} \subseteq columns'
      /\ columns' \subseteq Columns /\ newTable' \in BOOLEAN
      /\ newTable' /\ "match" \in columns' => newTable /\ "match" \in columns
      /\ newTable' => newTable \/ pc[p] = "create"
  <2>1. CASE DropMatch(p)
    BY <1>1, <2>1 DEF DropMatch, TypeOK
  <2>2. CASE CreateTable(p)
    BY <1>1, <2>2 DEF CreateTable, TypeOK, At
  <2>3. CASE AddColumn(p)
    <3>1. newTable
      BY <1>1, <2>3 DEF AddColumn, At, StartInv, AfterCreate, AfterDrop
    <3>2. newTable' = newTable
      BY <2>3 DEF AddColumn
    <3>3. columns' = columns \/ \E c \in LifecycleColumns : columns' = columns \union {c}
      BY <2>3 DEF AddColumn
    <3> QED
      BY <1>1, <1>2, <3>1, <3>2, <3>3 DEF TypeOK
  <2> QED
    BY <2>1, <2>2, <2>3
<1>4. /\ \A q \in Replicas \ {p} : pc'[q] = pc[q]
      /\ pc' \in [Replicas -> Steps]
      /\ \/ pc[p] = "drop" /\ pc'[p] = "create" /\ ("match" \in columns' => ~newTable')
         \/ pc[p] = "create" /\ pc'[p] = "columns" /\ newTable'
         \/ pc[p] = "columns" /\ pc'[p] = "columns"
         \/ pc[p] = "columns" /\ pc'[p] = "status" /\ LifecycleColumns \subseteq columns'
  <2>1. CASE DropMatch(p)
    BY <1>1, <2>1 DEF DropMatch, Goto, At, TypeOK, Steps, Starting
  <2>2. CASE CreateTable(p)
    BY <1>1, <2>2 DEF CreateTable, Goto, At, TypeOK, Steps, Starting
  <2>3. CASE AddColumn(p)
    BY <1>1, <2>3 DEF AddColumn, Goto, At, TypeOK, Steps, Starting
  <2> QED
    BY <2>1, <2>2, <2>3
<1>5. TypeOK'
  BY <1>1, <1>3, <1>4 DEF TypeOK
<1>6. ASSUME NEW r \in Runs
      PROVE  RowInv(row[r])' /\ PublishedInv(r)' /\ RowStep(row[r], row'[r])
  <2>1. RowInv(row[r]) /\ PublishedInv(r)
    BY DEF UpgradeInv
  <2> QED
    BY <1>1, <2>1, RowStays DEF PublishedInv
<1>7. TablesInv'
  <2>1. oldTable /\ newTable' => newTable
    BY <1>1, <1>3 DEF StartInv, Renamed, AfterDrop
  <2> QED
    BY <1>1, <1>3, <2>1 DEF TablesInv
<1>8. LedgerStable
  BY <1>1, <1>3, <1>6 DEF LedgerStable
<1>9. FrozenStep
  BY <1>1 DEF FrozenStep, InTable
<1>10. ASSUME NEW q \in Replicas PROVE StartInv(q)'
  <2>1. CASE pc'[q] = pc[q]
    BY <1>8, <2>1, StartKept
  <2>2. CASE pc'[q] # pc[q]
    <3>1. q = p /\ pc'[p] # pc[p]
      BY <1>4, <2>2
    <3>2. Renamed'
      BY <1>1, <1>3, <1>4 DEF StartInv, Renamed, AfterDrop
    <3>3. pc[p] \in {"create", "columns"} => (newTable' => "match" \notin columns')
      BY <1>1, <1>3 DEF StartInv, AfterDrop
    <3>4. pc[p] = "columns" => newTable'
      BY <1>1, <1>3 DEF StartInv, AfterDrop, AfterCreate
    <3> QED
      BY <1>4, <3>1, <3>2, <3>3, <3>4
         DEF StartInv, AfterDrop, AfterCreate, AfterColumns
  <2> QED
    BY <2>1, <2>2
<1>11. ASSUME NEW r \in SyncRuns PROVE CallInv(r)'
  BY <1>1, <1>6, CallKept DEF Runs
<1>12. LedgerInv'
  BY <1>1, <1>6, <1>7 DEF UpgradeInv, LedgerInv
<1> QED
  BY <1>5, <1>9, <1>10, <1>11, <1>12, Assembled

(* The statements on the rows: each achieves what its replica needs, and   *)
(* undoes nothing.                                                         *)
LEMMA FillStep ==
  ASSUME UpgradeInv, NEW p \in Replicas,
         FillStatus(p) \/ FillEvents(p) \/ backfillCanonicalResultPayloads(p)
  PROVE  UpgradeInv' /\ FrozenStep
<1>1. /\ TypeOK /\ StartInv(p)
      /\ UNCHANGED <<oldTable, newTable, columns, where, start, sink, configured,
                     call, merging, faults>>
  BY DEF UpgradeInv, FillStatus, FillEvents, backfillCanonicalResultPayloads,
         callVars
<1>2. /\ row' \in [Runs -> Row]
      /\ \A r \in Runs : RowStep(row[r], row'[r])
      /\ \A r \in Runs : row[r].durable => row'[r].status = row[r].status
  <2>1. CASE UNCHANGED row
    BY <1>1, <2>1, RowStays DEF UpgradeInv, TypeOK
  <2>2. CASE UpdateRows(StatusFilled)
    <3>1. ASSUME NEW r \in Runs
          PROVE  RowStep(row[r], row'[r]) /\ row'[r] \in Row
                 /\ (row[r].durable => row'[r].status = row[r].status)
      <4>1. row'[r] = IF InTable(r) THEN StatusFilled(row[r]) ELSE row[r]
        BY <2>2 DEF UpdateRows
      <4>2. RowInv(row[r])
        BY DEF UpgradeInv
      <4> QED
        BY <4>1, <4>2, StatusRow, RowStays DEF RowStep, RowInv
    <3> QED
      BY <2>2, <3>1 DEF UpdateRows
  <2>3. CASE UpdateRows(EventFilled)
    <3>1. ASSUME NEW r \in Runs
          PROVE  RowStep(row[r], row'[r]) /\ row'[r] \in Row
                 /\ (row[r].durable => row'[r].status = row[r].status)
      <4>1. row'[r] = IF InTable(r) THEN EventFilled(row[r]) ELSE row[r]
        BY <2>3 DEF UpdateRows
      <4>2. RowInv(row[r])
        BY DEF UpgradeInv
      <4> QED
        BY <4>1, <4>2, EventRow, RowStays DEF RowStep, RowInv
    <3> QED
      BY <2>3, <3>1 DEF UpdateRows
  <2>4. CASE UpdateRows(PayloadRebuilt)
    <3>1. ASSUME NEW r \in Runs
          PROVE  RowStep(row[r], row'[r]) /\ row'[r] \in Row
                 /\ (row[r].durable => row'[r].status = row[r].status)
      <4>1. row'[r] = IF InTable(r) THEN PayloadRebuilt(row[r]) ELSE row[r]
        BY <2>4 DEF UpdateRows
      <4>2. RowInv(row[r])
        BY DEF UpgradeInv
      <4> QED
        BY <4>1, <4>2, PayloadRow, RowStays DEF RowStep, RowInv
    <3> QED
      BY <2>4, <3>1 DEF UpdateRows
  <2> QED
    BY <2>1, <2>2, <2>3, <2>4
       DEF FillStatus, FillEvents, backfillCanonicalResultPayloads
<1>3. \/ pc[p] = "status" /\ pc' = [pc EXCEPT ![p] = "callback"]
      \/ pc[p] = "callback" /\ pc' = [pc EXCEPT ![p] = "backfill"]
      \/ pc[p] = "backfill" /\ pc' = [pc EXCEPT ![p] = "down"]
      \/ pc[p] = "backfill" /\ pc' = [pc EXCEPT ![p] = "serving"]
  BY DEF FillStatus, FillEvents, backfillCanonicalResultPayloads, At, Goto
<1>4. TypeOK'
  BY <1>1, <1>2, <1>3 DEF TypeOK, Steps, Starting
<1>5. LedgerInv' /\ LedgerStable /\ FrozenStep
  <2>1. ASSUME NEW r \in Runs, row'[r].durable, row'[r].status = "completed"
        PROVE  row[r].status = "completed"
    BY <1>2, <2>1 DEF RowStep
  <2> QED
    BY <1>1, <1>2, <2>1, RowsFollow
<1>6. ASSUME NEW q \in Replicas PROVE StartInv(q)'
  <2>1. CASE pc'[q] = pc[q] \/ pc'[q] = "down"
    BY <1>5, <2>1, StartKept
  <2>2. CASE pc'[q] # pc[q] /\ pc'[q] # "down"
    <3>1. q = p
      BY <1>1, <1>3, <2>2 DEF TypeOK
    <3>2. /\ Renamed' /\ newTable' /\ "match" \notin columns'
          /\ LifecycleColumns \subseteq columns'
      BY <1>1, <1>3 DEF StartInv, Renamed, AfterDrop, AfterCreate, AfterColumns
    <3>3. CASE pc[p] = "status"
      BY <1>1, <1>3, <3>1, <3>2, <3>3 DEF StartInv, TypeOK
    <3>4. CASE pc[p] = "callback"
      <4>1. UpdateRows(EventFilled)
        BY <3>4 DEF FillStatus, FillEvents, backfillCanonicalResultPayloads, At
      <4>2. ASSUME NEW r \in Runs, where[r] = "new", row'[r].url
            PROVE  row'[r].event # "NULL"
        <5>1. row'[r] = EventFilled(row[r])
          BY <4>1, <4>2 DEF UpdateRows, InTable
        <5>2. RowInv(row[r]) /\ row[r].url
          BY <1>2, <4>2 DEF UpgradeInv, RowStep
        <5> QED
          BY <5>1, <5>2, EventRow
      <4>3. pc'[p] = "backfill"
        BY <1>1, <1>3, <3>4 DEF TypeOK
      <4> QED
        BY <1>1, <3>1, <3>2, <4>2, <4>3 DEF StartInv, InTable
    <3>5. CASE pc[p] = "backfill"
      <4>1. pc'[p] = "serving"
        BY <1>1, <1>3, <2>2, <3>1, <3>5 DEF TypeOK
      <4>2. ~BackfillRefused
        BY <1>1, <3>5, <4>1
           DEF FillStatus, FillEvents, backfillCanonicalResultPayloads, At, Goto, TypeOK
      <4>3. ASSUME NEW r \in Runs, where[r] = "new", row'[r].durable,
                   row'[r].status = "completed"
            PROVE  row'[r].payload # "none"
        <5>1. /\ RowInv(row[r]) /\ row[r].durable /\ row[r].status = "completed"
              /\ row'[r].payload = row[r].payload
          BY <1>2, <4>3 DEF UpgradeInv, RowStep
        <5>2. row[r].response # "none"
          BY <5>1 DEF RowInv
        <5> QED
          BY <4>2, <4>3, <5>1, <5>2
             DEF BackfillRefused, Selected, LacksPayload, MayBePublished, InTable
      <4>4. ASSUME NEW r \in Runs, where[r] = "new", row'[r].url
            PROVE  row'[r].event # "NULL"
        BY <1>1, <1>2, <3>5, <4>4 DEF StartInv, InTable, RowStep
      <4> QED
        BY <1>1, <3>1, <3>2, <4>1, <4>3, <4>4 DEF StartInv, InTable
    <3> QED
      BY <1>3, <3>3, <3>4, <3>5
  <2> QED
    BY <2>1, <2>2
<1>7. ASSUME NEW r \in SyncRuns PROVE CallInv(r)'
  BY <1>1, <1>2, CallKept DEF Runs
<1> QED
  BY <1>4, <1>5, <1>6, <1>7, Assembled

(* A process that dies leaves the ledger and the results as they are; the  *)
(* calls it was serving end without an answer.                             *)
LEMMA CrashStep ==
  ASSUME UpgradeInv, NEW p \in Replicas, Crash(p)
  PROVE  UpgradeInv' /\ FrozenStep
<1>1. /\ TypeOK /\ pc' = [pc EXCEPT ![p] = "down"]
      /\ faults < MaxFaults /\ faults' = faults + 1
      /\ UNCHANGED <<start, sink, configured, merging>> /\ UNCHANGED ledgerVars
  BY DEF UpgradeInv, Crash, Goto
<1>2. ASSUME NEW r \in SyncRuns
      PROVE  /\ call'[r] \in Calls
             /\ call'[r].step \in {call[r].step, "dead"}
             /\ call'[r].status = call[r].status
             /\ call'[r].content = call[r].content
             /\ call'[r].malfunction = call[r].malfunction
  <2>1. call[r] \in Calls
    BY <1>1 DEF TypeOK
  <2>2. call'[r] = call[r] \/ call'[r] = [call[r] EXCEPT !.step = "dead"]
    BY DEF Crash
  <2> QED
    BY <2>1, <2>2 DEF Calls
<1>3. TypeOK'
  <2>1. call' \in [SyncRuns -> Calls]
    BY <1>2 DEF Crash
  <2>2. faults' \in 0..MaxFaults
    BY <1>1, MaxFaultsIsNat DEF TypeOK
  <2> QED
    BY <1>1, <2>1, <2>2 DEF TypeOK, ledgerVars, Steps
<1>4. LedgerInv' /\ LedgerStable /\ FrozenStep
  BY <1>1, LedgerUntouched
<1>5. \A q \in Replicas : pc'[q] = pc[q] \/ pc'[q] = "down"
  BY <1>1 DEF TypeOK
<1>6. ASSUME NEW q \in Replicas PROVE StartInv(q)'
  BY <1>4, <1>5, StartKept
<1>7. ASSUME NEW r \in SyncRuns PROVE CallInv(r)'
  <2>1. CallInv(r)
    BY DEF UpgradeInv
  <2> QED
    BY <1>1, <1>2, <2>1 DEF CallInv, ledgerVars
<1> QED
  BY <1>3, <1>4, <1>6, <1>7, Assembled

-----------------------------------------------------------------------------
(* A step of one call that leaves ledger and results alone.                *)
LEMMA CallStep ==
  ASSUME UpgradeInv, NEW r0 \in SyncRuns, NEW c,
         c \in Calls, call' = [call EXCEPT ![r0] = c],
         UNCHANGED <<start, sink, configured, pc, faults>>, UNCHANGED ledgerVars,
         merging' \subseteq SyncRuns, CallInv(r0)'
  PROVE  UpgradeInv' /\ FrozenStep
<1>1. TypeOK /\ TypeOK'
  BY DEF UpgradeInv, TypeOK, ledgerVars
<1>2. LedgerInv' /\ LedgerStable /\ FrozenStep
  BY LedgerUntouched
<1>3. ASSUME NEW q \in Replicas PROVE StartInv(q)'
  BY <1>2, StartKept
<1>4. ASSUME NEW r \in SyncRuns PROVE CallInv(r)'
  <2>1. CASE r # r0
    <3>1. RowStep(row[r], row'[r])
      BY RowStays DEF UpgradeInv, ledgerVars, Runs
    <3>2. call'[r] = call[r]
      BY <1>1, <2>1 DEF TypeOK
    <3> QED
      BY <3>1, <3>2, CallKept DEF ledgerVars
  <2> QED
    BY <2>1
<1> QED
  BY <1>1, <1>2, <1>3, <1>4, Assembled

(* The requests before the ledger is written, and the answer after it.     *)
LEMMA RequestStep ==
  ASSUME UpgradeInv, NEW r \in SyncRuns,
         \/ \E p \in Replicas : Refuse(p, r) \/ handleSubmitRunSync(p, r)
         \/ SendMerge(r) \/ PublishFails(r) \/ ReadBack(r) \/ VerifyFails(r)
         \/ AddFails(r) \/ Answer(r)
  PROVE  UpgradeInv' /\ FrozenStep
<1>1. TypeOK /\ call[r] \in Calls /\ CallInv(r)
  BY DEF UpgradeInv, TypeOK
<1>2. /\ UNCHANGED <<start, sink, configured, pc, faults>> /\ UNCHANGED ledgerVars
      /\ merging' \subseteq SyncRuns
  BY <1>1 DEF TypeOK, Refuse, handleSubmitRunSync, SendMerge, PublishFails, ReadBack,
              VerifyFails, AddFails, Answer
<1>3. UNCHANGED <<sink, configured, where, row>>
  BY <1>2 DEF ledgerVars
<1>4. PICK c \in Calls : call' = [call EXCEPT ![r] = c] /\ CallInv(r)'
  <2>1. CASE \E p \in Replicas : Refuse(p, r)
    <3>1. PICK p \in Replicas : Refuse(p, r)
      BY <2>1
    <3> DEFINE c == [call[r] EXCEPT !.step = "refused", !.at = p]
    <3>2. call' = [call EXCEPT ![r] = c] /\ call[r].step = "idle"
      BY <1>1, <3>1 DEF Refuse, Doing, TypeOK
    <3>3. /\ c \in Calls /\ c.step = "refused" /\ c.status = call[r].status
          /\ c.content = call[r].content /\ c.malfunction = call[r].malfunction
      BY <1>1 DEF Calls
    <3> HIDE DEF c
    <3>4. call'[r] = c
      BY <1>1, <3>2 DEF TypeOK
    <3>5. CallInv(r)'
      BY <1>1, <1>3, <3>2, <3>3, <3>4 DEF CallInv
    <3> QED
      BY <3>2, <3>3, <3>5
  <2>2. CASE \E p \in Replicas : handleSubmitRunSync(p, r)
    <3>1. PICK p \in Replicas, m \in BOOLEAN :
            /\ call[r].step = "idle"
            /\ call' = [call EXCEPT ![r] =
                 [at |-> p, step |-> IF configured THEN "publish" ELSE "add",
                  malfunction |-> m, status |-> EnvelopeStatus(m),
                  content |-> "original"]]
      BY <2>2 DEF handleSubmitRunSync, Doing
    <3> DEFINE c == [at |-> p, step |-> IF configured THEN "publish" ELSE "add",
                     malfunction |-> m, status |-> EnvelopeStatus(m),
                     content |-> "original"]
    <3>2. /\ c \in Calls /\ c.step = (IF configured THEN "publish" ELSE "add")
          /\ c.malfunction = m /\ c.content = "original"
          /\ c.status = (IF m THEN "failed" ELSE "completed")
      BY DEF Calls, Contents, EnvelopeStatus
    <3>3. call' = [call EXCEPT ![r] = c]
      BY <3>1
    <3> HIDE DEF c
    <3>4. call'[r] = c
      BY <1>1, <3>3 DEF TypeOK
    <3>5. CallInv(r)'
      BY <1>1, <1>3, <3>1, <3>2, <3>4 DEF CallInv
    <3> QED
      BY <3>2, <3>3, <3>5
  <2>3. CASE VerifyFails(r)
    <3> DEFINE d == Degraded(call[r])
               c == [d EXCEPT !.step = "add"]
    <3>1. call' = [call EXCEPT ![r] = c] /\ call[r].step = "verify"
      BY <2>3 DEF VerifyFails, Doing
    <3>2. /\ d \in Calls /\ d.malfunction = call[r].malfunction
          /\ IF call[r].malfunction
               THEN d.status = call[r].status /\ d.content = call[r].content
               ELSE d.status = "storage-failed" /\ d.content = "degraded"
      BY <1>1 DEF Degraded, Calls, Contents
    <3> HIDE DEF d
    <3>3. /\ c \in Calls /\ c.step = "add" /\ c.malfunction = d.malfunction
          /\ c.status = d.status /\ c.content = d.content
      BY <3>2 DEF Calls
    <3> HIDE DEF c
    <3>4. call'[r] = c
      BY <1>1, <3>1 DEF TypeOK
    <3>5. CallInv(r)'
      BY <1>1, <1>3, <3>1, <3>2, <3>3, <3>4 DEF CallInv
    <3> QED
      BY <3>1, <3>3, <3>5
  <2>4. CASE SendMerge(r) \/ PublishFails(r) \/ ReadBack(r) \/ AddFails(r) \/ Answer(r)
    <3>1. PICK step \in {"merge", "verify", "add", "answer", "answered"} :
            /\ call' = [call EXCEPT ![r].step = step]
            /\ \/ call[r].step = "publish" /\ step = "merge"
               \/ call[r].step \in {"publish", "merge"} /\ step = "verify"
               \/ /\ call[r].step \in {"merge", "verify"} /\ step = "add"
                  /\ sink[r] = call[r].content
               \/ call[r].step = "add" /\ step = "answer"
               \/ call[r].step = "answer" /\ step = "answered"
      BY <2>4 DEF SendMerge, PublishFails, ReadBack, AddFails, Answer, Doing
    <3> DEFINE c == [call[r] EXCEPT !.step = step]
    <3>2. call' = [call EXCEPT ![r] = c]
      BY <1>1, <3>1 DEF TypeOK
    <3>3. /\ c \in Calls /\ c.step = step /\ c.status = call[r].status
          /\ c.content = call[r].content /\ c.malfunction = call[r].malfunction
      BY <1>1 DEF Calls
    <3> HIDE DEF c
    <3>4. call'[r] = c
      BY <1>1, <3>2 DEF TypeOK
    <3>5. CallInv(r)'
      BY <1>1, <1>3, <3>1, <3>3, <3>4 DEF CallInv
    <3> QED
      BY <3>2, <3>3, <3>5
  <2> QED
    BY <2>1, <2>2, <2>3, <2>4
<1> QED
  BY <1>2, <1>4, CallStep

(* Add puts in a row of its own, which no other call or worker has.        *)
LEMMA AddStep ==
  ASSUME UpgradeInv, NEW r0 \in SyncRuns, Add(r0)
  PROVE  UpgradeInv' /\ FrozenStep
<1> DEFINE y == Added(call[r0])
           c == [call[r0] EXCEPT !.step = "answer"]
<1>1. /\ TypeOK /\ TablesInv /\ call[r0] \in Calls /\ CallInv(r0) /\ r0 \in Runs
      /\ newTable /\ call[r0].step = "add"
  BY DEF UpgradeInv, TypeOK, Runs, Add, Doing
<1>2. /\ where' = [where EXCEPT ![r0] = "new"] /\ row' = [row EXCEPT ![r0] = y]
      /\ call' = [call EXCEPT ![r0] = c]
      /\ UNCHANGED <<oldTable, newTable, columns, start, sink, configured, pc,
                     merging, faults>>
  BY <1>1 DEF Add, TypeOK
<1>3. /\ y \in Row /\ ~y.durable /\ y.status = "NULL" /\ ~y.url /\ ~y.pending
      /\ y.event = "NULL" /\ y.settled = "no" /\ y.response = call[r0].content
  BY <1>1 DEF Added, NoRow, Row, Calls, Statuses, Contents, Events
<1>4. /\ c \in Calls /\ c.step = "answer" /\ c.status = call[r0].status
      /\ c.content = call[r0].content /\ c.malfunction = call[r0].malfunction
  BY <1>1 DEF Calls
<1> HIDE DEF y, c
<1>5. /\ where'[r0] = "new" /\ row'[r0] = y /\ call'[r0] = c
      /\ \A r \in Runs \ {r0} : where'[r] = where[r] /\ row'[r] = row[r]
      /\ \A r \in SyncRuns \ {r0} : call'[r] = call[r]
  BY <1>1, <1>2 DEF TypeOK
<1>6. TypeOK'
  BY <1>1, <1>2, <1>3, <1>4 DEF TypeOK
<1>7. where[r0] = "nowhere"
  BY <1>1 DEF CallInv
<1>8. TablesInv'
  BY <1>1, <1>2, <1>5 DEF TablesInv
<1>9. RowInv(y)
  BY <1>3 DEF RowInv, Settled
<1>10. ASSUME NEW r \in Runs PROVE RowInv(row[r])' /\ PublishedInv(r)'
  <2>1. CASE r = r0
    BY <1>3, <1>5, <1>9, <2>1 DEF PublishedInv
  <2>2. CASE r # r0
    BY <1>2, <1>5, <2>2 DEF UpgradeInv, PublishedInv
  <2> QED
    BY <2>1, <2>2
<1>11. ASSUME NEW r \in Runs, r # r0 PROVE RowStep(row[r], row'[r])
  BY <1>5, <1>11, RowStays DEF UpgradeInv
<1>12. LedgerStable
  BY <1>2, <1>3, <1>5, <1>11 DEF LedgerStable
<1>13. FrozenStep
  BY <1>5, <1>7 DEF FrozenStep, InTable
<1>14. ASSUME NEW q \in Replicas PROVE StartInv(q)'
  BY <1>2, <1>12, StartKept
<1>15. ASSUME NEW r \in SyncRuns PROVE CallInv(r)'
  <2>1. CASE r = r0
    BY <1>1, <1>2, <1>3, <1>4, <1>5, <2>1 DEF CallInv
  <2>2. CASE r # r0
    <3>1. r \in Runs
      BY DEF Runs
    <3> QED
      BY <1>2, <1>5, <1>11, <2>2, <3>1, CallKept
  <2> QED
    BY <2>1, <2>2
<1>16. LedgerInv'
  BY <1>2, <1>8, <1>10 DEF UpgradeInv, LedgerInv
<1> QED
  BY <1>6, <1>13, <1>14, <1>15, <1>16, Assembled

(* The result table takes a synchronous row only where it has none.        *)
LEMMA MergeStep ==
  ASSUME UpgradeInv, NEW r0 \in SyncRuns, MergeLands(r0)
  PROVE  UpgradeInv' /\ FrozenStep
<1>1. /\ TypeOK /\ merging' = merging \ {r0}
      /\ UNCHANGED <<start, configured, pc, call, faults>> /\ UNCHANGED ledgerVars
      /\ sink' = sink \/ sink' = [sink EXCEPT ![r0] = IF @ = "none" THEN "original" ELSE @]
  BY DEF UpgradeInv, MergeLands
<1>2. /\ sink' \in [Runs -> Contents]
      /\ \A r \in Runs : sink'[r] = sink[r] \/ (sink[r] = "none" /\ sink'[r] = "original")
  BY <1>1 DEF TypeOK, Contents
<1>3. TypeOK'
  BY <1>1, <1>2 DEF TypeOK, ledgerVars
<1>4. LedgerInv' /\ LedgerStable /\ FrozenStep
  BY <1>1, <1>2, LedgerUntouched
<1>5. ASSUME NEW q \in Replicas PROVE StartInv(q)'
  BY <1>1, <1>4, StartKept
<1>6. ASSUME NEW r \in SyncRuns PROVE CallInv(r)'
  <2>1. CallInv(r) /\ r \in Runs
    BY DEF UpgradeInv, Runs
  <2> QED
    BY <1>1, <1>2, <2>1 DEF CallInv, ledgerVars
<1> QED
  BY <1>3, <1>4, <1>5, <1>6, Assembled

-----------------------------------------------------------------------------
(* A synchronous run is no work for a worker or a dispatcher.              *)
LEMMA WorkIsDurable ==
  ASSUME UpgradeInv, NEW r \in Runs, InTable(r), row[r].durable
  PROVE  r \notin SyncRuns
BY DEF UpgradeInv, CallInv, InTable

(* Work on a durable run keeps every other record and every call.          *)
LEMMA WorkStep ==
  ASSUME UpgradeInv, NEW r0 \in Runs, WorkerStep(r0)
  PROVE  UpgradeInv' /\ FrozenStep
<1>1. TypeOK
  BY DEF UpgradeInv
<1>2. CASE Publish(r0)
  <2>1. /\ row[r0].pending /\ InTable(r0) /\ row[r0].status \in {"queued", "running"}
        /\ row' = row /\ WorkerKeeps
        /\ sink' = [sink EXCEPT ![r0] = IF @ = "none" THEN row[r0].payload ELSE @]
    BY <1>2 DEF Publish, Workable
  <2>2. UNCHANGED <<oldTable, newTable, columns, where, row, start, configured, pc, call,
                    merging, faults>>
    BY <2>1 DEF WorkerKeeps, callVars
  <2>3. row[r0].durable /\ row[r0].payload \in Contents
    BY <1>1, <2>1 DEF UpgradeInv, RowInv, Row
  <2>4. /\ sink' \in [Runs -> Contents]
        /\ \A r \in Runs : sink[r] # "none" => sink'[r] = sink[r]
        /\ \A r \in Runs : r # r0 => sink'[r] = sink[r]
    BY <1>1, <2>1, <2>3 DEF TypeOK
  <2>5. TypeOK'
    BY <1>1, <2>2, <2>4 DEF TypeOK
  <2>6. LedgerInv' /\ LedgerStable /\ FrozenStep
    BY <2>2, <2>4, LedgerUntouched DEF ledgerVars
  <2>7. ASSUME NEW q \in Replicas PROVE StartInv(q)'
    BY <2>2, <2>6, StartKept
  <2>8. ASSUME NEW r \in SyncRuns PROVE CallInv(r)'
    <3>1. r # r0 /\ r \in Runs
      BY <2>1, <2>3, WorkIsDurable DEF Runs
    <3>2. RowStep(row[r], row'[r])
      BY <2>2, <3>1, RowStays DEF UpgradeInv
    <3> QED
      BY <2>2, <2>4, <3>1, <3>2, CallKept
  <2> QED
    BY <2>5, <2>6, <2>7, <2>8, Assembled
<1>3. CASE ~Publish(r0)
  <2>1. UNCHANGED sink /\ WorkerKeeps /\ InTable(r0) /\ row[r0].durable
    BY <1>3, WorkerRow
  <2>2. PICK y : row' = [row EXCEPT ![r0] = y] /\ RowStep(row[r0], y)
                 /\ (y.status = "completed" /\ configured =>
                       \/ row[r0].status = "completed"
                       \/ y.payload # "none" /\ sink[r0] = y.payload)
    BY <1>3, WorkerRow
  <2>3. UNCHANGED <<oldTable, newTable, columns, where, sink, start, configured, pc, call,
                    merging, faults>>
    BY <2>1 DEF WorkerKeeps, callVars
  <2>4. row'[r0] = y /\ \A r \in Runs \ {r0} : row'[r] = row[r]
    BY <1>1, <2>2 DEF TypeOK
  <2>5. y \in Row
    BY <2>2 DEF RowStep, RowInv
  <2>6. TypeOK'
    BY <1>1, <2>2, <2>3, <2>5 DEF TypeOK
  <2>7. ASSUME NEW r \in Runs PROVE RowStep(row[r], row'[r])
    <3>1. CASE r = r0
      BY <2>2, <2>4, <3>1
    <3>2. CASE r # r0
      BY <2>4, <3>2, RowStays DEF UpgradeInv
    <3> QED
      BY <3>1, <3>2
  <2>8. ASSUME NEW r \in Runs, row'[r].status = "completed", configured
        PROVE  \/ row[r].status = "completed"
               \/ row'[r].payload # "none" /\ sink'[r] = row'[r].payload
    BY <2>2, <2>3, <2>4, <2>8
  <2>9. LedgerInv' /\ LedgerStable /\ FrozenStep
    BY <2>3, <2>7, <2>8, RowsFollow
  <2>10. ASSUME NEW q \in Replicas PROVE StartInv(q)'
    BY <2>3, <2>9, StartKept
  <2>11. ASSUME NEW r \in SyncRuns PROVE CallInv(r)'
    <3>1. r \in Runs
      BY DEF Runs
    <3> QED
      BY <2>3, <2>7, <3>1, CallKept
  <2> QED
    BY <2>6, <2>9, <2>10, <2>11, Assembled
<1> QED
  BY <1>2, <1>3

(* Every step of start-up and of serving keeps the invariant.              *)
LEMMA UpgradeStep ==
  ASSUME UpgradeInv, [Next]_vars
  PROVE  UpgradeInv' /\ FrozenStep
<1>1. CASE UNCHANGED vars
  <2>1. /\ UNCHANGED <<start, sink, configured, pc, call, merging, faults>>
        /\ UNCHANGED ledgerVars
    BY <1>1 DEF vars, ledgerVars
  <2>2. TypeOK'
    BY <2>1 DEF UpgradeInv, TypeOK, ledgerVars
  <2>3. LedgerInv' /\ LedgerStable /\ FrozenStep
    BY <2>1, LedgerUntouched
  <2>4. ASSUME NEW q \in Replicas PROVE StartInv(q)'
    BY <2>1, <2>3, StartKept
  <2>5. ASSUME NEW r \in SyncRuns PROVE CallInv(r)'
    <3>1. RowStep(row[r], row'[r])
      BY <2>1, RowStays DEF UpgradeInv, ledgerVars, Runs
    <3> QED
      BY <2>1, <3>1, CallKept DEF ledgerVars
  <2> QED
    BY <2>2, <2>3, <2>4, <2>5, Assembled
<1>2. ASSUME NEW p \in Replicas, Start(p) \/ Crash(p)
      PROVE  UpgradeInv' /\ FrozenStep
  BY <1>2, NewRunStoreStep, RenameStep, SchemaStep, FillStep, CrashStep DEF Start
<1>3. ASSUME NEW r \in SyncRuns, SyncStep(r) \/ MergeLands(r)
      PROVE  UpgradeInv' /\ FrozenStep
  BY <1>3, RequestStep, AddStep, MergeStep DEF SyncStep
<1>4. ASSUME NEW r \in Runs, WorkerStep(r)
      PROVE  UpgradeInv' /\ FrozenStep
  BY <1>4, WorkStep
<1> QED
  BY <1>1, <1>2, <1>3, <1>4 DEF Next

-----------------------------------------------------------------------------
(* The inductive invariant holds in every reachable state.                 *)
THEOREM UpgradeInvariance == Spec => []UpgradeInv
<1>1. Init => UpgradeInv
  BY InitUpgrade
<1>2. UpgradeInv /\ [Next]_vars => UpgradeInv'
  BY UpgradeStep
<1> QED
  BY <1>1, <1>2, PTL DEF Spec

(* Tables, rows, calls and the starting replicas hold what they may.       *)
THEOREM UpgradeTypeCorrect == Spec => []TypeOK
<1>1. UpgradeInv => TypeOK
  BY DEF UpgradeInv
<1> QED
  BY <1>1, UpgradeInvariance, PTL

(* Whichever replica renames, creates and alters, in whatever interleaving *)
(* and however many die: who serves sees every run that was there.         *)
THEOREM NoRunIsLost == Spec => []LedgerCarriedOver
<1>1. UpgradeInv => LedgerCarriedOver
  <2> SUFFICES ASSUME UpgradeInv, NEW p \in Replicas, pc[p] = "serving"
               PROVE  /\ newTable /\ columns = LifecycleColumns
                      /\ (start.oldTable /\ start.newTable)
                           \/ \A r \in Runs : start.where[r] # "nowhere" => InTable(r)
    BY DEF LedgerCarriedOver, SomeoneServes, Serving, At
  <2>1. newTable /\ "match" \notin columns /\ LifecycleColumns \subseteq columns
    BY DEF UpgradeInv, StartInv, AfterDrop, AfterCreate, AfterColumns
  <2>2. columns = LifecycleColumns
    BY <2>1 DEF UpgradeInv, TypeOK, Columns
  <2>3. CASE oldTable
    BY <2>1, <2>2, <2>3 DEF UpgradeInv, TablesInv
  <2>4. CASE ~oldTable
    <3>1. ASSUME NEW r \in Runs, start.where[r] # "nowhere" PROVE InTable(r)
      BY <2>4, <3>1 DEF UpgradeInv, TablesInv, TypeOK, InTable
    <3> QED
      BY <2>1, <2>2, <3>1
  <2> QED
    BY <2>3, <2>4
<1> QED
  BY <1>1, UpgradeInvariance, PTL

(* A run shown as completed has the bytes that were published.             *)
THEOREM CompletedHasItsBytes == Spec => []ShownCompletedIsPublished
<1>1. UpgradeInv => ShownCompletedIsPublished
  <2> SUFFICES ASSUME UpgradeInv, NEW p \in Replicas, pc[p] = "serving",
                      NEW r \in Runs, Shown(r) = "completed"
               PROVE  row[r].payload # "none" /\ (configured => sink[r] = row[r].payload)
    BY DEF ShownCompletedIsPublished, SomeoneServes, Serving, At
  <2>1. InTable(r) /\ row[r].durable /\ row[r].status = "completed"
    BY DEF Shown
  <2>2. row[r].payload # "none"
    BY <2>1 DEF UpgradeInv, StartInv
  <2>3. PublishedInv(r)
    BY DEF UpgradeInv
  <2> QED
    BY <2>1, <2>2, <2>3 DEF PublishedInv
<1> QED
  BY <1>1, UpgradeInvariance, PTL

(* What the synchronous path answered stays true, whichever MERGE lands    *)
(* late and whichever replica rewrites rows after it.                      *)
THEOREM AnswersHold == Spec => []AnswerStaysTrue
<1>1. UpgradeInv => AnswerStaysTrue
  <2> SUFFICES ASSUME UpgradeInv, NEW r \in SyncRuns, Doing(r, "answered")
               PROVE  /\ call[r].status = "completed" /\ configured =>
                           sink[r] = call[r].content
                      /\ sink[r] \notin {"none", call[r].content} =>
                           call[r].status = "storage-failed"
                      /\ InTable(r) => row[r].response = call[r].content
    BY DEF AnswerStaysTrue
  <2>1. CallInv(r)
    BY DEF UpgradeInv
  <2> QED
    BY <2>1 DEF CallInv, Doing, InTable
<1> QED
  BY <1>1, UpgradeInvariance, PTL

(* Every event is where the dispatcher looks for it, and none twice.       *)
THEOREM EventsAreKept == Spec => []EventsSurvive
<1>1. UpgradeInv => EventsSurvive
  <2> SUFFICES ASSUME UpgradeInv, NEW p \in Replicas, pc[p] = "serving",
                      NEW r \in Runs, InTable(r), row[r].url
               PROVE  row[r].event \in IF row[r].status \notin Terminal THEN {"waiting"}
                                       ELSE IF row[r].settled = "no" THEN {"pending"}
                                       ELSE {row[r].settled}
    BY DEF EventsSurvive, SomeoneServes, Serving, At
  <2>1. row[r].event # "NULL" /\ RowInv(row[r])
    BY DEF UpgradeInv, StartInv
  <2>2. row[r].event \in Events /\ row[r].settled \in Settled \union {"no"}
    BY <2>1 DEF RowInv, Row
  <2> QED
    BY <2>1, <2>2 DEF RowInv, Events, Settled
<1> QED
  BY <1>1, UpgradeInvariance, PTL

(* No later step rewrites the record of a synchronous run.                 *)
THEOREM SyncRecordsAreFrozen == Spec => SyncRecordFrozen
<1>1. UpgradeInv /\ [Next]_vars => FrozenStep
  BY UpgradeStep
<1> QED
  BY <1>1, UpgradeInvariance, PTL DEF Spec, SyncRecordFrozen, FrozenStep
=============================================================================
