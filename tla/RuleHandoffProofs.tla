------------------------- MODULE RuleHandoffProofs -------------------------
(***************************************************************************)
(* What the hand-off guarantees for any number of executions of a run and  *)
(* any rules, whatever is lost, late or repeated.                          *)
(***************************************************************************)
EXTENDS RuleHandoff, TLAPS

(* The marks of a call that has taken effect, in the table and in XSIAM.   *)
Effects(x, rows, posted) ==
  /\ x.merge = "effective" => rows # {}
  /\ x.written => x.merge = "effective"
  /\ x.post # "unsent" => x.written
  /\ x.post = "effective" => posted # {}
  /\ "rule written" \in x.out.steps => x.written
  /\ "issue posted" \in x.out.steps => x.post = "effective"

(* Calls are made in their order.                                          *)
InOrder(x) ==
  /\ x.pc \in {"queued", "resolving", "resolved"} => x.merge = "unsent"
  /\ x.pc \in {"queued", "resolving", "resolved", "writing", "handoff"}
       => x.post = "unsent"

(* The rule of an execution: found by the resolution, and the requested    *)
(* one unless the request leaves it open.                                  *)
RuleFixed(x, q) ==
  /\ x.pc \in {"queued", "resolving"} => x.out.rule = NoRule
  /\ x.pc \in {"resolved", "writing", "handoff", "posting"}
       => x.out.rule # NoRule
  /\ x.merge # "unsent" => x.out.rule # NoRule
  /\ q.mode # "upstream" => x.out.rule \in {NoRule, q.rule}

(* What the report of an execution has accounted for.                      *)
RowAccounted(report) ==
  {"rule written", "rule not written"}
    \intersect (report.steps \union report.limitations) # {}
IssueAccounted(report) ==
  {"issue posted", "issue not posted"}
    \intersect (report.steps \union report.limitations) # {}
Accounted(x, q) ==
  x.out.rule # NoRule =>
    /\ x.pc \in {"handoff", "posting", "finalizing", "done"}
         => RowAccounted(x.out)
    /\ x.pc \in {"finalizing", "done"} /\ q.enforcement # "absent"
         => IssueAccounted(x.out)

Good(x, q, rows, posted) ==
  /\ Effects(x, rows, posted) /\ InOrder(x)
  /\ RuleFixed(x, q) /\ Accounted(x, q)

(* What holds of the rule table, XSIAM and the staged report.              *)
Outside ==
  /\ issues # {} => table # {}
  /\ request.mode # "upstream" => /\ table \subseteq {request.rule}
                                  /\ \A i \in issues : i.rule = request.rule
  /\ \A i \in issues : i.key = "result"
  /\ OneIssueIfKeyHonoured
  /\ StepsAreTrue
  /\ NothingSwallowed

(* The inductive invariant of the hand-off.                                *)
HandoffInv ==
  /\ TypeOK
  /\ \A e \in Executions : Good(exec[e], request, table, issues)
  /\ Outside

(* One step's discipline for the rule table.                               *)
RowStep == table # {} => table' = table

-----------------------------------------------------------------------------
(* The hand-off starts in the invariant.                                   *)
LEMMA InitHandoff == Init => HandoffInv
<1> SUFFICES ASSUME Init PROVE HandoffInv
  OBVIOUS
<1>1. NotStaged \in Report
  BY DEF Report, NotStaged
<1>2. ASSUME NEW e \in Executions
      PROVE  /\ exec[e] \in Execution
             /\ Good(exec[e], request, table, issues)
  <2>1. PICK sinks, tenants \in SUBSET Executions :
          exec = [f \in Executions |->
                    NewExecution(f \in sinks, f \in tenants)]
    BY DEF Init
  <2> DEFINE s == e \in sinks
             t == e \in tenants
  <2>2. NewExecution(s, t) \in Execution
    BY DEF NewExecution, Execution, Places, Calls, Report
  <2>3. Good(NewExecution(s, t), request, table, issues)
    BY DEF NewExecution, Good, Effects, InOrder, RuleFixed, Accounted
  <2> QED
    BY <2>1, <2>2, <2>3
<1>4. TypeOK
  <2>1. exec \in [Executions -> Execution]
    <3>1. PICK sinks, tenants \in SUBSET Executions :
            exec = [e \in Executions |->
                      NewExecution(e \in sinks, e \in tenants)]
      BY DEF Init
    <3> QED
      BY <1>2, <3>1
  <2>2. request \in Request /\ producer \in Rules
    BY DEF Init, Request
  <2> QED
    BY <1>1, <2>1, <2>2 DEF Init, TypeOK
<1>5. \A e \in Executions : Good(exec[e], request, table, issues)
  BY <1>2
<1>6. Outside
  BY DEF Init, Outside, OneIssueIfKeyHonoured, StepsAreTrue, NothingSwallowed,
         NotStaged
<1> QED
  BY <1>4, <1>5, <1>6 DEF HandoffInv

(* An execution that moves on by itself keeps the invariant if its own     *)
(* record stays good.                                                      *)
LEMMA OwnStep ==
  ASSUME HandoffInv, NEW e \in Executions, NEW y \in Execution, Step(e, y),
         Good(y, request, table, issues)
  PROVE  HandoffInv' /\ RowStep
<1>1. exec' = [exec EXCEPT ![e] = y]
      /\ UNCHANGED <<request, producer, holder, table, issues, staged>>
  BY DEF Step
<1>2. TypeOK'
  BY <1>1 DEF HandoffInv, TypeOK
<1>3. ASSUME NEW f \in Executions
      PROVE  Good(exec'[f], request', table', issues')
  <2>1. exec'[f] = IF f = e THEN y ELSE exec[f]
    BY <1>1 DEF HandoffInv, TypeOK
  <2>2. Good(exec[f], request, table, issues)
    BY DEF HandoffInv
  <2> QED
    BY <1>1, <2>1, <2>2
<1>4. Outside'
  BY <1>1 DEF HandoffInv, Outside, OneIssueIfKeyHonoured, StepsAreTrue,
              NothingSwallowed
<1> QED
  BY <1>1, <1>2, <1>3, <1>4 DEF HandoffInv, RowStep

(* The record of an execution before its step.                             *)
LEMMA BeforeStep ==
  ASSUME HandoffInv, NEW e \in Executions
  PROVE  /\ exec[e] \in Execution /\ exec[e].out \in Report
         /\ Good(exec[e], request, table, issues)
         /\ request \in Request /\ producer \in Rules
BY DEF HandoffInv, TypeOK, Execution

(* Resolving keeps the invariant.                                          *)
LEMMA ResolutionSteps ==
  ASSUME HandoffInv, NEW e \in Executions, Resolve(e) \/ ResolutionFails(e)
  PROVE  HandoffInv' /\ RowStep
<1> DEFINE x == exec[e]
<1>1. /\ x \in Execution /\ x.out \in Report
      /\ Good(x, request, table, issues)
      /\ request \in Request /\ producer \in Rules
  BY BeforeStep
<1>2. CASE Resolve(e)
  <2>1. PICK r \in Readable :
          Step(e, [x EXCEPT !.pc = "resolved", !.out.rule = r])
    BY <1>2 DEF Resolve
  <2> DEFINE y == [x EXCEPT !.pc = "resolved", !.out.rule = r]
  <2>2. r \in Rules /\ (request.mode # "upstream" => r = request.rule)
    BY <1>1, <2>1 DEF Readable, Request
  <2>3. x.pc = "resolving"
    BY <1>2 DEF Resolve, At
  <2>4. y \in Execution
    BY <1>1, <2>2 DEF Execution, Report, Places
  <2>5. Good(y, request, table, issues)
    BY <1>1, <2>2, <2>3, HandoffConstants
       DEF Good, Effects, InOrder, RuleFixed, Accounted, Execution, Report
  <2> QED
    BY <2>1, <2>4, <2>5, OwnStep
<1>3. CASE ResolutionFails(e)
  <2> DEFINE y == [x EXCEPT !.pc = "finalizing"]
  <2>1. Step(e, y) /\ x.pc = "resolving"
    BY <1>3 DEF ResolutionFails, At
  <2>2. y \in Execution
    BY <1>1 DEF Execution, Places
  <2>3. Good(y, request, table, issues)
    BY <1>1, <2>1 DEF Good, Effects, InOrder, RuleFixed, Accounted, Execution
  <2> QED
    BY <2>1, <2>2, <2>3, OwnStep
<1> QED
  BY <1>2, <1>3

(* Writing the rule keeps the invariant.                                   *)
LEMMA WriteSteps ==
  ASSUME HandoffInv, NEW e \in Executions,
         NoRuleSink(e) \/ WriteRule(e) \/ WriteReturns(e) \/ WriteFails(e)
  PROVE  HandoffInv' /\ RowStep
<1> DEFINE x == exec[e]
<1>1. /\ x \in Execution /\ x.out \in Report
      /\ Good(x, request, table, issues)
      /\ request \in Request /\ producer \in Rules
  BY BeforeStep
<1>2. CASE NoRuleSink(e)
  <2> DEFINE y == [x EXCEPT !.pc = "handoff",
                          !.out.limitations = @ \union {"rule not written"}]
  <2>1. Step(e, y) /\ x.pc = "resolved"
    BY <1>2 DEF NoRuleSink, WriteSettled, At
  <2>2. y \in Execution
    BY <1>1 DEF Execution, Report, Places, Calls, Claims, Limitations
  <2>3. Good(y, request, table, issues)
    BY <1>1, <2>1 DEF Good, Effects, InOrder, RuleFixed, Accounted,
                      RowAccounted, IssueAccounted, Execution, Report
  <2> QED
    BY <2>1, <2>2, <2>3, OwnStep
<1>3. CASE WriteRule(e)
  <2> DEFINE y == [x EXCEPT !.pc = "writing", !.merge = "sent"]
  <2>1. Step(e, y) /\ x.pc = "resolved"
    BY <1>3 DEF WriteRule, At
  <2>2. y \in Execution
    BY <1>1 DEF Execution, Report, Places, Calls, Claims, Limitations
  <2>3. Good(y, request, table, issues)
    BY <1>1, <2>1 DEF Good, Effects, InOrder, RuleFixed, Accounted,
                      RowAccounted, IssueAccounted, Execution, Report
  <2> QED
    BY <2>1, <2>2, <2>3, OwnStep
<1>4. CASE WriteReturns(e)
  <2> DEFINE y == [x EXCEPT !.pc = "handoff", !.written = TRUE,
                          !.out.steps = @ \union {"rule written"}]
  <2>1. Step(e, y) /\ x.pc = "writing" /\ x.merge = "effective"
    BY <1>4 DEF WriteReturns, WriteSettled, At
  <2>2. y \in Execution
    BY <1>1 DEF Execution, Report, Places, Calls, Claims, Limitations
  <2>3. Good(y, request, table, issues)
    BY <1>1, <2>1 DEF Good, Effects, InOrder, RuleFixed, Accounted,
                      RowAccounted, IssueAccounted, Execution, Report
  <2> QED
    BY <2>1, <2>2, <2>3, OwnStep
<1>5. CASE WriteFails(e)
  <2> DEFINE y == [x EXCEPT !.pc = "handoff",
                          !.out.limitations = @ \union {"rule not written"}]
  <2>1. Step(e, y) /\ x.pc = "writing"
    BY <1>5 DEF WriteFails, WriteSettled, At
  <2>2. y \in Execution
    BY <1>1 DEF Execution, Report, Places, Calls, Claims, Limitations
  <2>3. Good(y, request, table, issues)
    BY <1>1, <2>1 DEF Good, Effects, InOrder, RuleFixed, Accounted,
                      RowAccounted, IssueAccounted, Execution, Report
  <2> QED
    BY <2>1, <2>2, <2>3, OwnStep
<1> QED
  BY <1>2, <1>3, <1>4, <1>5

(* Posting the issue keeps the invariant.                                  *)
LEMMA PostSteps ==
  ASSUME HandoffInv, NEW e \in Executions,
         \/ NotRequested(e) \/ RowMissing(e) \/ Unpostable(e)
         \/ CreateIssue(e) \/ PostReturns(e) \/ PostFails(e)
  PROVE  HandoffInv' /\ RowStep
<1> DEFINE x == exec[e]
<1>1. /\ x \in Execution /\ x.out \in Report
      /\ Good(x, request, table, issues)
      /\ request \in Request /\ producer \in Rules
  BY BeforeStep
<1>2. CASE NotRequested(e)
  <2> DEFINE y == [x EXCEPT !.pc = "finalizing"]
  <2>1. Step(e, y) /\ x.pc = "handoff" /\ request.enforcement = "absent"
    BY <1>2 DEF NotRequested, At
  <2>2. y \in Execution
    BY <1>1 DEF Execution, Report, Places, Calls, Claims, Limitations
  <2>3. Good(y, request, table, issues)
    BY <1>1, <2>1 DEF Good, Effects, InOrder, RuleFixed, Accounted,
                      RowAccounted, IssueAccounted, Execution, Report
  <2> QED
    BY <2>1, <2>2, <2>3, OwnStep
<1>3. CASE RowMissing(e)
  <2> DEFINE y == [x EXCEPT !.pc = "finalizing",
                          !.out.limitations = @ \union {"issue not posted"}]
  <2>1. Step(e, y) /\ x.pc = "handoff"
    BY <1>3 DEF RowMissing, NotPosted, At
  <2>2. y \in Execution
    BY <1>1 DEF Execution, Report, Places, Calls, Claims, Limitations
  <2>3. Good(y, request, table, issues)
    BY <1>1, <2>1 DEF Good, Effects, InOrder, RuleFixed, Accounted,
                      RowAccounted, IssueAccounted, Execution, Report
  <2> QED
    BY <2>1, <2>2, <2>3, OwnStep
<1>4. CASE Unpostable(e)
  <2> DEFINE y == [x EXCEPT !.pc = "finalizing",
                          !.out.limitations = @ \union {"issue not posted"}]
  <2>1. Step(e, y) /\ x.pc = "handoff"
    BY <1>4 DEF Unpostable, NotPosted, At
  <2>2. y \in Execution
    BY <1>1 DEF Execution, Report, Places, Calls, Claims, Limitations
  <2>3. Good(y, request, table, issues)
    BY <1>1, <2>1 DEF Good, Effects, InOrder, RuleFixed, Accounted,
                      RowAccounted, IssueAccounted, Execution, Report
  <2> QED
    BY <2>1, <2>2, <2>3, OwnStep
<1>5. CASE CreateIssue(e)
  <2> DEFINE y == [x EXCEPT !.pc = "posting", !.post = "sent"]
  <2>1. Step(e, y) /\ x.pc = "handoff" /\ x.written
    BY <1>5 DEF CreateIssue, At
  <2>2. y \in Execution
    BY <1>1 DEF Execution, Report, Places, Calls, Claims, Limitations
  <2>3. Good(y, request, table, issues)
    BY <1>1, <2>1 DEF Good, Effects, InOrder, RuleFixed, Accounted,
                      RowAccounted, IssueAccounted, Execution, Report
  <2> QED
    BY <2>1, <2>2, <2>3, OwnStep
<1>6. CASE PostReturns(e)
  <2> DEFINE y == [x EXCEPT !.pc = "finalizing",
                          !.out.steps = @ \union {"issue posted"}]
  <2>1. Step(e, y) /\ x.pc = "posting" /\ x.post = "effective"
    BY <1>6 DEF PostReturns, At
  <2>2. y \in Execution
    BY <1>1 DEF Execution, Report, Places, Calls, Claims, Limitations
  <2>3. Good(y, request, table, issues)
    BY <1>1, <2>1 DEF Good, Effects, InOrder, RuleFixed, Accounted,
                      RowAccounted, IssueAccounted, Execution, Report
  <2> QED
    BY <2>1, <2>2, <2>3, OwnStep
<1>7. CASE PostFails(e)
  <2> DEFINE y == [x EXCEPT !.pc = "finalizing",
                          !.out.limitations = @ \union {"issue not posted"}]
  <2>1. Step(e, y) /\ x.pc = "posting"
    BY <1>7 DEF PostFails, NotPosted, At
  <2>2. y \in Execution
    BY <1>1 DEF Execution, Report, Places, Calls, Claims, Limitations
  <2>3. Good(y, request, table, issues)
    BY <1>1, <2>1 DEF Good, Effects, InOrder, RuleFixed, Accounted,
                      RowAccounted, IssueAccounted, Execution, Report
  <2> QED
    BY <2>1, <2>2, <2>3, OwnStep
<1> QED
  BY <1>2, <1>3, <1>4, <1>5, <1>6, <1>7

(* The steps of an execution that touch nothing outside keep it too.       *)
LEMMA QuietSteps ==
  ASSUME HandoffInv, NEW e \in Executions,
         \/ Finalize(e) \/ Discard(e) \/ Crash(e)
         \/ MergeLost(e) \/ IssueLost(e)
  PROVE  HandoffInv' /\ RowStep
<1> DEFINE x == exec[e]
<1>1. /\ x \in Execution /\ x.out \in Report
      /\ Good(x, request, table, issues)
      /\ request \in Request /\ producer \in Rules
  BY BeforeStep
<1>2. CASE Finalize(e)
  <2> DEFINE y == [x EXCEPT !.pc = "done", !.requestID = "run"]
  <2>1. Step(e, y) /\ x.pc = "finalizing"
    BY <1>2 DEF Finalize, At
  <2>2. y \in Execution
    BY <1>1 DEF Execution, Report, Places, Calls, Claims, Limitations
  <2>3. Good(y, request, table, issues)
    BY <1>1, <2>1 DEF Good, Effects, InOrder, RuleFixed, Accounted,
                      RowAccounted, IssueAccounted, Execution, Report
  <2> QED
    BY <2>1, <2>2, <2>3, OwnStep
<1>3. CASE Discard(e)
  <2> DEFINE y == [x EXCEPT !.pc = "gone"]
  <2>1. Step(e, y) /\ x.pc = "done"
    BY <1>3 DEF Discard, At
  <2>2. y \in Execution
    BY <1>1 DEF Execution, Report, Places, Calls, Claims, Limitations
  <2>3. Good(y, request, table, issues)
    BY <1>1, <2>1 DEF Good, Effects, InOrder, RuleFixed, Accounted,
                      RowAccounted, IssueAccounted, Execution, Report
  <2> QED
    BY <2>1, <2>2, <2>3, OwnStep
<1>4. CASE Crash(e)
  <2> DEFINE y == [x EXCEPT !.pc = "gone"]
  <2>1. Step(e, y) /\ x.pc # "queued"
    BY <1>4 DEF Crash
  <2>2. y \in Execution
    BY <1>1 DEF Execution, Report, Places, Calls, Claims, Limitations
  <2>3. Good(y, request, table, issues)
    BY <1>1, <2>1 DEF Good, Effects, InOrder, RuleFixed, Accounted,
                      RowAccounted, IssueAccounted, Execution, Report
  <2> QED
    BY <2>1, <2>2, <2>3, OwnStep
<1>5. CASE MergeLost(e)
  <2> DEFINE y == [x EXCEPT !.merge = "lost"]
  <2>1. Step(e, y) /\ x.merge = "sent"
    BY <1>5 DEF MergeLost
  <2>2. y \in Execution
    BY <1>1 DEF Execution, Report, Places, Calls, Claims, Limitations
  <2>3. Good(y, request, table, issues)
    BY <1>1, <2>1 DEF Good, Effects, InOrder, RuleFixed, Accounted,
                      RowAccounted, IssueAccounted, Execution, Report
  <2> QED
    BY <2>1, <2>2, <2>3, OwnStep
<1>6. CASE IssueLost(e)
  <2> DEFINE y == [x EXCEPT !.post = "lost"]
  <2>1. Step(e, y) /\ x.post = "sent"
    BY <1>6 DEF IssueLost
  <2>2. y \in Execution
    BY <1>1 DEF Execution, Report, Places, Calls, Claims, Limitations
  <2>3. Good(y, request, table, issues)
    BY <1>1, <2>1 DEF Good, Effects, InOrder, RuleFixed, Accounted,
                      RowAccounted, IssueAccounted, Execution, Report
  <2> QED
    BY <2>1, <2>2, <2>3, OwnStep
<1> QED
  BY <1>2, <1>3, <1>4, <1>5, <1>6

(* A claim keeps the invariant.                                            *)
LEMMA ClaimStep ==
  ASSUME HandoffInv, NEW e \in Executions, Claim(e)
  PROVE  HandoffInv' /\ RowStep
<1> DEFINE x == exec[e]
           y == [x EXCEPT !.pc = "resolving"]
<1>1. x \in Execution /\ Good(x, request, table, issues) /\ x.pc = "queued"
  BY BeforeStep DEF Claim, At
<1>2. /\ exec' = [exec EXCEPT ![e] = y] /\ holder' = e
      /\ UNCHANGED <<request, producer, table, issues, staged>>
  BY DEF Claim
<1>3. y \in Execution
  BY <1>1 DEF Execution, Places
<1>4. Good(y, request, table, issues)
  BY <1>1 DEF Good, Effects, InOrder, RuleFixed, Accounted, Execution
<1> HIDE DEF y
<1>5. TypeOK'
  BY <1>2, <1>3 DEF HandoffInv, TypeOK
<1>6. ASSUME NEW f \in Executions
      PROVE  Good(exec'[f], request', table', issues')
  <2>1. exec'[f] = IF f = e THEN y ELSE exec[f]
    BY <1>2 DEF HandoffInv, TypeOK
  <2> QED
    BY <1>2, <1>4, <2>1 DEF HandoffInv
<1>7. Outside'
  BY <1>2 DEF HandoffInv, Outside, OneIssueIfKeyHonoured, StepsAreTrue,
              NothingSwallowed
<1> QED
  BY <1>2, <1>5, <1>6, <1>7 DEF HandoffInv, RowStep

(* Staging keeps it: what the report says was true of the execution, and   *)
(* no row or issue has gone since.                                         *)
LEMMA StageStep ==
  ASSUME HandoffInv, NEW e \in Executions, Stage(e)
  PROVE  HandoffInv' /\ RowStep
<1> DEFINE x == exec[e]
           y == [x EXCEPT !.pc = "gone"]
<1>1. /\ x \in Execution /\ x.out \in Report
      /\ Good(x, request, table, issues) /\ x.pc = "done"
  BY BeforeStep DEF Stage, At
<1>2. /\ exec' = [exec EXCEPT ![e] = y] /\ staged' = x.out
      /\ UNCHANGED <<request, producer, holder, table, issues>>
  BY DEF Stage
<1>3. y \in Execution
  BY <1>1 DEF Execution, Places
<1>4. Good(y, request, table, issues)
  BY <1>1 DEF Good, Effects, InOrder, RuleFixed, Accounted, Execution
<1> HIDE DEF y
<1>5. TypeOK'
  BY <1>1, <1>2, <1>3 DEF HandoffInv, TypeOK
<1>6. ASSUME NEW f \in Executions
      PROVE  Good(exec'[f], request', table', issues')
  <2>1. exec'[f] = IF f = e THEN y ELSE exec[f]
    BY <1>2 DEF HandoffInv, TypeOK
  <2> QED
    BY <1>2, <1>4, <2>1 DEF HandoffInv
<1>7. StepsAreTrue'
  BY <1>1, <1>2 DEF Good, Effects, StepsAreTrue
<1>8. NothingSwallowed'
  BY <1>1, <1>2 DEF Good, Accounted, RowAccounted, IssueAccounted,
                    NothingSwallowed
<1>9. Outside'
  BY <1>2, <1>7, <1>8 DEF HandoffInv, Outside, OneIssueIfKeyHonoured
<1> QED
  BY <1>2, <1>5, <1>6, <1>9 DEF HandoffInv, RowStep

(* More rows and more issues do not unsettle an execution.                 *)
LEMMA GoodIsMonotone ==
  ASSUME NEW x, NEW q, NEW rows, NEW posted, NEW rows2, NEW posted2,
         Good(x, q, rows, posted),
         rows # {} => rows2 # {}, posted # {} => posted2 # {}
  PROVE  Good(x, q, rows2, posted2)
BY DEF Good, Effects

(* A MERGE that takes effect, early or late, keeps the invariant and any   *)
(* row that is there.                                                      *)
LEMMA MergeStep ==
  ASSUME HandoffInv, NEW e \in Executions, MergeLands(e)
  PROVE  HandoffInv' /\ RowStep
<1> DEFINE x == exec[e]
           y == [x EXCEPT !.merge = "effective"]
<1>1. /\ x \in Execution /\ x.out \in Report
      /\ Good(x, request, table, issues) /\ x.merge = "sent"
  BY BeforeStep DEF MergeLands
<1>2. /\ exec' = [exec EXCEPT ![e] = y]
      /\ table' = Merged(table, x.out.rule)
      /\ UNCHANGED <<request, producer, holder, issues, staged>>
  BY DEF MergeLands
<1>3. x.out.rule \in Rules
      /\ (request.mode # "upstream" => x.out.rule = request.rule)
  BY <1>1 DEF Good, RuleFixed, Report
<1>4. /\ table' # {} /\ table' \in SUBSET Rules /\ RowStep
      /\ (request.mode # "upstream" => table' \subseteq {request.rule})
  BY <1>2, <1>3 DEF Merged, RowStep, HandoffInv, TypeOK, Outside
<1>5. y \in Execution
  BY <1>1 DEF Execution, Calls
<1>6. Good(y, request, table', issues)
  BY <1>1, <1>4 DEF Good, Effects, InOrder, RuleFixed, Accounted, Execution
<1> HIDE DEF y
<1>7. TypeOK'
  BY <1>2, <1>4, <1>5 DEF HandoffInv, TypeOK
<1>8. ASSUME NEW f \in Executions
      PROVE  Good(exec'[f], request', table', issues')
  <2>1. exec'[f] = IF f = e THEN y ELSE exec[f]
    BY <1>2 DEF HandoffInv, TypeOK
  <2>2. Good(exec[f], request, table', issues)
    BY <1>4, GoodIsMonotone DEF HandoffInv
  <2> QED
    BY <1>2, <1>6, <2>1, <2>2
<1>9. Outside'
  BY <1>2, <1>4 DEF HandoffInv, Outside, OneIssueIfKeyHonoured, StepsAreTrue,
                    NothingSwallowed
<1> QED
  BY <1>4, <1>7, <1>8, <1>9 DEF HandoffInv

(* A POST that takes effect, early or late, finds the row there, and is    *)
(* dropped by an XSIAM that honours the key if an issue is there already.  *)
LEMMA IssueStep ==
  ASSUME HandoffInv, NEW e \in Executions, IssueLands(e)
  PROVE  HandoffInv' /\ RowStep
<1> DEFINE x == exec[e]
           y == [x EXCEPT !.post = "effective"]
           new == IssueOf(e)
<1>1. /\ x \in Execution /\ x.out \in Report
      /\ Good(x, request, table, issues) /\ x.post = "sent"
  BY BeforeStep DEF IssueLands
<1>2. /\ exec' = [exec EXCEPT ![e] = y]
      /\ issues' = IF KeyHonoured /\ \E i \in issues : i.key = new.key
                   THEN issues ELSE issues \union {new}
      /\ UNCHANGED <<request, producer, holder, table, staged>>
  BY DEF IssueLands
<1>3. /\ table # {} /\ x.out.rule \in Rules
      /\ (request.mode # "upstream" => x.out.rule = request.rule)
  BY <1>1 DEF Good, Effects, RuleFixed, Report
<1>4. /\ new \in Issue /\ new.key = "result"
      /\ (request.mode # "upstream" => new.rule = request.rule)
  BY <1>1, <1>3 DEF IssueOf, Issue, Execution
<1> HIDE DEF new
<1>5. issues' # {} /\ issues' \in SUBSET Issue
  BY <1>2, <1>4 DEF HandoffInv, TypeOK
<1>6. /\ \A i \in issues' : i.key = "result"
      /\ request.mode # "upstream" => \A i \in issues' : i.rule = request.rule
  BY <1>2, <1>4 DEF HandoffInv, Outside
<1>7. KeyHonoured => \A i, j \in issues' : i = j
  <2> SUFFICES ASSUME KeyHonoured PROVE \A i, j \in issues' : i = j
    OBVIOUS
  <2>1. CASE issues = {}
    BY <1>2, <2>1
  <2>2. CASE issues # {}
    <3>1. issues' = issues
      BY <1>2, <1>4, <2>2 DEF HandoffInv, Outside
    <3> QED
      BY <3>1 DEF HandoffInv, Outside, OneIssueIfKeyHonoured
  <2> QED
    BY <2>1, <2>2
<1>8. y \in Execution
  BY <1>1 DEF Execution, Calls
<1>9. Good(y, request, table, issues')
  BY <1>1, <1>5 DEF Good, Effects, InOrder, RuleFixed, Accounted, Execution
<1> HIDE DEF y
<1>10. TypeOK'
  BY <1>2, <1>5, <1>8 DEF HandoffInv, TypeOK
<1>11. ASSUME NEW f \in Executions
       PROVE  Good(exec'[f], request', table', issues')
  <2>1. exec'[f] = IF f = e THEN y ELSE exec[f]
    BY <1>2 DEF HandoffInv, TypeOK
  <2>2. Good(exec[f], request, table, issues')
    BY <1>5, GoodIsMonotone DEF HandoffInv
  <2> QED
    BY <1>2, <1>9, <2>1, <2>2
<1>12. Outside'
  BY <1>2, <1>3, <1>5, <1>6, <1>7
     DEF HandoffInv, Outside, OneIssueIfKeyHonoured, StepsAreTrue,
         NothingSwallowed
<1> QED
  BY <1>2, <1>10, <1>11, <1>12 DEF HandoffInv, RowStep

(* A producer that replaces its row, and a step that does nothing.         *)
LEMMA UnchangedSteps ==
  ASSUME HandoffInv, ProducerRewrites \/ UNCHANGED vars
  PROVE  HandoffInv' /\ RowStep
<1>1. /\ UNCHANGED <<request, exec, holder, table, issues, staged>>
      /\ producer' \in Rules
  BY DEF ProducerRewrites, vars, HandoffInv, TypeOK
<1>2. TypeOK'
  BY <1>1 DEF HandoffInv, TypeOK
<1>3. Outside'
  BY <1>1 DEF HandoffInv, Outside, OneIssueIfKeyHonoured, StepsAreTrue,
              NothingSwallowed
<1> QED
  BY <1>1, <1>2, <1>3 DEF HandoffInv, RowStep

(* Every step keeps the invariant and any row that is there.               *)
LEMMA HandoffSteps ==
  ASSUME HandoffInv, [Next]_vars
  PROVE  HandoffInv' /\ RowStep
<1>1. ASSUME NEW e \in Executions,
             \/ Claim(e) \/ Resolve(e) \/ ResolutionFails(e)
             \/ NoRuleSink(e) \/ WriteRule(e) \/ WriteReturns(e)
             \/ WriteFails(e) \/ NotRequested(e) \/ RowMissing(e)
             \/ Unpostable(e) \/ CreateIssue(e) \/ PostReturns(e)
             \/ PostFails(e) \/ Finalize(e) \/ Stage(e) \/ Discard(e)
             \/ Environment(e)
      PROVE  HandoffInv' /\ RowStep
  BY <1>1, ClaimStep, ResolutionSteps, WriteSteps, PostSteps, QuietSteps,
     StageStep, MergeStep, IssueStep DEF Environment
<1>2. CASE ProducerRewrites \/ UNCHANGED vars
  BY <1>2, UnchangedSteps
<1> QED
  BY <1>1, <1>2 DEF Next

(* The invariant holds throughout.                                         *)
THEOREM HandoffInvariance == Spec => []HandoffInv
<1>1. HandoffInv /\ [Next]_vars => HandoffInv'
  BY HandoffSteps
<1> QED
  BY InitHandoff, <1>1, PTL DEF Spec

(* The hand-off's state is well typed.                                     *)
THEOREM HandoffTypeCorrect == Spec => []TypeOK
<1>1. HandoffInv => TypeOK
  BY DEF HandoffInv
<1> QED
  BY <1>1, HandoffInvariance, PTL

(* However often the run is executed and whatever is lost or late, an      *)
(* issue in XSIAM names a row that exists, and the requested rule is the   *)
(* one in both when the request pins it.                                   *)
THEOREM IssueBackedByRow == Spec => []IssueMatchesRow
<1>1. HandoffInv => IssueMatchesRow
  BY DEF HandoffInv, Outside, IssueMatchesRow
<1> QED
  BY <1>1, HandoffInvariance, PTL

(* What a staged result says it did, to the row or in XSIAM, was done.     *)
THEOREM ReportTruthful == Spec => []StepsAreTrue
<1>1. HandoffInv => StepsAreTrue
  BY DEF HandoffInv, Outside
<1> QED
  BY <1>1, HandoffInvariance, PTL

(* A staged result leaves no failed write and no failed post out.          *)
THEOREM ReportComplete == Spec => []NothingSwallowed
<1>1. HandoffInv => NothingSwallowed
  BY DEF HandoffInv, Outside
<1> QED
  BY <1>1, HandoffInvariance, PTL

(* With a receiver that honours the key, a run has one issue at most.      *)
THEOREM OneIssue == Spec => []OneIssueIfKeyHonoured
<1>1. HandoffInv => OneIssueIfKeyHonoured
  BY DEF HandoffInv, Outside
<1> QED
  BY <1>1, HandoffInvariance, PTL

(* A row of the rule table is never changed or joined by another.          *)
THEOREM RowStays == Spec => RowIsFinal
<1>1. HandoffInv /\ [Next]_vars => [RowStep]_vars
  BY HandoffSteps
<1> QED
  BY <1>1, HandoffInvariance, PTL DEF Spec, RowIsFinal, RowStep
=============================================================================
