---------------------------- MODULE RuleHandoff ----------------------------
(***************************************************************************)
(* What the executions of one run do outside the ledger (executeDurableRun *)
(* in api/lifecycle.go, api/rule_sink.go, api/enforcement.go): resolve the *)
(* requested rule, write it to the rule table, post the enforcement issue, *)
(* and return the report that the worker stages.                           *)
(*                                                                         *)
(* A run whose worker lost its lease is executed again, with the same      *)
(* result_id, while the first execution may still be going on: RunLedger   *)
(* has the leases, here an execution may start whenever nothing is staged, *)
(* and only the execution that started last can stage its report.  A MERGE *)
(* or a POST takes effect when the service gets to it, which may be after  *)
(* its sender has given up on it or has died, or never.                    *)
(***************************************************************************)
EXTENDS Naturals

CONSTANTS
  Executions,   \* executions of the run; their number bounds the retries
  Rules,        \* rules a producer row may hold
  Mappable,     \* the rules JanusPayload translates
  NoRule,
  NoExecution,
  KeyHonoured   \* whether XSIAM drops an issue whose idempotency key it has

ASSUME HandoffConstants ==
  /\ Mappable \subseteq Rules /\ NoRule \notin Rules
  /\ NoExecution \notin Executions
  /\ KeyHonoured \in BOOLEAN

VARIABLES
  request,   \* how the request names its rule, which one, its enforcement
  producer,  \* the rule in the row the request refers to
  exec,      \* the executions
  holder,    \* the execution that holds the lease
  table,     \* the rows of the rule table with the run's result_id
  issues,    \* the enforcement issues in XSIAM
  staged     \* the report of the staged result, or NotStaged

vars == <<request, producer, exec, holder, table, issues, staged>>

(* Inline requests carry the rule, or a candidate that is of no use; a     *)
(* locator pins the digest of a row; upstream_inputs only name a row.      *)
Request == [mode : {"inline", "useless", "locator", "upstream"}, rule : Rules,
            enforcement : {"absent", "malformed", "present"}]

(* What an outcome says was done, and what it says was not.                *)
Claims == {"rule written", "issue posted"}
Limitations == {"rule not written", "issue not posted"}
Report == [rule : Rules \union {NoRule}, steps : SUBSET Claims,
           limitations : SUBSET Limitations]
(* Not a report: an outcome with a limitation has a rule.                  *)
NotStaged == [rule |-> NoRule, steps |-> {}, limitations |-> Limitations]

Places == {"queued", "resolving", "resolved", "writing", "handoff", "posting",
           "finalizing", "done", "gone"}
Calls == {"unsent", "sent", "effective", "lost"}
Execution ==
  [pc : Places, out : Report, written : BOOLEAN,
   requestID : {"", "run"}, merge : Calls, post : Calls,
   sink : BOOLEAN, tenant : BOOLEAN]

(* An execution by a process with or without a rule sink and a tenant.     *)
NewExecution(sink, tenant) ==
  [pc |-> "queued",
   out |-> [rule |-> NoRule, steps |-> {}, limitations |-> {}],
   written |-> FALSE, requestID |-> "", merge |-> "unsent",
   post |-> "unsent", sink |-> sink, tenant |-> tenant]

(* An issue: the rule it carries, the run identity and the key it names.   *)
Issue == [by : Executions, rule : Rules, identity : {"", "run"},
          key : {"result"} \union Executions]

Init ==
  /\ request \in Request
  /\ producer = request.rule
  /\ \E sinks, tenants \in SUBSET Executions :
       exec = [e \in Executions |-> NewExecution(e \in sinks, e \in tenants)]
  /\ holder = NoExecution
  /\ table = {}
  /\ issues = {}
  /\ staged = NotStaged

At(e, place) == exec[e].pc = place

(* Execution e moves on with a changed record.                             *)
Step(e, record) ==
  /\ exec' = [exec EXCEPT ![e] = record]
  /\ UNCHANGED <<request, producer, holder, table, issues, staged>>

(***************************************************************************)
(* Resolution.                                                             *)
(***************************************************************************)

(* A worker claims the run: for the first time, or after a lease ran out.  *)
Claim(e) ==
  /\ At(e, "queued") /\ staged = NotStaged
  /\ exec' = [exec EXCEPT ![e].pc = "resolving"]
  /\ holder' = e
  /\ UNCHANGED <<request, producer, table, issues, staged>>

Readable_Unpinned ==                      \* Mistake: skips the digest
  IF request.mode = "inline" THEN {request.rule} ELSE {producer}

(* The rules the resolution can come to.  A locator's digest refuses a row *)
(* that has changed since it was named.                                    *)
Readable ==
  CASE request.mode = "inline" -> {request.rule}
    [] request.mode = "useless" -> {}
    [] request.mode = "locator" -> {producer} \intersect {request.rule}
    [] request.mode = "upstream" -> {producer}

Resolve(e) ==
  /\ At(e, "resolving")
  /\ \E r \in Readable :
       Step(e, [exec[e] EXCEPT !.pc = "resolved", !.out.rule = r])

(* The row cannot be read or is refused: the outcome has no candidate, and *)
(* both persistResolvedRule and postEnforcementIssue return at once.       *)
ResolutionFails(e) ==
  /\ At(e, "resolving") /\ request.mode # "inline"
  /\ Step(e, [exec[e] EXCEPT !.pc = "finalizing"])

(***************************************************************************)
(* persistResolvedRule and WriteRule.                                      *)
(***************************************************************************)

(* What is left of the write: the report and whether the row was written.  *)
WriteSettled(e, ok) ==
  Step(e, IF ok
          THEN [exec[e] EXCEPT !.pc = "handoff", !.written = TRUE,
                               !.out.steps = @ \union {"rule written"}]
          ELSE [exec[e] EXCEPT !.pc = "handoff",
                               !.out.limitations = @ \union
                                                   {"rule not written"}])

NoRuleSink(e) ==
  /\ At(e, "resolved") /\ ~exec[e].sink
  /\ WriteSettled(e, FALSE)

WriteRule(e) ==
  /\ At(e, "resolved") /\ exec[e].sink
  /\ Step(e, [exec[e] EXCEPT !.pc = "writing", !.merge = "sent"])

WriteReturns(e) ==
  /\ At(e, "writing") /\ exec[e].merge = "effective"
  /\ WriteSettled(e, TRUE)

WriteFails_Ignored(e) ==                  \* Mistake: drops the error
  /\ At(e, "writing")
  /\ WriteSettled(e, TRUE)

(* The statement fails, or the execution stops waiting for it.             *)
WriteFails(e) ==
  /\ At(e, "writing")
  /\ WriteSettled(e, FALSE)

(* ruleMergeSQL inserts when no row has the result_id.                     *)
Merged(rows, r) == IF rows = {} THEN {r} ELSE rows

MergeLands(e) ==
  /\ exec[e].merge = "sent"
  /\ table' = Merged(table, exec[e].out.rule)
  /\ exec' = [exec EXCEPT ![e].merge = "effective"]
  /\ UNCHANGED <<request, producer, holder, issues, staged>>

MergeLost(e) ==
  /\ exec[e].merge = "sent"
  /\ Step(e, [exec[e] EXCEPT !.merge = "lost"])

(***************************************************************************)
(* postEnforcementIssue and CreateIssue.                                   *)
(***************************************************************************)

NotPosted_Silent(e) ==                    \* Mistake: returns without a word
  Step(e, [exec[e] EXCEPT !.pc = "finalizing"])

NotPosted(e) ==
  Step(e, [exec[e] EXCEPT !.pc = "finalizing",
                          !.out.limitations = @ \union {"issue not posted"}])

NotRequested(e) ==
  /\ At(e, "handoff") /\ request.enforcement = "absent"
  /\ Step(e, [exec[e] EXCEPT !.pc = "finalizing"])

RowMissing(e) ==
  /\ At(e, "handoff") /\ request.enforcement # "absent" /\ ~exec[e].written
  /\ NotPosted(e)

(* The enforcement object, the translation and the tenant configuration    *)
(* are looked at before anything is sent.                                  *)
Postable(e) ==
  /\ request.enforcement = "present"
  /\ exec[e].out.rule \in Mappable
  /\ exec[e].tenant

Unpostable(e) ==
  /\ At(e, "handoff") /\ request.enforcement # "absent" /\ exec[e].written
  /\ ~Postable(e)
  /\ NotPosted(e)

CreateIssue(e) ==
  /\ At(e, "handoff") /\ exec[e].written /\ Postable(e)
  /\ Step(e, [exec[e] EXCEPT !.pc = "posting", !.post = "sent"])

(* The issue takes its identity from the outcome, and the result_id as its *)
(* idempotency key.                                                        *)
IssueOf(e) ==
  [by |-> e, rule |-> exec[e].out.rule, identity |-> exec[e].requestID,
   key |-> "result"]

(* XSIAM creates the issue, unless it honours a key it already has.        *)
IssueLands(e) ==
  /\ exec[e].post = "sent"
  /\ issues' = IF KeyHonoured /\ \E i \in issues : i.key = IssueOf(e).key
               THEN issues ELSE issues \union {IssueOf(e)}
  /\ exec' = [exec EXCEPT ![e].post = "effective"]
  /\ UNCHANGED <<request, producer, holder, table, staged>>

IssueLost(e) ==
  /\ exec[e].post = "sent"
  /\ Step(e, [exec[e] EXCEPT !.post = "lost"])

PostReturns(e) ==
  /\ At(e, "posting") /\ exec[e].post = "effective"
  /\ Step(e, [exec[e] EXCEPT !.pc = "finalizing",
                             !.out.steps = @ \union {"issue posted"}])

(* The call fails, its answer is lost, or it is not a 2xx.                 *)
PostFails(e) ==
  /\ At(e, "posting")
  /\ NotPosted(e)

(***************************************************************************)
(* The end of an execution.                                                *)
(***************************************************************************)

(* executeDurableRun puts the identity of the run on the outcome.          *)
Finalize(e) ==
  /\ At(e, "finalizing")
  /\ Step(e, [exec[e] EXCEPT !.pc = "done", !.requestID = "run"])

(* The worker stages the outcome; the lease fences out all but the last    *)
(* execution.                                                              *)
Stage(e) ==
  /\ At(e, "done") /\ holder = e /\ staged = NotStaged
  /\ staged' = exec[e].out
  /\ exec' = [exec EXCEPT ![e].pc = "gone"]
  /\ UNCHANGED <<request, producer, holder, table, issues>>

Discard(e) ==
  /\ At(e, "done") /\ (holder # e \/ staged # NotStaged)
  /\ Step(e, [exec[e] EXCEPT !.pc = "gone"])

Crash(e) ==
  /\ exec[e].pc \notin {"queued", "gone"}
  /\ Step(e, [exec[e] EXCEPT !.pc = "gone"])

(* A producer replaces the row that the request refers to.                 *)
ProducerRewrites ==
  \E r \in Rules \ {producer} :
    /\ producer' = r
    /\ UNCHANGED <<request, exec, holder, table, issues, staged>>

Environment(e) ==
  MergeLands(e) \/ MergeLost(e) \/ IssueLands(e) \/ IssueLost(e) \/ Crash(e)

Next ==
  \/ \E e \in Executions :
       \/ Claim(e) \/ Resolve(e) \/ ResolutionFails(e)
       \/ NoRuleSink(e) \/ WriteRule(e) \/ WriteReturns(e) \/ WriteFails(e)
       \/ NotRequested(e) \/ RowMissing(e) \/ Unpostable(e)
       \/ CreateIssue(e) \/ PostReturns(e) \/ PostFails(e)
       \/ Finalize(e) \/ Stage(e) \/ Discard(e)
       \/ Environment(e)
  \/ ProducerRewrites

Spec == Init /\ [][Next]_vars

(***************************************************************************)
(* Properties.                                                             *)
(***************************************************************************)

TypeOK ==
  /\ request \in Request
  /\ producer \in Rules
  /\ exec \in [Executions -> Execution]
  /\ holder \in Executions \union {NoExecution}
  /\ table \in SUBSET Rules
  /\ issues \in SUBSET Issue
  /\ staged \in Report

(* An issue "must not be posted before that row exists": no interleaving   *)
(* of executions, late statements and crashes leaves an issue in XSIAM     *)
(* while the rule table has no row for the run.  Where the request pins    *)
(* its rule, what XSIAM is asked to enforce is the rule the push           *)
(* integration finds there, whichever execution wrote the row and          *)
(* whichever posted the issue.                                             *)
IssueMatchesRow ==
  /\ issues # {} => table # {}
  /\ request.mode # "upstream" => \A i \in issues : table = {i.rule}

(* A row that was handed off is never changed or joined by another.        *)
RowIsFinal == [][table # {} => table' = table]_vars

(* What a staged result says it did was done: the row is there, and an     *)
(* issue for the run is there.                                             *)
StepsAreTrue ==
  /\ "rule written" \in staged.steps => table # {}
  /\ "issue posted" \in staged.steps => issues # {}

(* A write or a post that did not succeed "is recorded on the result,      *)
(* never swallowed": a staged result with a rule accounts for the row and, *)
(* if the request asked for one, for the issue.                            *)
NothingSwallowed ==
  staged.rule # NoRule
    => /\ {"rule written", "rule not written"}
            \intersect (staged.steps \union staged.limitations) # {}
       /\ request.enforcement # "absent"
            => {"issue posted", "issue not posted"}
                 \intersect (staged.steps \union staged.limitations) # {}

(* An XSIAM that honours the idempotency key gets one issue per run,       *)
(* however often the run is executed.                                      *)
OneIssueIfKeyHonoured ==
  KeyHonoured => \A i, j \in issues : i = j
=============================================================================
