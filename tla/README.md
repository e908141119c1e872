# A TLA+ verification of defense-validation

This directory holds TLA+ models of the defense-validation service (`api/`), the
TLC runs that check them on small instances, and TLAPS proofs of the main results
for every value of the constants. The code is the reference: every definition that
models code is mapped to its lines in `PROJECT.json`.

## 1. The system

defense-validation accepts a request over HTTP, records it as a *run* in
PostgreSQL, lets a worker resolve the defensive rule the request refers to, and
publishes the result to an insert-only Databricks table. Several replicas of the
same process share one ledger; each has an HTTP server, one worker goroutine and
one callback dispatcher.

| part | source | state it keeps | operations |
|---|---|---|---|
| run ledger | `lifecycle_store.go` | `defense_validation_run`: status, lease, staged result, publication mark, cancel flag, callback columns | `CreateOrGet`, `LeaseNext`, `Heartbeat`, `StageOutcome`, `MarkPublicationPending`, `CompletePublished`, `RetryVerification`, `FailPublicationConflict`, `Fail`, `FailOutcome`, `FailExhausted`, `RecoverCanceled`, `Cancel`, `MarkCanceled`, the callback statements |
| run worker | `worker.go` | what it read when it claimed the run, the flags of its heartbeat goroutine | `Run` (poll), `executeOne`, `reconcilePublication` |
| result sink | `databricks.go` | the result table | `Publish` (MERGE, then read back), `Verify` |
| callback outbox | `callback.go` | the token of the process; the callback columns of the ledger | claim, `deliver`, success, retry, configuration failure |
| submission API | `lifecycle.go`, `main.go` | a transaction per request | `POST /runs`, `POST .../cancel`, `GET /runs...` |
| resolvers | `executor_locator.go`, `executor_upstream.go`, `shared_contract_v2.go`, `resolve_inline.go`, `control_translation.go` | none; they read producer rows | resolve a rule, or refuse |
| rule hand-off | `lifecycle.go`, `rule_sink.go`, `enforcement.go` | the rule table, XSIAM issues | `resolveRequestedRule`: write the rule, post the issue |
| januspayload | `janus_payload.go` | none | translate a rule set into one AND list |
| XSIAM client | `xsiam_issue.go`, `xsiam_issue_cli.go` | none | `CreateIssue` |
| compatibility path | `main.go`, `store.go` | rows of the ledger, without lease | `handleSubmitRunSync` |
| migration | `store.go`, `lifecycle_store.go` | the schema, backfilled rows | `NewRunStore`, `migrateLifecycle`, `backfillCanonicalResultPayloads` |
| the rest | web UI, lifecycle log, deployment, command line tools, vendored JSON schema | | |

**Interactions.** The API, all workers and all dispatchers meet in the ledger only;
each SQL statement is atomic, and a worker's statements are fenced by a WHERE clause
on its lease token. A worker writes to the rule table, to XSIAM and to the result
table with calls that may time out and take effect later. The dispatcher is woken
by nothing but the row that a terminal statement armed.

**What is hard.** Leases that run out under a worker that only paused, so that two
workers act on one run; a process that dies between two statements or between a
statement and an external write; cancellation racing publication; answers that are
lost after the call took effect; producer rows that change between two reads; retries of
work that was already done; a connection pool shared by transactions that wait for each
other; a migration whose statements commit one by one while other replicas serve; a
merge of rules that must not change what they match. `PROJECT.json` lists each of these at its line under
`hazards`, with the properties that would notice it going wrong.

**What makes the parts correct.**

* ledger and worker: terminal rows are final, a result is written once, a canceled
  run is never published, a completed run names a row that is there and holds the
  staged result, no run is stranded, every run ends;
* outbox: an event recorded as delivered was accepted, never before the run's end
  is committed, every duplicate is explained by a mishap, refused events are tried
  again;
* submission: an accepted run is durable, retries converge on one run per key and
  never conflict with themselves, nobody waits for ever;
* locator resolver: what is resolved is what the digests of the request pin, whoever
  rewrites the producers' rows and files meanwhile; the two results belong together;
  an honest result is never refused;
* hand-off: an issue names a row that exists and holds the issued rule, the report
  claims only what happened and hides no failure;
* januspayload: the payload loses nothing of the rule set and is exact where the
  code says it is, as far as the target schema can say what the rule says;
* upgrade and compatibility path: no run is lost to a restart in the middle of the
  migration, a run shown as completed can be served byte for byte, an answer that was
  given stays true, an owed callback survives and a settled one is not sent again;
* shared contract: the coverage walk computes reachability, every source is accounted
  for exactly once, a unit that is reported can be applied in its order, and its rules and
  carrier bindings belong to each other one to one.

## 2. Modules

| module | models | on top of |
|---|---|---|
| `RunLifecycle` | what the lifecycle promises a caller (abstract specification) | |
| `RunLedger` | ledger, workers, result table; implements `RunLifecycle` | instantiates `RunLifecycle` |
| `RunLedgerInv` | its inductive invariant `IInv` | `RunLedger` |
| `RunLedgerProofs` | lemmas per statement and per action; the theorems; the proof that `RunLedger` implements `RunLifecycle` | `RunLedgerInv` |
| `CallbackOutbox`, `CallbackOutboxProofs` | callback columns and dispatchers | |
| `Submission`, `SubmissionProofs` | `POST /runs` and its transaction | |
| `LocatorResolver`, `LocatorResolverProofs` | reading and verifying the two producer results of a reference-only request | |
| `RuleHandoff`, `RuleHandoffProofs` | rule table, enforcement issue, report | |
| `JanusPayload`, `JanusPayloadProofs` | translation of a rule set | |
| `LedgerUpgrade`, `LedgerUpgradeProofs` | start-up over the ledger of an earlier release, and the synchronous compatibility path | |
| `SharedContract` | what the shared-contract resolver asks of its documents (operators) | |
| `RuleSources`, `RuleSourcesProofs` | which resolver a request gets, and the upstream, inline and shared-contract ones | `SharedContract` |
| `MC...` | instances for TLC, symmetry, statements of the docs that do not hold | |

The components are separate specifications joined by assume/guarantee interfaces
rather than one product: `RunLedger!OutboxArmed` is what lets `CallbackOutbox` arm an
event in the single step `RunEnds`; `Submission` creates the row that
`RunLedger!CreateRun` starts from; `RuleHandoff` is the inside of the one step
`RunLedger!Execute`, and takes from `RunLedger` only that a run with nothing staged
may be executed again and that only the last claim can stage; `LocatorResolver` is why
`RuleHandoff` may give a pinned request the same rule in every execution;
`RuleSources` is what precedes `RuleHandoff` in an execution, with `LocatorResolver` as
its one step `executeScenarioByLocator`; `JanusPayload` decides which rules are
`RuleHandoff!Mappable`; `LedgerUpgrade` keeps of `RunLedger` the steps a row takes, without
leases, and adds what `RunLedger` assumes: that the row is there, with its columns.

Next to many definitions stands a second one, `Name_Something`, introduced by
"Mistake:". It is the definition with one plausible error in it; `PROJECT.json`
pairs it with the property that has to fail when it takes the place of the original.
Nothing else uses these operators.

### RunLedger

A row is a record of the columns the control depends on. One SQL statement is one
operator from row to row (`Leased`, `Completed`, `VerificationRetried`, ...) with its
WHERE clause as a predicate (`Leasable`, `Abandoned`, `Holds`/`Owns`), and the action
that runs it. A worker has a program counter through `executeOne`; the heartbeat
goroutine is the action `Heartbeat`, which sets `cancelSeen` and `leaseLost` at any
moment between two statements.

* The lease token is random in the code; the model names it by the claim count of
  the row, which is as unique within the run.
* A result is named by the claim that produced it, because `created_at` is part of
  its bytes. The digest is the identity of the result.
* Time is two Booleans per row: the lease runs (`live`), the back-off runs
  (`backoff`). A lease runs out on its own only when its worker is gone
  (`LeaseExpires`); under a living worker that is a `Stall`, which is a fault.
* A MERGE is in `inflight` until it takes effect or is lost, and its sender may have
  given up, crashed or been superseded by then.
* `Crash` restarts a process, perhaps with another sink configuration, and also
  stands for a ledger call that returns an error, upon which `executeOne` returns.
* `UpdateProgress` writes diagnostic text only and is left out. No executor of this
  commit produces the state `malfunction`; `FailOutcome` models what the worker does
  with it if one does.
* The branch of `worker.go` for a nil publisher (lines 237-248) cannot be reached:
  `main.go` stores a typed nil in the interface. Its place is taken by
  `PublishNoSink`, a publisher that refuses, which also stands for a table name that
  is no longer configured.

`FailExhausted` and `RecoverCanceled` end all matching rows in one statement, so the
abstract `Fail` and `Cancel` take a set of runs. A MERGE that was under way when a run
failed may still arrive, so the abstract `Publish` is allowed on a failed run and on
no canceled one.

### CallbackOutbox

A dispatcher works on one event at a time, so its name stands for its token. The
attempt counter is capped at the length of the schedule, beyond which the code does
not look at it. Only 202 settles an event as delivered; 408, 425, 429, 500, 502, 503, 504 and
transport errors are retried; all else, 200 included, settles it as
`configuration_failed`. Errors in building the request (`callback.go` 157-166) cannot
occur, because the URL was parsed at submission. Lengths of delays, jitter and the
size of `Retry-After` are left out.

### Submission

The transaction runs at READ COMMITTED; INSERT ... ON CONFLICT DO NOTHING waits for an
uncommitted row with the same key, holding its connection. Commits fail, succeed, or
succeed without the client of the database learning of it. A run id is named by the
submission that drew it, SHA-256 is injective, the codes of refused requests are not
told apart. The body is modelled as the fields on which the digest depends; two
layouts of the same JSON, and a body with or without the identities that the headers
also carry, are different requests with the same normal form.

### LocatorResolver

One request and its executions, both routes: `Resolve` reads the Defense Generation
row first, `ResolveV2` the Check Generation row. Between any two reads the rows and
the payload files may be rewritten, duplicated or removed, by producers or by anybody
else who can write there.

* SHA-256 is injective: a digest is the record of what was digested and in which form,
  and stands for the size in bytes as well.
* An identity stands for all the fields a locator repeats (run, request, result and
  correlation ids, status, ...), which the code compares one by one.
* The VARIANT column gives numbers back in another notation (`AsRead`); RFC 8785 writes
  both the same way, a digest over the bytes does not. The digest over the content has
  its creation time with `Z` or with `+00:00`.
* Which candidates are supported and which check runs have complete semantics are the
  constants `Supported` and `Complete`: the code behind them
  (`validateSharedCompleteness`, the artifacts of a bundle) only looks at one document.
* `honest` is true as long as the request and the stores are those of one honest pair
  of producers; it exists for the property `HonestNotRefused` only.
* What producers do is taken from what the code expects of them (comments and tests of
  `executor_locator.go`), and marked external in the map.

### RuleHandoff

One run and several executions of it. An execution may start whenever nothing is
staged, also while an earlier one goes on. Requests are inline, pinned by a digest
(`locator`), or unpinned (`upstream`); the producer may replace its row at any moment.
`KeyHonoured` says whether XSIAM drops a second issue with the same idempotency key,
which the repository does not know; the run assumes it does not. A limitation can be false ("not written" although
the late MERGE arrives): that is inherent in a lost answer, and only claims of success
and the absence of silent failures are checked.

### JanusPayload

One step translates one rule set. Keywords stand for what the code's case folding and
trimming leave; a structured condition's values are a set. A list of values may be empty,
which nothing in the code refuses. What a condition tests, and how, is named by its type
and its detail: operator, case, carrier, selector and transformations, which
`toStructuredConditions` drops. A rule is matched with the detail of each condition, its
payload with `Default`, whatever detail the enforcing side takes when none is given. A
request is any outcome of these tests: for each type and detail the listed values it hits,
none, one or several, so that nothing is assumed of patterns and repeated fields.

`mergeAlternatives` is written as the code does it, comparing lengths of lists, and
compared with what the rule set matches on every request. The properties that hold say in
their hypotheses what they need (positive conditions, the default detail, no empty list),
and the code checks none of it; `MergeIsExact` asks only for lists that are not empty and
repeat nothing, and fails (section 4). The alphabet is finite because one rule lists
finitely many values; this loses no generality.

### LedgerUpgrade

Each statement of the migration commits on its own and is one action; the backfill is one
transaction that locks what it reads and so is one action. Replicas start, die and start
again at any point, while others already serve: their workers, dispatchers and
synchronous requests act on the same rows.

* A ledger is its two possible tables, the columns of the one that will be used, a row
  per run and the result table. `PossibleLedger` says which ones a release up to this one
  can have left, and TLC checks it of every ledger of the run.
* Of the columns that the migration adds only those are kept that a later statement or a
  reader branches on, in the order in which they are added.
* The bytes of a result are told apart by their author: the execution, the backfill
  (which renders the JSONB projection anew) or the synchronous path (which renders a
  `storage-failed` result when its write cannot be confirmed).
* The synchronous path sends its MERGE with the request's context. It can arrive after
  the caller was told `storage-failed`, so the table may hold the result that the answer
  says was not stored; the property demands only that no other answer is contradicted.
  An error of `store.Add` is logged and the caller gets its answer.
* `Shown` is the status view of `GET /v1/defense-validation-runs/{id}`: the row of a
  synchronous run has no `request_id`, which does not scan into a string, so that the
  durable API answers with an error and not with the status the migration filled in.
* The backfill refuses the whole start for a row that may have been published, and for
  one whose projection does not decode or cannot be rendered again (`readable`). Such a
  ledger never gets past the backfill, until somebody repairs the row, and
  `UpgradeConverges` promises nothing for it.
* When both tables exist nothing is renamed and the rows of the old one stay there;
  `LedgerCarriedOver` excepts that case, which `renameLegacyLedger` chooses on purpose.
* `DATABASE_MIGRATION_MODE=external` skips the start-up migration and is left out.

### SharedContract and RuleSources

`SharedContract` is a module of operators: the documents are records, a list is a
sequence wherever repetition counts, and the closure walk of
`sharedCoverageRequirements` is a recursive function of the reference and of the set of
groups being visited; one call of it is `WalkCall`. Counts are compared where the code compares counts:
`sameStringSetLocal` and `Partition` are not set equality by definition, and the
properties say what they amount to after everything else has been checked.
`CoverageIsReachability` compares the walk with reachability in the graph of
references, a definition that shares nothing with it.

`RuleSources` is one resolution: the choice between the routes, the checks of the shared
contract stage by stage, the upstream row, and the rule of the request. The reads of the
two locator routes are `LocatorResolver`'s. Digests are the content they are of. How the
engine of a rule is guessed from its text is left out, and so are the JSON schemas, which
are data for a third-party library.

## 3. Runs

| run | result | question |
|---|---|---|
| `ledger_safety` | holds | two workers, one run with callback and foreign writer, mixed sink configuration, three faults: all safety properties, the inductive invariant, and the refinement of `RunLifecycle` |
| `ledger_liveness` | holds | every queued run ends (`RunsEnd`), orphaned cancellations are completed (`CancellationRecovered`) |
| `doc_republish` | violated | "Recovery republishes the same staged bytes" |
| `outbox` | holds | two dispatchers, two runs, two mishaps: truthful, final, on schedule, duplicates explained, keeps trying |
| `submission` | holds | three submissions on two connections: durable, idempotent, deadlock-free |
| `resolver` | holds | two producers, both routes, inline and as a manifest, in both notations, rewrites between the reads, requests wrong in one respect: resolved is what was pinned, the results belong together, honest results are not refused |
| `handoff_safety` | holds | two executions, pinned and unpinned requests: rows, issues and reports agree |
| `doc_identity` | violated | "januscorrelationid, janusrequestid and januscausationid are the run's own" |
| `payload` | holds | 600,000 rule sets, with empty lists and details the payload drops: nothing dropped, exact when single-valued, every expressible set accepted |
| `doc_exact` | violated | a merge that would "silently widen the rule" is refused, and the translation "fails rather than emitting a payload that would enforce something other" |
| `upgrade` | holds | two replicas, 25 ledgers of earlier releases, one synchronous request, one crash: nothing is lost, answers stay true, the upgrade converges |
| `sources` | holds | some 25,000 requests, with the upstream mode on and off: coverage is reachability, sources are partitioned, units can be applied, rules and carrier bindings pair |

**Bounds.** Two workers are enough for every race between a holder and a zombie; three
faults allow stall, takeover and the crash of the one who took over. Two claims and
two verification attempts reach both sides of every limit, and staged results go on
to be claimed beyond them. One run is enough for the properties of one row, since no
statement except the sweeps relates rows; that the sweeps over several rows implement the
lifecycle is proved for any number of runs (section 5).
Two dispatchers and two mishaps give a stalled dispatcher, its successor and a lost
answer; the schedule of two entries has a first, a last and a repeated last delay.
Three submissions give one creator, one that waits for its key and one that competes
for a pool of two connections. One execution of the resolver is enough, because
executions share nothing but the stores, which anybody rewrites anyway; the rows, files
and requests are the published ones and those that differ from them in one respect each.
Two executions of the hand-off give the late effects of the first in each phase of the
second. Two replicas give one that migrates while the other serves, or both at the same
statement; one crash falls between any two statements, and the other replica does not
depend on the one that died. The ledgers have every stage of a run in every release that
could have left it there, with one run, and two where a row the backfill can rebuild
stands beside one it must refuse, because it was published or is not readable. The requests of `sources` vary one part of a
well-formed request at a time: coverage graphs over two components and three groups, with
every set of children of the first, cycles, shared groups, foreign and unknown
references; the accounting of three members, two artifacts and three inputs; bundles of
two artifacts with each order and dependency and two atomic groups; units with up to two
rules and bindings over two keys; every other condition violated once; and rows with every
combination of digests. The rule sets are those of at most two alternatives of
two conditions with lists of at most two out of two values, empty ones and repeats
included; of at most three alternatives with single values; with one of two details; and
of every malformed or mixed shape: enough to differ in no, one and two positions, to be
contained, to be empty, and to repeat.

**Symmetry** over workers and executions is used in safety runs only; with liveness
properties it would not be sound.

**Deadlock** is not checked: a ledger whose runs are all over, or a run whose report
is staged, has nothing left to do. That nobody waits for ever is what the liveness
properties say.

**Fairness.** Ledger: weak fairness of each worker's poll loop and of `executeOne`,
because all its calls have deadlines and the loop goes on after errors; of the
clock. Nothing is assumed of callers, of the table, or of faults (which are bounded).
Outbox: weak fairness of each dispatcher loop and of the clock. Submission: weak
fairness of each handler's steps. Upgrade: weak fairness of each replica's start-up,
because the platform restarts a process that ended and the statements of a running one
return; nothing of workers and callers. A handler runs to its end unless the process dies,
and `database/sql` hands connections out in the order of the requests for them.

## 4. Where the code and its documents disagree

1. `README.md` says recovery republishes the staged bytes. A worker that recovers a
   marked run only verifies; if the first publisher died before its MERGE, the run
   fails after its verification attempts (`doc_republish`).
2. The enforcement issue is built before `request_id` and the correlation id are put
   on the outcome, so it carries neither (`doc_identity`).
3. `mergeAlternatives` compares lengths: alternatives that differ in two positions are
   merged when at one of them the others only omit values of the first, and the payload
   matches more: `{a} AND {a,b} OR {b} AND {a}` becomes `{a,b} AND {a,b}`, which matches a
   request with `b` in both places. An empty list is the extreme case of an omission.
   Negated conditions are merged by uniting what they exclude, and the payload matches
   less. Operator, case, carrier, selector and transformations are dropped without a
   refusal, in a single alternative too. All of this contradicts the comments of
   `janus_payload.go` (97-99, 173-183); `doc_exact` shows it with the first, and its
   property fails for each of the others as well, except for empty lists, which its
   hypothesis leaves out so that nobody has to agree on what they should match.

Not runs, but worth knowing. `README.md` (236-238) says a replayed run cannot create a
second issue; the code posts in every execution and leaves the rest to the receiver's
treatment of the idempotency key. A run staged by a process without a sink completes with
a placeholder although the process that recovers it has a sink (`worker.go` 224-236),
while `README.md` (86-88) says that such a run fails. The comment of
`sharedV2ApplicationUnit` says that rules and bindings "cover the same rules"; two rules
with one key and a binding that matches none pass, since only the numbers are compared,
and `RulesAndBindingsPair` excepts that case.
`validateSharedCompleteness` drops the members an obligation reaches
(`_ = expectedMembers`), so an obligation may cover members that are declared
unsupported, and a test input may be represented without being required by any
obligation. An artifact's own group reference may name another group than the one that
lists it. `README.md` (138-139, 144-145) and `executor_upstream.go` (8-11) say that the rule of a
translator's row is "verified against its `content_hash`" and "never reported unless it
resolved and verified"; `ExtractCustomWAFRule` compares the digests that are there
(`control_translation.go` 147-159, `HashesAgree`) and accepts a row that has none. That
is one guard and takes no run to see. With the upstream mode off, a request
with `upstream_inputs` and an inline candidate gets the inline rule.

## 5. Proofs

All theorems hold for every number of runs, workers, dispatchers, submissions and
executions, every limit, any set of documents, and unbounded faults (the bound is a
constant).

**RunLedger.** No property is inductive as it stands. A zombie worker is harmless not
because its statement fails (some are fenced by the token only) but because of what
its place in `executeOne` says about the row it once claimed, even after it lost it.
`IInv` records exactly that. Per row: the lease of a running row is its latest claim
(`LeaseInv`), a marked run is open with a staged result (`PendingInv`), a queued run
is fresh or waits for verification (`QueuedInv`), nothing is under way before the
mark or after a cancellation (`QuietInv`), only the staged result goes to the table
(`SinkInv`). Per worker: its token was given to a claim of its run (`ClaimInv`), the
result it carries is the staged one (`ResultInv`), inside the publication window the
run is marked or over (`WindowInv`). Between workers: tokens are unique
(`UniqueClaims`) and there is one publisher, because the mark can be set once only.
The first part of `RunLedgerProofs` has one lemma per action, the second combines them
(`Invariance`) and derives the invariants and the action properties
(`TerminalForGood`, `StagedForGood`, `CutoffRespected`).

**RunLedger implements RunLifecycle** (`LifecycleImplemented`). The mapping hides
workers, leases, marks and retries: a caller sees the status, whether a result is in the
table, and what the result reference says. A statement on one row is a step of the
lifecycle as soon as its change of status is a possible one (`OneRowSeen`): that a run is
canceled only while unpublished, and completed with a true answer, follows from `IInv`
after the step (`EndsSeen`). A late MERGE is the abstract `Publish`, because `QuietInv`
and `SinkInv` leave it only runs that are open or failed (`MergeSeen`); the two sweeps
end a set of runs at once (`SweepSeen`).

**CallbackOutbox.** `OutboxInv`: a dispatcher's outcome is recorded only on an event
that still carries its token, so an event is settled at most once, although the
statements do not look at the lease; the delay of an event lags its attempt by one.
That duplicates have a cause (`DuplicatesHaveACause`) needs a count. The wakeups of a run
that were accepted, the dispatchers that may still have theirs accepted (`Trying`), and
the one claim that may come next without anything going wrong (`Open`) together never
exceed one and the mishaps so far (`Budget`). An ordinary step moves a unit from one of
the three to another, as a claim turns `Open` into `Trying`; only a crash, a stall of a
whole lease or a lost answer creates one. `Trying` is finite because dispatchers join it
one at a time, so that nothing is assumed of how many there are.

**Submission.** `SubmissionInv`: what each handler knows at each place (`Knows`), at
most one open insert per key (`Exclusive`), accepting answers are backed by the
committed row (`AcceptedIsStored`), and a conflict is real (`ConflictIsReal`).

**LocatorResolver.** `ResolverInv`: at each place an execution holds only documents that
have been compared with the digests of the request (`Verifying`), and while nobody has
interfered the stores are those of one honest pair of producers (`Untouched`), which
passes every check. `ResolvedIsPinned` alone is not inductive: it says nothing about
the document that is held while the other one is still being read. `ResolutionPinned`
and `ResolutionRelated` are what a resolved execution may rely on. The theorems need
no bound on documents, rows or rewrites.

**RuleHandoff.** `HandoffInv`: per execution, a call that took effect left its mark
(`Effects`), calls are made in order (`InOrder`), the rule is the requested one
(`RuleFixed`), and each failure is on the report (`Accounted`); plus the table, the
issues and the staged report seen from outside (`Outside`). `IssueBackedByRow` is the
agreement of issues with the rule table, `ReportTruthful` and `ReportComplete` say that
the report claims only what happened and hides no failure.

**JanusPayload.** `PayloadInv`: a payload is what the translation answers. The work is
in two lemmas. `MergeExact` is the equation of the code's comment: where the alternatives
list different sets of values in at most one position, one of them matches whatever the
merged list matches, namely the one that lists the value that was hit there; empty lists
need no exception. `OneDifferenceExact` states it of the built payload. `DiffersVaries` says when
the count the code makes finds every such position: if the first alternative lists one
value and no list is empty, a union of one element is every list. From the two follows
`SingleValuedMergeExact`; without the hypothesis on empty lists the second one is false.

That what can be expressed is not refused (`ExpressibleIsTranslated`) rests on a count as
well: a list without repeats has as many places as values, so that a position the code
takes to vary is one where two alternatives differ (`VaryingDiffers`).

**LedgerUpgrade.** `UpgradeInv`: what a statement of the start-up achieved still holds,
whatever replica is still behind it (`StartInv`); there is one table unless there were
two, and no run is outside them (`TablesInv`); each row's status, event and settlement
agree (`RowInv`); a completed durable run was published (`PublishedInv`); and a
synchronous call knows what it published and what the ledger has of it (`CallInv`).
`LedgerCarriedOver` alone is not inductive: it says nothing before somebody serves, and
that a replica about to serve has all columns depends on no other being able to drop or
rename the table under it. The invariants and the action property `SyncRecordFrozen`
hold for any number of replicas, runs, requests and faults.

**RuleSources.** Four arguments.

* The closure walk is a recursive function, and before anything can be said of it, it
  has to be shown that there is such a function: a call below another one visits one
  group more, so a walk of the calls with at most n groups left can be extended to
  n + 1 (`WalkExtends`, `WalkExists`). Both this and the next step are inductions over a
  number, stated as the absence of a least counterexample in a set of naturals
  (`LeastNatural`), which needs no induction schema. Then every call is right
  (`WalkRight`): it accepts a reference exactly when everything reachable from it is as
  it has to be and no group that is being visited is reachable, and it returns what is
  below. The second half of that condition is the strengthening; a call with an empty
  visiting set has `CoverageIsReachability` left. A group that two parents share is no
  cycle because a call leaves the visiting set as it found it. That another reference
  with the id of a visited group is a cycle too is where the argument is delicate
  (`GroupCallRight`).
* The counts. `sameAsKeys` on a finite set is equality without repeats
  (`SameAsKeysExact`), and two disjoint parts of a finite set whose sizes add up are all
  of it (`PartitionCovers`). The code compares members by id but artifacts and inputs by
  count only; `CompletenessPartitions` shows that the references checked before make the
  parts subsets, without which the counts would mean nothing.
* The lookup the code does not make. Each rule has a binding and the bindings have
  different keys, so that rules with different keys have as many keys as there are
  rules, hence as there are bindings: the keys of the bindings are those of the rules
  (`KeysCounted`), and no binding is without its rule (`RulesAndBindingsArePaired`).
* `SourcesInv` is the invariant of the resolution: each stage knows what the stages
  before it have checked, and nothing is reported before the last.

**Assumptions** are the named ASSUMEs of the component modules: sentinels differ from
values, limits are natural numbers (positive where zero makes no sense), the
alphabet of one rule is finite, and the lists of a decoded document are finite
(`FiniteDocuments`).

Some theorems are about properties that no run lists: type correctness of each component,
`BoundedExecutions`, `StagedForGood`, `WakeupAfterCommit`, `OneIssue`, `RowStays`,
`CommittedRowsFinal`, `OneActionForAll` and `OneDifferenceExact`. They follow from the inductive invariants, for
every instance.

**Only model-checked:** liveness under fairness (`RunsEnd`, `CancellationRecovered`,
`KeepsTrying`, `SubmissionsEnd`, `UpgradeConverges`), which is out of the prover's reach.
Every other property that a passing run checks is stated by a theorem.

## 6. Not modelled

* Authentication, DSN parsing, identifier quoting and request parsing beyond what the
  idempotency digest depends on: pure functions of one input, without state.
* The text of everything: reports, errors, log lines, the field mapping of an XSIAM
  issue, and the command lines of `control_translation.go` and `xsiam_issue_cli.go`, which
  format the outcome of one call.
* The lists and result views of `GET`: they read one statement's snapshot and change
  nothing. Of the status view only what decides whether a run is shown at all is
  modelled (`LedgerUpgrade!Shown`).
* The catalogue of embedded schemas (`shared_contract_catalog.go`) and the vendored JSON
  schema library: data and third-party code. That a document satisfies its schema is part
  of the shape of the records in `SharedContract`.
* Durations: delays, jitter, the size of `Retry-After`. Whether a deadline is over is a
  Boolean, so an overflow of a delay is not visible.
* The web UI and the deployment scripts.

What remains to be proved: what the components assume of each other in section 2 is
stated in words; a proof that, for example, the executions of `RuleHandoff` refine the
step `RunLedger!Execute` would need a specification of both together.
