# RecoverAI in TLA+

RecoverAI finds failed payments, asks an AI what to do about each, has a
deterministic policy decide, and sends the customer a payment link. This
directory specifies it: in depth the part that handles money, the life of a
recovery case from its discovery to the webhook that resolves it, and around it
ingestion, the background task, the calls to the outside, and what is shown and
measured of it all. Paths are relative to
`src/backend/app/` unless they start with `docs/`.

## The system

| Part | State it keeps | Operations | Interacts by | Correct when |
|---|---|---|---|---|
| Case state machine (`domain/state_machine.py`, `domain/enums.py`) | none; a table | `can_transition`, `validate_transition` | called before every status write | only listed moves are written; terminal statuses are final |
| Policy engine (`domain/policy.py`) | none; configuration | `evaluate_policy` | called by diagnosis and, again, by execution | verdicts are legal, agree with the re-check, and never turn from block to allow by themselves |
| Diagnosis (`services/diagnosis_service.py`) | the case row | `diagnose_recovery_case` | AI call inside an open transaction | one transaction from DISCOVERED or FAILED to a decision; nothing transient committed |
| Execution (`services/execution_service.py`) | case, attempt and payment request rows | `execute_recovery_case` | provider calls between three commits | one link per approval; a failure or doubt ends with a human; attempts are counted |
| Webhooks (`services/webhook_service.py`, `payments/webhooks.py`) | ledger of processed events, payment request, case | `process_webhook_event` | called by the provider, at least once | each event is applied once, to the round of its link; money is credited once |
| Concurrency guard (`services/concurrency.py`, the `version` column) | version per row | rollback and 409 on a stale UPDATE | wraps the three services | no transaction overwrites another |
| Payment provider (`payments/providers/`) | links | create, find by reference | HTTP, may time out after the fact | external |
| Orchestrator (`services/orchestrator_*.py`) | per-cycle budgets, one task | `run_recovery_cycle`, `start`, `stop` | calls diagnosis and execution in one session | budgets hold, one bad case does not stop a cycle, nobody starves |
| Ingestion (`services/ingestion_service.py`) | payments, customers, cases | `ingest_payment`, `discover_failed_payments` | API and orchestrator | one payment and one case per provider payment; counters add up |
| AI recommendation (`ai/`) | none | `get_recommendation` | called by diagnosis | always answers; falls back to ESCALATE |
| Audit, timeline, summary, export | append-only events | record, read | inside the transactions above | complete and in order |
| Evaluation (`src/evaluation/`, `services/evaluation_service.py`) | files | offline metrics | none | the metrics are what their names say |
| Recovery batch (`src/backend/scripts/seed_demo_batch.py`) | the batch's own rows and report | seed, diagnose, execute, webhook | beside the orchestrator, on the same table | no recommendation passes the policy's limits |
| API, auth, configuration, frontend | none of interest | | | |

What is hard here is in the middle of the table. Diagnosis, execution and
webhooks are coroutines of many requests over one Postgres database; they
suspend at every database and HTTP call; a crash, a cancelled request or a
stale row can end them between two commits; the provider may act on a request
that timed out, and repeats, reorders and delays its notifications.
`PROJECT.json` lists these hazards line by line.

## Modules

| Module | What it is |
|---|---|
| `CaseStateMachine` | statuses and the transition table; `LegalWalk` for the chain of `_transition` calls of one transaction |
| `Policy` | `evaluate_policy` as a set of violated rules, `_resolve_next_status`; the policy settings are constants constrained only as the settings model constrains them |
| `PolicyReview` | the facts about one case as they change over time, and what the verdicts about them have to do with one another |
| `RecoveryLifecycle` | abstract specification: per case the committed status, the money credited, what the customer has been offered |
| `RecoveryPipeline` | the detailed specification: diagnosis, execution and webhooks of concurrent sessions against the database and the provider |
| `RecoveryProperties` | fairness and the properties of the pipeline |
| `RecoveryRefinement` | the refinement mapping from the pipeline to the lifecycle |
| `RecoveryCycle` | cycles of the orchestrator and its background task over the state of the lifecycle, with operators, customers and webhooks around them |
| `Ingestion` | reports of payments, the explicit opening of a case and the discovery sweep as concurrent transactions |
| `Recommendation` | the calls to the language model, their retries and the fallback, up to the verdict |
| `PaymentLinkCall` | one execution's HTTP conversation with Razorpay, and how its client classifies every answer |
| `CaseCalls` | both conversations of one case, with the days and the re-check between them |
| `AuditTrail` | the events the handlers of one case record, the timeline and the export made of them |
| `RecoverySummary` | the statements of the financial summary among commits |
| `Evaluation` | the offline harness: scenarios, the baseline, the model side, metrics, the safety check, the status |
| `EvaluationReports` | report files written by one process and served by another |
| `DemoBatch` | the recovery batch next to the background task, scripted or with the live model |
| `PolicyUsers` | `PolicyReview` for any settings beside `Evaluation` and `DemoBatch` at the backend's defaults, and the properties that hold the two to the policy |
| `Views` | `AuditTrail` beside `EvaluationReports` and `RecoverySummary`, and the properties of the latter two |
| `RecoveryProofs`, `RecoverySafetyProofs` | type correctness of the pipeline; its inductive invariant and the theorems that follow |
| `RoundProofs` | with one dedup key per event: the rounds of a case one after the other, and the pipeline as an implementation of the lifecycle |
| `CycleProofs` | theorems about the lifecycle and the cycles over it |
| `PolicyProofs` | theorems about the policy, and about the harness and the batch that have limits of their own |
| `CaseCallsProofs`, `IngestionProofs` | theorems about the two conversations of a case, ingestion |
| `ViewProofs` | theorems about the audit trail, the timeline, the summary and the reports |
| `MC*` | small instances for TLC, one `.cfg` per run or counterexample |

`Policy` extends `CaseStateMachine`; `RecoveryPipeline`, `Recommendation`,
`Evaluation` and `DemoBatch` extend `Policy`: one policy decides in all of them.
`PolicyUsers` and `Views` instantiate components that share no step; the runs
`policy_review` and `views` and the theorems about them are over these two.
`RecoveryCycle` shares the state of `RecoveryLifecycle`, which `RecoveryPipeline`
is checked to implement: per case a status, an offer and the money credited. The
services a cycle calls are modelled by the looks they take at the status; that
they leave the lifecycle nowhere is `CyclesFollowLifecycle`.

### The pipeline's state

`case`, `attempt`, `request` and `claimed` are the committed rows. `link`,
`wire` and `acked` are the provider: its links, the creation requests it has not
handled yet, and the events it has had a 2xx for. A session has a program
counter `pc`, the case it works on, and `copy`, its ORM object of that row: as
read, then as flushed, whatever the committed row has become. `ref` is the
execution reference it drew or the link its event is about; `key` says where
the event's dedup key came from; `snap` is the link status it was told.

A reference (`Links`) stands for an attempt, its payment request and its link:
the code gives the three one uuid (`idempotency_key`, `reference_id`), and drawing
it is `owner'`.

### Where a handler is cut

A handler is cut where others can see or interfere: at the read, the first
flush of the case (it takes the row lock and compares the version), the AI and
provider calls, and the commits. A flush with nothing but other database
calls up to its commit is one action, since nobody sees in between.

| Code | Actions |
|---|---|
| `_diagnose_recovery_case` | `DiagnoseRead`; `DiagnoseIneligible` or `DiagnoseBegin` (flush, row locked, AI called); `DiagnoseFinish` (recommend, review, resolve, commit) |
| `_execute_recovery_case` | `ExecuteRead` (gate and re-check); `ExecuteBlocked` or `ExecuteClaim` (commit of EXECUTING) |
| `_create_payment_link` | `ExecuteCall` (commit of the attempt, request sent); `ExecuteAccepted`, `ExecuteRefused`, `ExecuteAmbiguous` |
| `_handle_ambiguous_creation` | `ReconcileFound`, `ReconcileUnresolved` |
| `_record_payment_link_created` | `ExecuteRecord` |
| `_handle_definite_failure`, `_escalate` | `ExecuteEscalate` |
| `process_webhook_event`, `_claim_event` | `WebhookDuplicate`, `WebhookArrive` (select), `WebhookClaim` (insert) or `WebhookLostRace`, `WebhookIgnore` |
| `_apply_payment_link_event` | `WebhookLookup`; `WebhookUnmatched`, `WebhookMovedOn` or `WebhookApply` |
| `guard_against_concurrent_modification` | `StaleRollback` |
| a worker that dies, a request that is cancelled, an uncaught error | `Crash` |

Postgres runs at READ COMMITTED: an UPDATE waits for the lock of an
uncommitted writer (`Locked`, only a diagnosis holds one across an await), then
matches its row by version or matches nothing (`Fresh`). An INSERT of a dedup
key waits for an uncommitted insert of the same key (`ClaimSettled`).

### The other modules

`RecoveryCycle`. `cycle[k]` holds the locals of one `run_recovery_cycle`: its
phase, what is left of the list, the handled cases, the limit of executions it
was started with (0 stands for no `auto_execute`, too) and what is left of it.
The setting may differ between the starts of the task, and so may the endpoint's
parameter between cycles.
`Discover`, `List` (one statement per diagnosable status), `DiagnoseCase`,
`ExecuteWithdrawn` / `ExecuteStart`, `CallCreates` / `CallFails`, `Recorded` /
`Unresolved`, `DrainBacklog`, `DrainCase` and `Report` are its statements in the
order of the code; `CaseError` is the `RecoverAIError` one case may raise and
the loop swallows; `Abort` is everything else an exception or a dead worker
ends. `StartRunner` and `StopRunner` are `lifespan`. An operator's execution is
three steps as well, up to the commit of EXECUTING, the call and its record, and
may be withdrawn, refused or left half-way. `Diagnosed`, `Started` and `LinkMade`
are what the services do to a case: they look at the status, as the code does,
and never at what the customer has been offered. `tracked` holds the cases whose
payment request is on record, which is what a webhook finds. As in the proofs of
the rounds, a link has one event and the event is about its own round; `replay`
shows what happens otherwise.

`Ingestion`. Payments and customers are sequences in the order of `created_at`;
a session runs one transaction, `pc` says after which statement it is. Looking
up the payment (`IngestDuplicate` / `IngestNew`), looking up the customer,
and the commit are three steps; the unique constraint on a case's payment makes
an insert wait (`Blocked`) and then succeed or fail (`InsertConflict`). The
counters are written as "loaded value plus one", since they are plain ORM
attributes on a row without a version.

`Recommendation`, `PaymentLinkCall`, `CaseCalls`. The pipeline knows an AI call as
"some recommendation" and a provider call as accepted, refused or ambiguous.
These modules take both apart: which exception each completion or HTTP answer
becomes, which are retried, what is left when nothing works, a POST that is
handled after the client has given up, and the one reconciliation.

`AuditTrail`. A handler is a script of database steps, chosen when it begins, of
`diagnose`, `execute` or a webhook; events are stamped when they are flushed and
seen when they commit. The timeline is two statements (`ReadAttempts`,
`ReadEvents`); `FinalOutcome` is the export's column.

`RecoverySummary`. `Statements` lists the queries of the summary in order, each
with its own snapshot; between two of them a handler may commit.

`Evaluation`, `EvaluationReports`, `DemoBatch`. Cases are drawn from the ranges
of the generators, decided by the rules with their literals and, on held-out
cases, by a model that may answer anything or fail, and scored term by term. A
report file exists from the moment it is opened; it has the shape the schema
expects, that of a comparison, or one that has drifted. The batch seeds seven
shapes of cases and runs each by the status it finds, which the background task
may have moved.

### What the pipeline leaves out

Audit rows (they commit with the change they describe), free text, failure
codes, `eligible` and the other columns nothing decides on, partial amounts
other than "less than due", events that carry a malformed payload, the
connection pool, deletion of rows (the code has none).

## Runs

| Run | What it asks | Distinct states |
|---|---|---|
| `one_case` | one case, three sessions, three links, one crash, one dedup key per event: nobody is asked or credited twice, no write is lost, rounds are resolved by their own link, and every step is one of the lifecycle | 684 thousand |
| `liveness` | two cases, two sessions, one link and its event under two dedup keys: every request ends, every recorded link resolves its case, both cases keep to their lifecycle | 181 thousand |
| `policy_review` | the policy over every status, action and threshold; the harness's rules, scores and status against it; the batch held to it | 1.49 million |
| `case_calls` | every sequence of model answers, days and Razorpay answers of one case: the fallback is the last resort, no link without an answer of the model, no second link, no failure for a link that exists, an end to every case, be it an exception (which leaves the case EXECUTING: `PaymentLinkRaw.cfg`, `stuck`) | 339 thousand |
| `ingestion` | two callers and two sweeps over three payments: one case per failed payment, counts lost but never invented, no circular wait, every failed payment cased in the end | 136 thousand |
| `cycle` | the background task over three cases among operators and customers: limits of executions, no step on an aged list that leaves the lifecycle, no second call for a case from the backlog, every case decided and every approval executed | 675 thousand |
| `views` | audit trail, timeline, summary and reports while others write | 2.30 million |
| `retry_cap`, `early_event`, `replay`, `stuck`, `policy_escalate` | statements of the documentation the code does not meet, see Findings | stop at the counterexample |

Read-only views, and the places that repeat the policy, are small and
independent of one another; `views` and `policy_review` therefore hold several of
them as parts: the initial state picks a part and only its actions run. `ingestion`
picks a scene in the same way, so that its two kinds of race need not be
multiplied. A part restricts nothing inside itself.

`NoDoubleCharge`, `OneExecutor` and `RoundResolvedByItsLink` are about one
dedup key per event. With two they fail, as `replay` shows for the statement of
the documentation, so their theorems in `RoundProofs` have that hypothesis;
`CreditMatchesPayment`, `AttemptsMatchRequests`, `CommitsAreLegal` and
`OnlyTimeRevokesApproval` hold with any number of keys, which
`RecoverySafetyProofs` proves.

### Bounds

*Pipeline.* Three sessions let two executions race while a webhook is handled,
or two deliveries race an execution. Three links are three rounds of a case, so an
event of the first can meet the last; each is one execution, and an execution
starts only while a link is left (`LinkLeft`). Two days past a window of one:
the window is open, at its limit and expired. One crash, at any point of any
session. Recommendations: an executable action above the threshold, one without
executor, the fallback, a stop. Amounts at and below the high-value threshold;
policy limits of 1, so that two rounds pass them. In `liveness` the second case is
ineligible and competes for the sessions only.

*Policy and evaluation.* In `policy_review` every threshold is met from both
sides, zero and a negative amount included; the harness, whose limits are
literals, runs against the backend's defaults with rates, days and confidences
at each literal; datasets of one and seven cases have every scenario, one to
three model calls tell "all", "some" and "none" apart.

*Calls.* Two retries, so the first, a middle and the last failure differ; a POST
may be handled late, once per attempt to send it.

*Ingestion.* Three payments, so that two sweeps with a limit of two overlap in
part; one transaction dies.

*Cycle.* Three cases, of which a cycle discovers two, diagnoses two and executes
none, one or two, by the setting of the day. So discovery and the list are cut
off and the newest cases come first, a FAILED case takes a place in the list or
is there twice, and an approval is withheld for the next cycle or for the next
setting. One thing out of the ordinary per behaviour (a death or a restart, a
lost diagnosis, a failed round or an operator's execution), which is `OneTrouble`
in `MCRecoveryCycle`; the theorems have no such bound.

*Views.* Two handlers begin four times and one of them dies; for a timeline two
suffice, one on each side of its two statements. Two cases that owe different
sums, two attempts each. Three reports, two requests.

Sessions, links, handlers and report files are interchangeable, hence the
symmetry; the runs with liveness do without.

Deadlock is not checked in any run: a system whose cases are resolved, whose
links are used up and whose clock has stopped at its bound may rest. That no session
is stuck half-way is `SessionsFinish`; that ingestions do not wait for each other
is `NoWaitCycle`.

### Fairness

`Fairness` of the pipeline assumes of the code only that a session that can go on does
(`WF` of its steps): the event loop runs every ready coroutine, and AI and
provider calls have timeouts (`httpx` timeout; `max_retries`). Of the provider
it assumes that a link ends (`expire_by` is set on each), and that it delivers the
event of a link until it is answered 2xx, which a session takes up if deliveries
keep coming (`SF`, since sessions are busy and free again). Nothing makes
anybody ask for a diagnosis or an execution, crash, or let days pass.

`CaseCalls` assumes the same two timeouts and that somebody executes an approved
case. `RecoveryCycle` assumes that `lifespan` starts the background task, that its loop
begins a cycle when the last one is over, and that a cycle takes its next step;
not that operators or customers do anything. `NCases` bounds the arrivals, and
`DiscoveredIsDecided` needs that: the list begins with the newest, so where
arrivals never end the oldest case may wait for ever (`MCCycleOrder.cfg`).
`ApprovedIsExecuted` is asked of a case while the task runs with a limit above 0.
`Ingestion` assumes that a transaction takes its next step unless it waits, and
that the sweep, which every cycle begins with, is repeated.

## Findings

Five statements of the documentation are not true of the pipeline and the policy;
each has a run that ends in a counterexample.

* `retry_cap`: `max_retry_count` does not end the FAILED loop
  (`docs/recovery-state-machine.md:51-53`). It gates `RETRY_PAYMENT`, which has
  no executor; nothing increments `customer_contact_count`. Only the window ends
  the loop.
* `early_event`: an event that overtakes the commit of its payment request is
  acknowledged as unmatched and never seen again, so the row does not reflect
  the provider's state (`docs/architecture.md:116-118`). This is why
  `TrackedLinkResolves` excludes it.
* `replay`: a redelivery under the other kind of dedup key is not recognised,
  and since the handler does not ask which round an event belongs to it can end
  a later one (`docs/razorpay-integration.md:189-192`).
* `stuck`: a crash after the commit of EXECUTING leaves a case that nothing
  picks up (`docs/recovery-state-machine.md:58-60`).
* `policy_escalate`: ESCALATE is blocked by the amount bounds, and the case is
  stopped (`docs/ai-safety.md:56`).

The following have a configuration and no run of their own; `tlc -config X.cfg M`
reproduces each. `PROJECT.json` quotes the statement.

| Configuration (module) | Property | What happens |
|---|---|---|
| `MCIngestionLostCount.cfg` (`MCIngestion`) | `CountersAddUp` | two overlapping ingestions of one customer count one payment |
| `MCIngestionTwoCustomers.cfg` (`MCIngestion`) | `OneCustomerPerReference` | two first reports insert two customers; every later one is a 500 |
| `MCIngestionTwoPayments.cfg` (`MCIngestion`) | `OnePaymentPerProviderId` | two deliveries of one payment insert two |
| `MCIngestionOpenTwice.cfg` (`MCIngestion`) | `RepeatedOpenSucceeds` | the second of two calls fails on the constraint |
| `MCCycleOrder.cfg` (`MCRecoveryCycle`) | `OldestFirst` | candidates come newest first |
| `MCCycleCalls.cfg` (`MCRecoveryCycle`) | `CallsWithinBudget` | refused executions call the provider and cost nothing |
| `RecommendationBadRequest.cfg` (`Recommendation`) | `RetryOnlyTransient` | a rejected request is sent again |
| `PaymentLinkRaw.cfg` (`PaymentLinkCall`) | `NothingRawEscapes` | a 2xx without an id ends the execution with a raw exception |
| `AuditTimeline.cfg` (`AuditTrail`) | `TimelineIsComplete` | a timeline leaves out an attempt committed between its statements |
| `AuditExport.cfg` (`AuditTrail`) | `FinalOutcomeIsFinal` | FAILED is exported as a final outcome |
| `MCViewsRate.cfg` (`MCViews`) | `RecoveryRateIsARate` | more recovered than eligible |
| `EvaluationStray.cfg` (`EvaluationReports`) | `StrayIsSkipped` | a comparison is served as a summary |
| `EvaluationDrift.cfg` (`EvaluationReports`) | `DriftIsLoud` | an older report is served in silence |
| `MCPolicyReviewInputs.cfg` (`MCPolicyReview`) | `InputsDriveThePolicy` | a scenario without a webhook is executed |

## Proofs

All proofs are for any number of cases, sessions, links and dedup keys, any
amounts, any policy the settings accept, and any of the bounds, unless the theorem
says otherwise. They assume
`PolicyAssumption`, `PipelineAssumption`, `LifecycleAssumption`,
`ReviewAssumption`, `CycleAssumption`, `RecommendationAssumption`,
`IngestionAssumption`, `EvaluationAssumption` and `SummaryAssumption`, which TLC
evaluates in the runs. Every invariant and every action property of a passing run is a
theorem.

* `TypeCorrect`. `TypeOK` is not inductive: that `ExecuteRecord` writes a
  well-typed row needs that a session at `exec_record` has a case and a
  reference. `TypeInv` adds, per program counter, which session variables are
  set, that a session's events come from subjects and key sources, and that a
  recorded request has an owner.
* `CreditCorrect`, `AttemptsCorrect`, `CommitsCorrect`. What makes optimistic
  locking work is `CopyOK`: a session's copy is the committed row if the versions
  agree and older otherwise; a diagnosis alone is ahead, with the row locked and
  alone. So a write that passes the version check is a write on the committed
  row. `RefOK` says that a session that drew a reference has it to itself and
  that it is not recorded yet, that a handler's link is closed and belongs to
  its case; `LinkOK` that nothing exists for a reference before its attempt.
  `SafetyInv` is their conjunction with `CreditMatchesPayment` and the count of
  requests with its finiteness. The proof classifies steps: a session that
  leaves or stays and writes nothing (`QuietStep`), moves a status (`MoveStep`),
  or overwrites a fresh copy (`FreshCopy`, `StepSafe`), and shows for each
  action of diagnosis, execution and webhooks which it is.
* `ApprovalCorrect`. `ApprovalHolds` says of a committed APPROVED row that the
  policy, asked again today, has nothing against it but a closed window. Only a
  diagnosis writes one, on an empty verdict; afterwards the re-check reads the
  same facts but for the status and the days, of which the first adds no reason
  and the second one (`ApprovalLapses`).
* `ChargedOnce`, `ExecutedByOne`, `RoundEndedByItsLink`, under `OneKey`: all
  deliveries of an event carry one dedup key. A link is `Settled` once its event
  is handled, it is closed unpaid and its row says so. `RoundOK`: a case has at
  most one link that is not, and none unless a round is open or was left open
  for good. `ExecOK`: an execution knows the case as it is, is the only one, and
  every link but its own is settled. `ClaimOK`: the holder of an uncommitted
  dedup row is alone with it, which is where `OneKey` is needed. A
  webhook that finds its request and applies it is therefore about the open
  round. `RoundInv` adds the three to `SafetyInv`.
* `PipelineImplementsLifecycle`, under `OneKey`: every step maps to a step of the
  lifecycle or to a stutter. What a session commits is a legal walk of one case
  (`CommitsCorrect`), so the stages are given; the argument is about the mapped
  offer, which rests on the one link of the case that is not settled. The request
  on its way is the offer already (`ExecuteCall`), so the creation of the link is a
  stutter; a refusal and the end of the link are `Settle`; and a write that
  leaves a round finds all links settled.
* `OfferCorrect`, `BooksBalance`: `LifecycleInv` of the abstract specification.
* `BudgetCorrect`. `WithinBudget` holds of each cycle's locals: what was executed
  and what may still be are within the limit, and a cycle that works on a case
  has some of it left. That is what the three tests of the budget are for: the
  charge in the step that records an execution never takes it below 0.
* `BacklogAskedOnce`. `Asked` relates what a cycle has called for, what it has
  handled and what is left of its list: whatever was asked for is handled, but for
  the case whose link is being recorded, and what is left of the backlog is
  neither handled nor there twice. That a list of rows has no repetition is
  `NewestAreDistinct`: ranks by the number of newer rows are different and below
  the number of rows, so by counting each is taken.
* `LifecycleFollowed`. `HandsInv`: a case in execution is in one pair of hands, a
  cycle's between the commit of EXECUTING and the outcome, an operator's likewise,
  or those of the webhook of its recorded link; and who is about to call the
  provider finds nothing on offer. It is inductive together with `LifecycleInv`
  and `CycleInv`: a service that finds APPROVED finds the case in nobody's hands.
  That the event is about the case's own round is in the actions of the webhooks.
* `OneLink`, `FailureIsDefinite`, `RecordIsReal`: the three promises of a provider call,
  for any sequence of answers. `CallInv` adds to the types that there is one
  POST in flight or none and nothing made before it (`RequestInv`), that an answer was true
  when it was given (`ReplyInv`), and what each outcome implies about the link
  and the POST (`OutcomeInv`).
* `FallbackCorrect`, `AnswerCorrect`, `CaseCallsCorrect`: a whole case.
  `ConversationInv` says that as long as the model is asked nothing usable has
  come back, and what was given up on; `GateInv` that nothing has been asked of
  Razorpay before the re-check, and that past it the policy's thresholds are met
  (`Cleared`) and stay so, since days pass only before it.
* `OneCaseEach`, `NoDeadlock`, `CountsCorrect`: ingestion. That a commit gives no payment its second
  case rests on what the unique constraint makes of uncommitted rows: a payment is
  held by one session at most (`HeldOnce`), and by none once it has a committed
  case (`HeldUncased`). That there is no circle of waiting transactions rests on
  the order of a sweep: what it holds is older than what it has yet to insert
  (`SweepsInOrder`), so along a chain of waiting sessions the next case gets
  strictly younger, and there is a youngest. That no counter runs ahead rests on
  what sessions have loaded (`LoadedCounts`): a lost update writes an old count
  plus one, with its payment, and payments are never deleted.
* `RecheckCorrect`, `VerdictCorrect`, `WayOutCorrect`, `BlockStays`: one lemma
  per rule of the policy.
* `SafetyChecksAgree`. At the backend's defaults, which the harness repeats as
  literals and `PolicyUsers` instantiates it with, its check and
  `evaluate_policy` are compared rule by rule (`SameRules`), for any facts and any
  decision; no invariant is needed. At other settings the two differ, as
  configured limits should.
* `ComparisonsAreHonest`. `Tried` counts the model's answers, good or failed. That
  nothing shows in the sums of a run whose calls all failed is not inductive: it
  needs `SumsOK`, which says it of every prefix of the run (as long as
  `failures = Tried`) and of the decision at hand, and `LoopOK`, that a decision
  belongs to the case at hand and the model is asked in a comparison only.
* `LimitsHold`, at the backend's defaults of two contacts and fourteen days, which
  the seeded cases are made to reach or exceed. No verdict on
  such a case approves it, whoever recommends (`NeverApproved`), so in `BatchInv` it
  is discovered or halted, without a link, until it is reported.
* `TrailTellsAll`, `RequestsAgree`, `HistoryOnlyGrows`: the audit trail. A trail is a
  `Story` of a status if its last change leads there, and each change and each
  request names the status the changes before it lead to. `TrailInv` says that the
  committed trail is a story of the committed status, and that the trail with what
  a session has flushed is one of its copy of the row, if its version lets it
  still write (`StoryOK`). Requests are flushed before the row is locked; what
  keeps a lost race from committing one is that every script goes on to a move before it
  commits (`ScriptOK`, `MoveAhead`), and the move meets the version. The row lock
  lets one session at most have a change flushed, which is younger than
  every committed one (`SessionOK`); no two stamps are equal (`StampsOK`). So
  changes that commit later are younger than those a reader was shown (`ReaderOK`).
* `SummaryOfTheLatest`. `ReportsInv`: while a request works on its list, nothing on
  the list is older than a report behind it that was there when the request came, and
  every such report that is readable is still on the list.
* `AverageOfPayments`, for a database with at least one case. The sum is taken
  before the count, and no commit takes a payment back, so the cases behind the sum
  are counted later; and each pays what it owes, at most `Most`
  (`FiguresAreReal`, `RowsAreReal`). The sum is a fold of the community modules.
  That it exists and is bounded is shown without the induction theorems: if it
  failed, it would fail for a set of least size, and the sums of the smaller
  sets extend to that size (`SumExists`, `SumBound`).

Only model-checked: the liveness properties (`SessionsFinish`, `TrackedLinkResolves`,
`CaseConcludes`, `EveryFailureIsCased`, `DiscoveredIsDecided`,
`ApprovedIsExecuted`), which with `ENABLED` and fairness are out of reach of the
prover. The other folds, the summary's remaining totals and how the cases of a dataset are
spread over the scenarios, enter no property and are not reasoned about.

## Not modelled, and assumptions

* Routing, request schemas, authentication, settings, logging, database
  plumbing and the frontend keep no state a property is about; settings are
  constants. What a language model answers is any valid recommendation or none.
* Listing and fetching single rows, filters, pages, redaction and the CSV and JSON
  formats of the export; fetching a link, notifications and headers of the
  Razorpay client.
* Seeded pseudo-random choice, the hash that holds cases out, timings, the
  tally of failure reasons, two tallies of violations, and `--output`
  overwriting a report.
* The connection pool (a diagnosis keeps its connection for the length of an AI
  call), a paid event without an amount, and the body of a second concurrent
  cycle, whose effect on the first is that of the operator's actions.
* Postgres at READ COMMITTED, one snapshot per statement; the order of
  `created_at` is the order of commits; the stamps of audit events come from one clock
  that does not go back; modification times of reports differ; rates and
  confidences are whole percentages; the dataset is processed case by case.

## Plan

Done: policy, state machine, lifecycle, pipeline and its refinement; the
orchestrator, ingestion, both external calls, the audit trail, the summary, the
evaluation harness and its reports, the batch. By proof: type correctness of the
pipeline, locking and crediting, approvals, the rounds of a case and the
refinement, the cycles and their budgets, both conversations, ingestion, the
policy and the two programs that repeat it, the trail and the other views.

Left, if the prover or the code changes:

1. The liveness properties, should the prover learn `ENABLED`: the pipeline's
   rest on `RoundInv`, the cycle's on `BudgetCorrect` and the ingestion's on
   `NoDeadlock`, which are proved.
2. The connection pool, with a pool size and the requests that hold a connection.
3. Rows with filters and pages, when something is decided on them.
