# The purchasing agent in TLA+

The repository is an agent that helps a buyer decide a purchase: the buyer opens a *review* of a recommendation, a
LangGraph workflow collects evidence through read-only tools, a deterministic policy and a sourcing search make a
decision, the buyer approves or rejects it, the workflow revalidates the facts, places the purchase orders and
validates them.  Suppliers later confirm the orders, possibly in part, and demand signals lead to new
recommendations.  This directory holds TLA+ modules of that program, the TLC runs that check them, and TLAPS proofs.

## 1. The system

One Python process (FastAPI, synchronous endpoints on a thread pool), one SQLite database for the rows and one for
LangGraph's checkpoints.  A handler answers, then its background task (`workflow.start`, `resume`,
`retry_execution`) runs on a pool thread.  Nothing locks a review, and `main.py`'s lifespan restarts nothing.

| Component | State | Operations | Talks to |
|---|---|---|---|
| Review workflow (`workflow/graph.py`, `tool_execute_approved_proposal`) | review status and version; decision, plan, proposal, approval request, purchase order, attempt and validation rows; checkpoint per thread | nodes prepare, approval, prevalidate, execute, validate, finalize; start, resume, retry_execution, _fail | evidence collection, policy, sourcing, provider |
| Approval and retry handlers (`api/routes.py`) | the same rows | decide_approval, execution_retry | schedule resume and retry_execution |
| Evidence collection and dispatcher (`_collect_tool_evidence`, `application/tools.py`, `evidence.py`) | tool traces, call counts, facts by tool | rounds of tool calls, retries, manifest completion, snapshot | provider; fact tables |
| Purchase policy (`domain/policy.py`, first part) | none (pure) | calculate_decision | called by the workflow and by confirmations |
| Sourcing (`application/sourcing.py`, `policy.py`, second part) | sourcing plan and lines | allocation search, create_and_persist_sourcing_plan | called by the workflow |
| Supplier confirmations (`supplier_confirmation`) | confirmation events, confirmed quantity, recovery attempts, follow-up reviews | one endpoint | schedules a follow-up review's start |
| Review intake (`create_review`) | reviews with idempotency key | one endpoint | schedules start |
| Demand signals (`application/demand.py`, routes) | signals, recommendations | accept, deduplicate, qualify | intake |
| Providers, explanations | none | choose calls, word explanations | external model |
| Audit log | append-only events | append | all |
| Seeding, demo scenarios, custom fixtures; read endpoints; web client | fixtures; none; polled view | load, list, poll | all |

What is hard in it:

- **Interleaving.** pysqlite opens a transaction at the first write, so all a handler or node has read may be stale
  when it commits.  Two approval requests, two retries or a slow and a fast run of one thread can overlap; the
  waits are the evidence collection, the model provider and the write lock.
- **Two stores.** Rows are committed inside a node, the checkpoint after it.
- **Partial failure and crash.** Background tasks die with the process; exceptions end them anywhere.
- **Retries and replays** of approvals, executions and supplier events.
- **Quantities**: minimum order, rounding, plan against decision, caps of calls and recoveries.

What makes each component correct: the lines of one approved plan are ordered, once, a completed review is justified
by validated orders, saved decisions stay, work ends (workflow); every mandatory fact is read within the caps
(collection); a BUY is feasible and minimal (policy), a plan covers the need as well as the suppliers allow
(sourcing); confirmed quantities do not shrink and recovery is bounded (confirmations); one active review per
recommendation, one review for a key (intake); one recommendation per signal (demand).

## 2. Plan

In order of importance; all are done.

1. `PurchaseReview`, with `ApprovedOrdering` as its abstract specification, `MCPurchaseReview`, and
   `PurchaseReview_proofs`.  `NaturalFacts` holds the facts about naturals that several proofs need.
2. `SupplierConfirmations`, with `MCSupplierConfirmations` and `SupplierConfirmations_proofs`.
3. `EvidenceCollection`, with `MCEvidenceCollection` and `EvidenceCollection_proofs`.
4. `PurchasePolicy`: the arithmetic of `calculate_decision` as operators, with `PurchasePolicy_proofs`.
5. `PurchasePlanning`, which extends it: from the decision to the proposal, the sourcing search against a reference
   that tries everything, with `MCPurchasePlanning`, `PurchasePlanning_proofs` and `PlanOptimality_proofs`.
6. `DemandSpike`: the arithmetic of `evaluate_demand_spike` as operators.
7. `ReviewIntake`, which extends it: buyers' and demand signals' reviews, with `MCReviewIntake` and
   `ReviewIntake_proofs`.

How they fit: `ReviewIntake` ends where a review's task is scheduled, which is where `PurchaseReview` starts.
`PurchaseReview` takes the evidence as `facts` or `Incomplete`, the policy and the plan as constants; these stand for
`EvidenceCollection`, `PurchasePolicy` and `PurchasePlanning`, whose properties say what values they may have.
`SupplierConfirmations` starts when an order is placed, and its follow-up reviews are `PurchaseReview`s again.

Every invariant and every action property that a passing run checks is also proved, with no assumption on how many
requests are in flight; liveness is left to TLC.

Several guarantees of this code hold until two requests overlap and not after.  Such a property says so itself, with a
history variable that names the step at which the overlap does its damage, and a run with two requests in flight
checks it: the variable excuses what that step has broken and nothing else.  These are `overlapped` in
`PurchaseReview`, `overwritten` and the field `since` in `ReviewIntake`, `lost` and `overtaken` in
`SupplierConfirmations`.

Where a document of the repository says otherwise than the code, a property of a passing run leaves the case open, or
says in its comment which of the two it describes; the disagreement is a run of its own that expects a violation, or
is listed in section 8.

## 3. PurchaseReview

One review.  Its variables are the rows by proposal version (`decisions` with their snapshot and plan, `requests`,
`proposals`, `orders`, `validated`), the review's `status` and `version`, the audit events `recorded` that an answer
leaves, the LangGraph checkpoint `ckpt`, the background tasks `task`, the approval requests between their checks and
their commit `handler`, and the purchasing `facts`, which change by themselves.

| Action | Code |
|---|---|
| `Start`, `Resume`, `SaveCheckpoint` | `ReviewWorkflow.start`, `resume`; LangGraph's checkpoint after each node |
| `Prepare`, `Evaluate` | `_prepare` up to the evidence, and the decision, plan and request it commits |
| `TraceTaken` | `_prepare` run again for a review whose trace has calls already: `uq_tool_trace_sequence` refuses the first one |
| `Prevalidate`, `RecheckUnchanged`, `RecheckChanged` | `_prevalidate`: the approval check, then execution, or a new version that supersedes the old |
| `Execute`, `ActionRefused`, `PlaceOrders` | `_execute`: the guard, the provider's refusal, `tool_execute_approved_proposal` |
| `Validate`, `Finalize` | `_validate`, `_finalize` |
| `Retry`, `RetrySuperseded`, `RetryUnchanged` | `retry_execution`, which runs execute, validate and finalize outside the graph |
| `TaskFails`, `LineFails`, `Fail` | an exception anywhere in a task, or between the lines of a plan, and `_fail`, which may raise one itself (`FailMayRaise`) |
| `ReceiveAnswer`, `RecordAnswer`, `RequestRetry` | `decide_approval` before and at its commit, `execution_retry` |
| `FactsChange`, `Crash` | other systems' writes; a killed process |

How a step is cut: reads and writes that follow each other at once are one action; the node or handler is split
where it waits (evidence, provider, write lock), and what it read before is kept in `task[t]` or `handler[h]`.  The
ORM writes only attributes that differ from what the session loaded; `Assign` models that.

Abstractions.  `Policy` and `Plan` are constants: any function from evidence to a decision, and from evidence and the
suppliers' present terms to a plan.  A decision "BUY" of quantity 0 does not occur in the code and is counted as what
the policy returns instead.  A snapshot is its facts: open purchase orders carry the time of the observation, so
equal hashes mean an equal collection in practice.  `_validate` compares each order with its plan line; an order that
was found by its key, or that others have written since, may differ in any field, so `MatchingSets` leaves open which
orders agree.  The purchase order's own status stays OPEN throughout and is left out, as is the
explanation of a decision.  `execution_retry`'s version check can always be met by the client, so it is no guard.
LangGraph is external: a checkpoint names the pending node and its state, is saved after a node has returned, and
there is no lock per thread; a resume of a thread that is in the middle runs the pending node again.

### Runs

`MCPurchaseReview` gives the constants values: states of the facts in which one supplier covers the need, two cover it
together, nothing has to be bought, or no plan is possible.

| Run | Question | Bounds |
|---|---|---|
| `races` | With everything overlapping: one version is ordered, under a standing approval; a completed review has ordered its whole plan and validated it, or needed no order; decisions stay; `ApprovedOrdering` is refined | 2 tasks, 2 handlers, 2 versions, 3 responses, 3 states of the facts, failures, crashes |
| `live` | With fair threads: working statuses end, an approval is acted on | 2 tasks, 1 handler, 3 versions, 2 responses, 2 states of the facts, failures |
| `partial_execution` | a counterexample to what a document says, see section 8 | 1 response, failures |
| `retry_wedge` | another one | 1 response, no failures |

Why the bounds are enough: a second version is the first that can conflict with another; two lines are the first
partial plan; two tasks and two handlers are the first overlaps, and three responses let a third run arrive after a
version was replaced, which is what the unique external id of an order is needed for.  Three states of the facts have
two different plans and a change that makes the order needless; "short", the fourth, only ends a review.  A version is
added by the first run and then by one response at most, so `MaxVersion = 3` never stops the `live` run.  In the other
runs the bound only cuts behaviours short, which is harmless to safety.  Retries are not counted: the status that
permits them recurs only finitely often in distinct states.

`WholePlanOrdered` speaks of completed reviews, since the documents let a review that needs attention keep part of a
plan.  `ApprovedOrdering` leaves open, for the same reason, whether lines are ordered together.  What the code does is
proved as `LinesAreOrderedTogether`, and `partial_execution` shows the disagreement.

`CHECK_DEADLOCK` is off where a review may end and facts have only one value.

Fairness (`FairSpec`): weak fairness of each task's steps and of each handler's commit, which the operating system's
threads give.  No fairness of the buyer, of the operator who retries, or of the facts.  Under `MayCrash` neither
liveness property holds, since nothing restarts work, so `live` has no crash.  It also has `FailMayRaise = FALSE`: a
`_fail` that cannot write leaves a working status behind.  `races` has both.

### Proofs

`PurchaseReview_proofs` proves, for all values of the constants (any number of versions, lines, tasks, handlers and
responses, any policy and plan, failures and crashes allowed), `TypeCorrect`, `OneVersionIsOrdered`,
`LinesAreOrderedTogether`, `WholePlanIsOrdered`, `ApprovalStands`, `DecisionsStay`, `Refinement` (every behaviour
implements `ApprovedOrdering`) and `CompletionIsJustified`.  They rest on `Invariance`, `Spec => []IInv`.
Assumptions: those named in `PurchaseReview`.

`OnePlanOrdered` says that the orders are none or all lines of one saved plan.  It is not inductive alone.  A step
that places orders needs to know that the version it orders has a plan with lines, for which:

- `TasksNameRows`: a task that executes or waits to place orders names a decision that exists (and its answer a
  version), and so does the checkpoint it may be restarted from (`CheckpointNamesVersion`);
- `RequestsHavePlans`: a request exists only for a saved BUY decision with at least one line;
- `HandlersAnswerRequests`: what a handler is about to record names an existing request;
- `ApprovalsAreRecorded`: an APPROVED request has its audit event, which the abstract specification's guard asks for.

Then `PlaceOrders` under `StillApproved` adds lines of a plan; if orders exist, they contain line 1 of some version,
every plan has line 1, and the unique external id refuses a second version: so old and new orders are of one version,
and `NewLines` completes its plan.  `SavedDecisionsNeverChange` follows from the unique constraint alone, which is
what makes the stale version number computed in `_prepare` harmless.

`CompletionIsJustified` (`CompletedIsJustified`) has two parts.  That a completed review has a validated order, or a
decision that needs none, holds whatever overlaps, by `EndInv` (`EndInvariance`): what validates has orders behind it, what finalizes as
passed has a validated one (`TasksEnd`, `CheckpointEnds`), and these never go away.  That *all* its orders are
validated, or its *latest* decision needs none, holds until two approval requests are in flight at once
(`overlapped`), whatever else happens: any number of handlers, tasks and versions, crashes, failures, retries, an end
of one run that overlaps with the next.  Its invariant is `TurnsPass` (`TurnInvariance`), that is `overlapped \/ TurnInv`; `TurnInv`
says that one *turn* is passed on among a run of the graph, a pending request and an answer in flight:

- at most one task is in the graph and not merely about to park it (`OneRuns`), and then nobody is asked and the
  decisions are those up to the review's version (`RunsAlone`);
- one answer is in flight (`OneAnswer`), it answers a pending request (`AnswersAreAwaited`), and only the newest
  version's request can be pending (`NewestIsAsked`);
- while a retry is permitted or under way, nobody has the turn (`RetriesAreSettled`);
- what a task or a restart from the checkpoint has read or done still stands (`TasksAct`, `CheckpointActs`), and once
  orders exist no task may make another decision and they are of the review's version (`OrderedIsLast`).

So the version that is ordered is the latest one decided, and `_validate`, which looks at the latest decision, looks at
all of its orders.  The proof has one lemma for each of the turn's ways: a step may keep it where it is (`TurnKept`), make
a decision (`DecisionMade`) or pass it (`ReceiveKeepsTurn`, `RecordKeepsTurn`, `OthersKeepTurn`).

Only model-checked: `WorkEnds` and `ApprovalIsActedOn`, which are liveness.

## 4. SupplierConfirmations

The chain of one product at one node: the first order, the events reported on it, the follow-up reviews of partial
confirmations, the replacements those order, the events on these.  Variables: `ordered`, `confirmed` and `attempts`
of each order, the orders that are `overdue`, the confirmation rows `events`, the follow-up review of each event
`followups`, whether an `alternate` supplier exists, and the requests between their reads and their commit `handler`.
History: `lost` counts the recovery attempts of an order that requests overwrote with a smaller count than they
should have, and `overtaken` the orders whose confirmed quantity an overlapping request replaced by a smaller one.

| Action | Code |
|---|---|
| `Receive` | `supplier_confirmation` up to its last check (replays and refused quantities change nothing) |
| `Commit` | its transaction: the event, the quantity, the follow-up recommendation and review, the attempt; or the unique constraint on the event id that undoes all of it |
| `PlaceReplacement`, `CloseFollowUp` | what the follow-up review's workflow comes to: an order for the need of that moment, or none |
| `BecomeOverdue`, `SuppliersChange` | the delivery horizon passes an order; suppliers come and go |

`FollowUp` recomputes the coverage only when no recovery is possible, in the transaction, with evidence that may be
incomplete.  Abstractions: one item per order; a replacement is exactly the need, i.e. minimum order 1 and one line;
`Target` is forecast plus safety stock less usable stock, unchanged during the chain; nothing is received.  The
order's own `version` is not read by the code modelled and is left out.  Crashes and the follow-up's liveness are
those of `PurchaseReview`.

| Run | Question | Bounds |
|---|---|---|
| `confirmations` | Events are taken once, partial confirmations are followed up, recovery is bounded, the confirmed quantity is the largest reported, each as far as overlapping requests let it | 2 handlers, 4 events, 2 orders, quantities to 3, limit 1 |
| `shrinks` | a counterexample, see section 8 | 2 handlers, 1 order |

Three events on one order are a first partial confirmation, its repetition or increase and one past the limit 1; the
fourth is one on the second order, which is the first replacement, or the one that an overlap let through.  Quantity 3
is the first with two different partial confirmations.  Two handlers are the first overlap.

`SupplierConfirmations_proofs` proves for all constants, however requests overlap, `TypeCorrect`, `PartialFollowedUp`,
`TakenOnce`, `BoundedRecovery` and `LargestConfirmed`.  The inductive invariant `OverlapInv` adds to the type and to
`PartialIsFollowedUp` that calls passed the checks (`CallsAreAcceptable`) and that only events have follow-ups
(`FollowUpsHaveEvents`).  Recovery is bounded because an order's started follow-ups are no more than the attempts
counted and those lost (`RecoveriesAreCounted`), and a step recovers only below the limit as it has read it
(`Recovers`).  The confirmed quantity is the largest because what a call has read has only grown since, unless the
order was overtaken (`CallsAreOlder`).

## 5. EvidenceCollection

One run of `_collect_tool_evidence`.  A model provider asks for reads in up to three rounds; the dispatcher refuses
them, or runs them within its limits; the manifest then reads what is still missing through the same dispatcher; the
policy's inputs are built from what was collected.  `PurchaseReview` sees only the outcome: complete evidence, or
`Incomplete`.

Variables: `round`, the call the dispatcher gets next `call`, the position `at` in the manifest, the dispatcher's
`sequence`, `attempts` and `seen`, the results `collected` by tool, `answered` and `exhausted` of the provider, the
verdict `evidence` and the trace's status `trace`.  `chosen` is history: the calls dispatched for the provider.

| Action | Code |
|---|---|
| `Plan`, `ProviderFails` | `run_investigation_round` answers with a list of calls, or no provider is available |
| `DispatchCall` | one turn of the loop over the calls: `dispatch`, and what `collected` keeps of it |
| `EndRound` | the end of that loop, and whether another round follows |
| `CompleteManifest`, `EndManifest` | one tool of `complete_mandatory_manifest`; the end of the list |
| `Finish` | the trace's status, and `build_inputs_from_tool_results` |

`Dispatch` is `ToolDispatcher.dispatch`, with its checks in their order: limit, known tool and scope, repetition in
the round, attempts; all but the first use up a call.

Abstractions.  A call is a tool and a class of arguments (the manifest's own, or others); the provider may ask for
anything, so its list is chosen call by call and is not empty.  Outside scope are unknown tools, wrong arguments and
foreign identifiers.  A read fails, or brings a deficient fact (stale, empty, contradictory) or a fresh one; its value
is not kept, nor which supplier's terms it names.  `seen` is cleared with each round, since a repetition is looked for
within its round only.  `get_purchase_order` is not in `Manifest`: `_collect_tool_evidence` passes no order, so the
manifest skips it.  `Facts` are the tools the policy's facts are taken from, `Optional` is `get_recent_sales` in the
scenarios that do not require it.

| Run | Question | Bounds |
|---|---|---|
| `rounds` | Good responses stay; mandatory tools are read; a completed trace has them all; the collection ends | 3 tools with 2 argument classes, 3 rounds, 5 calls, 2 attempts |
| `manifest_budget` | a counterexample, see section 8 | the same |

Rounds and attempts have the code's values.  Five calls for a manifest of two tools are more than the manifest needs
and less than a provider can waste, as ten are for seven; two argument classes are the first for which one tool can
be read once well and once not.

`MandatoryIsRead` is what the code keeps of FR-008: if the provider's calls leave room for the manifest under the
common limit, every mandatory tool has a response in the end, or its own read has used up its attempts, whatever was
refused, repeated or read with other arguments before.  Without that condition it is `ManifestIsRead`, which fails.
`CompletedTraceIsWhole` is not the status' own test: that one looks at the responses there are, and only the manifest
makes sure that none is missing.

Fairness: weak fairness of the whole step, i.e. the collection's thread runs, providers answer or fail, and reads
return.  The deadlock check is off since a collection ends.

`EvidenceCollection_proofs` proves `TypeCorrect`, `MandatoryRead`, `CompletedTrace` and `GoodStays` for every set of
tools, scope, manifest and budget.  The inductive invariant `IInv` adds to the type and to `CompletedTraceIsWhole` that
the manifest has made at most one call for each tool it has come to (`CallsAreCounted`: so a limit it meets was reached
by the provider's calls), that the part of the manifest behind `at` is settled and the manifest's round has seen no
call of the rest (`ManifestIsSettled`: so a repetition cannot be refused there), and where each phase stands
(`PhasesInOrder`).  It assumes that a manifest names no tool twice, as those of the code.  `CollectionEnds` is only
model-checked.

## 6. PurchasePolicy and PurchasePlanning

`PurchasePolicy` is `calculate_decision` on integers: need, the cap of budget, storage and supplier, rounding to the
minimum order, the decision's type, quantity and cost.  `QuantityIsRight` says without division what the quantity has
to be: the least order that fits and covers the need, or the greatest that fits.  For a need below the minimum order
the code and `spec/05` disagree, and the property allows both, nothing or the minimum; `QuantityIsLeast` says what the
code does there.

`PurchasePlanning` is the part of `_prepare` from the evidence to the proposal, for one review (`case`).  Variables:
`stage`, the review's `status`, the search's `todo`, `turn`, `frontier`, `pending`, `next` and `gaveUp`
(`complexity_limited`), the `plan` it chose, and `final`, the quantity and cost saved with the decision.  `all` is
history: every partial plan, had none been dropped.

| Action | Code |
|---|---|
| `EndWithoutOrder` | `_prepare`'s return after a REJECT or INVESTIGATE decision |
| `StartSearch` | who is asked and for how much (`create_and_persist_sourcing_plan`), the exclusions, the search's bound |
| `NextSupplier`, `AddOptions`, `EndSupplier` | the three nested loops of `allocate_sourcing_plan`: a supplier, a partial plan, its quantities; `Added` is the pruning of a bucket, `TooComplex` the two limits |
| `Choose` | the best state with a quantity, or none |
| `SavePlan` | the plan's rows and totals, the final decision, AWAITING_APPROVAL or the escalation |

Abstractions.  One currency code, a flag where it differs; times of delivery are days, counted from one moment;
names, reasons and wording are left out, as are exclusion reasons, of which only whether there is one matters.
`need_by_at` is a parameter no caller passes, so it excludes nobody.  Candidates are in the order of their ids.  The
order in which a frontier's states are expanded is open in the model.  What else `_prepare` commits is `PurchaseReview`'s.

| Run | Question | Bounds |
|---|---|---|
| `plans` | The policy's quantity is right; the plan keeps the limits, is the best there is, rounds on its last line only, and agrees with the policy | needs to 5, budgets to 9, up to 3 suppliers; `MaxOptions` 5, `MaxStates` 10, `LotBound` 8 |
| `line_totals` | a counterexample, see section 8 | 1 supplier, minimum order 2, need 3 |

`MCCases` is four sets: the policy's boundaries (each cap below, at and above the need and the minimum order, minimum
orders from 1 to 4), evidence the policy may not decide on, triples of suppliers that differ in supply, price, minimum
order, reliability and time, and suppliers whose terms drifted from the evidence.  Three suppliers are the first with
which a dropped partial plan could have been the start of a better one.  The limits of the code (1,000 options,
20,000 states) are small here, so that some searches reach them.  `LotBound` bounds the reference of
`PlanIsBest` only; it is at least the search's own bound plus what another lot could add.  The deadlock check is on: only `Finished` repeats, so the
search always comes to an outcome.

`PurchasePolicy_proofs` proves `QuantityLeast`, `QuantityRight` and `ConstraintsHold` for all inputs, from lemmas about multiples,
`RoundedUp` and `RoundedDown`.  `PurchasePlanning_proofs` proves, for any cases and limits, `TypeCorrect`,
`PolicyQuantity`, and `PruningIsSafe`: no partial plan that was dropped would have become better than the plan chosen.
Its invariant `IInv` says, besides types, that `turn` is a supplier's id when options are added (`TurnIsSupplier`),
that each partial plan of `all` is matched by one of the frontier that is no worse (`FrontierMatches`), and likewise in
the middle of a supplier, by one in `next` or one that `pending` will still give (`OptionsMatch`); that a plan is
chosen only at the end (`PlannedLast`).  The step rests on the lemma that `Extend` keeps `NoWorse`, and that the quantities
open to the worse of two states are open to the better.  `PlanIsWithinLimits` (from `LimitsInv`, the same for every
state of the search) says that a chosen plan keeps its suppliers' terms line by line, and budget and storage by the
sums the search carries along.

`PlanOptimality_proofs` proves the rest: `PlanWithinLimits` (`PlanKeepsLimits`), `PlanIsOptimal` and `PlanBest`
(`PlanIsBest`), `FinalLineRounds` (`OnlyFinalLineRounds`) and `PlanAgrees` (`PlanAgreesWithPolicy`), for any cases and
limits.  Its first part is about the sums over a plan's lines that the properties count with: how they change when one
line is put in, or when lines are only compared.  They are sums over 1 to the last supplier, so induction over the
suppliers suffices, stated about the set of numbers for which a fact holds (`SetInduction` in `NaturalFacts`).  From it
`PutExtends`: what `Extend` adds up is what the sums give.  The invariant `BestInv` adds to `IInv` and `LimitsInv`:

- suppliers have their turns in the order of their numbers (`TurnsInOrder`), and a partial plan has its sums and lines
  only of those that had theirs (`SearchAddsUp`);
- whatever allocation is allowed, its lines of the suppliers so far are covered by a partial plan of `all`: as much of
  the need, at no more cost, and so on (`SearchReaches`).  An allocation of any size is meant, so this also shows that the search's
  bound on the total quantity and on a supplier's options loses nothing;
- so the outcome is best (`OutcomeIsBest`): `PruningLosesNothing` takes the result from `all` to the frontier;
- where a plan can be at each stage, and what `SavePlan` leaves behind (`StagesInOrder`, `OutcomeIsSaved`).

`PlanIsOptimal` has no `LotBound`: a plan is found if any allocation is allowed, and none ranks before it.
`FinalLineRounds` follows by exchange: a plan without its last line, or with one minimum order less of it, would rank
before the chosen one.  `PlanAgrees` follows since the policy's order is itself an allowed allocation of the preferred supplier.
Assumptions: those named in `PurchasePlanning`, of which `NoPlanAssumption` says that Python's `None` is no plan.

## 7. ReviewIntake and DemandSpike

`DemandSpike` is `evaluate_demand_spike` with the sums `evaluate_demand_signal` gives it.  `ExactFor` says without
division what it is to come to.

`ReviewIntake` is how reviews come into being.  Variables: the rows `recommendations`, `reviews`, `signals` and
`sales`; the `facts` demand is judged against; the tasks `scheduled`; the requests in flight, `creator` and
`receiver`.  History: `answers` (which review a key was answered with), `overwritten` (reviews whose key was replaced
by a request that had read another), `stranded` (reviews whose start a crash has lost), and, of a request and the
review it makes, `since`: how many reviews there were when it looked for an active one.

| Action | Code |
|---|---|
| `Replay`, `RequestReview` | `create_review`: a known key, and a request that goes on |
| `FindNone`, `FindActive`, `AdoptKey`, `InsertReview` | its look at the newest review, and its three ends: an answer or a refusal, a key adopted, a review inserted and its start scheduled |
| `ReceiveSignal`, `FindSales` | `mock_demand_signals` up to its first write: the event, the window's row |
| `WriteSignal` | the rest, from the observation's write to the commit; or the exception that undoes it |
| `Evaluate`, `RecordSignal` | the same when the row holds the observation already: the ORM sends no update, nothing is locked, and the evaluation is on reads that may be stale at the commit |
| `StartReview`, `CloseReview` | what the workflow does to a review's status, as intake sees it |
| `FactsChange`, `Crash` | other systems' writes; a killed process |

How a step is cut: SQLite gives each SELECT its own view, and the write lock from the first write on; each read that
another request can outdate is a step.  Abstractions.  A review is created, active or closed.  The keys of signals
(`demand-signal:<event>`) are no buyer's keys.  A signal's schema and product checks are preconditions.  A key known
for another recommendation, a duplicate event and a missing recommendation change nothing and are no actions.
`evaluate_demand_signal`'s answers CONFLICTING_ and MISSING_DEMAND_EVIDENCE cannot occur behind the endpoint, which has
checked the forecasts and the window already.  One event always reports one observation (`Observed`).  The demonstration's refresh of seeded facts is left out.

| Run | Question | Bounds |
|---|---|---|
| `intake` | When a second active review can come about, one review for a key and for an event, exact qualification, no start forgotten | 2 creators, 2 receivers, 1 planned recommendation, 1 event, 2 keys, 4 states of the facts, 2 reviews, crashes |
| `two_active` | a counterexample, see section 8 | 2 creators, 3 reviews |

Two creators and two receivers are the first overlaps of a request with another and of an event with its own
repetition; two keys are the first refusal and the first key that is overwritten; two reviews are the first two that
can be active together, a closed one and its successor, or the event's and another.  With three reviews, three states
of the facts and no crash the same properties were checked once more, on 3.5 million states.  The facts reach the
threshold exactly, miss it by one, are stale, or have neither baseline nor supplier.  The deadlock check is off, since
nobody has to send requests.

`OneActiveReview` does not hold, since `create_review` looks for an active review before it takes the write lock.
`ActiveTogetherOverlapped` says how far it may fail: a review comes after one that is not closed only where a request
of the same recommendation had looked before that one was there.  `KeyNamesOneReview` excepts reviews in
`overwritten`.  `StartsAreScheduled` says of every review that is not started where its start is: in a task of this
process, or lost with an earlier one.  That a scheduled start runs is the server's affair.

`ReviewIntake_proofs` proves for all constants, however requests overlap, `TypeCorrect`, `OneReviewPerEvent`,
`QualificationExact`, `ActiveTogether`, `KeyIsIdempotent` and `NoStartForgotten`.  The invariant `IInv` says that
requests name rows that exist (`CallsNameRows`) and that a signal's review keeps its key (`SignalKeysStay`: no one
adopts it, it is never empty).  `RowSteps` gives the five things a step can do to the rows, and each invariant is then
proved over these five.  `RequestInv` has the other three: `StartInv`; `KeyInv`, that a request about to put its key on
a review has read that review without one (`AdoptsSawNone`), that keys are unique and answers hold; and `OverlapInv`,
that a request about to insert a review has seen no active one but such as another had overlapped (`CallsLooked`).

## 8. Findings

Each is a run that expects a violation; the trace shows the behaviour.

- `partial_execution`: when a later line of a plan cannot be written, the lines written before it are rolled back and
  the review is FAILED (`tools.py:893`, `graph.py:788`), against FR-036 (`spec/01` line 50: "MUST retain successful
  lines ... and MUST end in `NEEDS_ATTENTION`"), `spec/06` line 125, `spec/07` line 186 and EV-021 (`spec/12` line 91).
- `manifest_budget`: the manifest's reads count towards the provider's limit of calls (`tools.py:626`, `838`) and are
  refused when that is used up, against FR-008 (`spec/01` line 14: "Manifest-added safety reads do not consume the
  model-selection cap"), `spec/06` line 106 and `spec/07` line 33.
- `retry_wedge`: a retry that finds changed facts supersedes the request and makes no new one; the review can no
  longer be answered (`graph.py:1058`, `spec/10` line 60).
- `shrinks`: of two overlapping confirmations the smaller may commit last (`routes.py:848`, against the message at
  line 834).
- `two_active`: two overlapping requests for a recommendation both find no active review and each creates one
  (`routes.py:196`, against the message at line 213).
- `line_totals`: a plan's saved quantity is what it covers of the need, not what its lines order (`policy.py:519`,
  against INV-012 in `spec/03` line 89).

Known limits of the properties that pass, each a behaviour of the code.  In reviews:

- `ApprovalIsActedOn` fails with `MayCrash = TRUE`: an approval recorded before a crash is never acted on
  (`routes.py:787`), since a replay of it schedules nothing.
- `WorkEnds` fails with `FailMayRaise = TRUE`: `_fail` writes to the same database (`graph.py:1086`), and when that
  fails too a working status stays.
- When two approval requests have overlapped, two runs of one thread do, and `_validate` may look at another decision
  than the one that was executed, or at one of several lines: a review can be COMPLETED although only one of its two
  orders is validated, against FR-035 (`spec/01` line 49) and INV-015 (`spec/03` line 92).  `CompletedIsJustified` asks
  for one validated order then (`graph.py:810`).  With three versions and three responses the version that is ordered
  need not be the current one either (INV-007): an approval that was checked before its request was superseded commits
  after it.
- Two accepted retries may take a completed review out of COMPLETED (`graph.py:1069`).
- An answer between a node's commit and its checkpoint can lead to REJECTED_BY_BUYER without a rejection
  (`graph.py:491`).
- For a one-line plan `_prevalidate` compares the policy's quantity with the plan's (`graph.py:541`).  In the
  scenarios with alternates these may differ by the rounding to the minimum order, and then every approval is superseded.
  `PlanAgreesWithPolicy` is about recommendation reviews.

In evidence and planning:

- A later good read replaces an earlier one of the same tool (`graph.py:209`), also with another supplier's terms;
  `GoodResponsesStay` speaks of the quality of a response only.
- A need below the minimum order is rounded up to it when that fits (`policy.py:121-129`).  `spec/05` has the need in
  `hard_cap` (line 35) and says "If `0 < hard_cap < MOQ`, feasible quantity is `0`" (line 41).  `PolicyQuantityIsRight`
  allows either.
- A minimum order small against the need reaches the limit of options, and the plan is INFEASIBLE although the need
  could be covered (`policy.py:452`).
- A policy whose feasible quantity for the preferred supplier is 0 ends in INVESTIGATE, and no other supplier is asked.
- `_dominates` can drop a partial plan that would have won by its suppliers' ids alone, when a later line evens out the
  delivery times (`policy.py:347`, against its docstring); `PruningLosesNothing` compares without the ids.

In confirmations:

- Two overlapping partial confirmations count one recovery (`routes.py:895`), and the order is recovered once more than
  the limit.  `RecoveryBounded` allows one more for each attempt lost in this way.
- The recovery limit is per order, and replacements count from 0 again (`routes.py:887`), while FR-034 (`spec/01` line
  48) and `spec/06` line 110 bound the workflow ("maximum 2 proposal cycles after the initial action").
- An event that confirms 0 is ignored as unchanged (`routes.py:836`).  Unconfirmed orders are no incoming supply
  (`evidence.py:352`), so a second follow-up orders the same need again.

In intake:

- Of two requests that adopt one review the later overwrites the earlier key (`routes.py:217`), and that key makes a
  second review when it is sent again; `KeyNamesOneReview` excepts such reviews.
- A review whose start was lost in a crash stays CREATED and blocks its recommendation (`routes.py:239`).
- An event that is delivered twice at once may be judged on later facts than its signal row shows (`demand.py:146`);
  an older observation overwrites a newer one of its window (`routes.py:1091`); a time with an offset is taken as UTC
  (`demand.py:82`); without an active supplier a qualifying signal is rolled back with an error (`routes.py:1109`).

## 9. Not modelled

- Read endpoints and summaries, wording, prompts, schemas, column types, migrations and settings: no control.
- Seeding, demonstration scenarios and custom fixtures: they write the facts a demonstration starts from; the models
  start from any facts.
- The web client: a poller that posts what the handler actions take.
- The inside of the external model provider and of LangGraph: modelled by what the code relies on.
- What TLAPS cannot reach: liveness under fairness (`WorkEnds`, `ApprovalIsActedOn`, `CollectionEnds`), which is only model-checked.
