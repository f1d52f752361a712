--------------------------- MODULE PurchaseReview ---------------------------
(***************************************************************************)
(* The life of one purchasing review: the LangGraph workflow that collects *)
(* evidence, decides, waits for the buyer, revalidates, orders and         *)
(* validates (workflow/graph.py), and the two HTTP handlers that move it   *)
(* on (decide_approval and execution_retry in api/routes.py).              *)
(*                                                                         *)
(* Handlers and background tasks run on threads of one process and share   *)
(* one SQLite database.  A SELECT opens no transaction there, so what a    *)
(* handler or a node has read may be stale when it commits: every one that *)
(* waits for evidence, for the model provider or for the write lock is     *)
(* split into the step that reads and the step that commits.               *)
(*                                                                         *)
(* Facts stand for everything the evidence tools can report; Policy and    *)
(* Plan stand for calculate_decision and create_and_persist_sourcing_plan. *)
(* A quote is a quantity, a cost and a currency.                           *)
(***************************************************************************)
EXTENDS Naturals

CONSTANTS
  Facts,        \* states of the purchasing facts the tools read
  Incomplete,   \* evidence with a missing fact or an exhausted provider
  Quotes,       \* quantity, cost and currency of a decision
  ZeroQuote,    \* the quote of a decision that buys nothing
  Policy,       \* what calculate_decision returns for complete evidence
  Plan,         \* the sourcing plan, from the evidence and the supplier terms
  NoDecision,   \* a decision row that does not exist
  Tasks,        \* slots for background tasks (start, resume, retry_execution)
  Handlers,     \* slots for approval requests in flight
  MaxVersion,   \* bound: versions a review may reach
  MaxLines,     \* bound: lines of a sourcing plan
  MaxResponses, \* bound: buyer responses accepted by decide_approval
  MayFail,      \* whether a task may end in an exception of its environment
  MayCrash,     \* whether the server process may be killed
  FailMayRaise  \* whether _fail may end in an exception as well

Versions == 1..MaxVersion
Lines    == 1..MaxLines
Evidence == Facts \cup {Incomplete}

ASSUME BoundsAssumption ==
  /\ MaxVersion \in Nat \ {0}
  /\ MaxLines \in Nat \ {0}
  /\ MaxResponses \in Nat
  /\ MayFail \in BOOLEAN
  /\ MayCrash \in BOOLEAN
  /\ FailMayRaise \in BOOLEAN

ASSUME PolicyAssumption ==
  /\ Facts # {}
  /\ Incomplete \notin Facts
  /\ ZeroQuote \in Quotes
  /\ Policy \in [Facts -> [action : {"BUY", "REJECT", "INVESTIGATE"}, quote : Quotes]]
  \* a plan with no lines is one that is not COMPLETE
  /\ Plan \in [Facts \X Facts -> [lines : 0..MaxLines, quote : Quotes]]

Terminal == {"COMPLETED", "REJECTED_BY_BUYER", "NEEDS_ATTENTION", "FAILED"}
Working  == {"CREATED", "COLLECTING_EVIDENCE", "EVALUATING", "EXECUTING", "VALIDATING"}
Statuses == Terminal \cup Working \cup {"AWAITING_APPROVAL", "AWAITING_EXECUTION_RETRY"}

Nodes   == {"none", "prepare", "approval", "prevalidate", "execute", "validate",
            "finalize", "end"}
Waiting == {"approval", "end"}
Choices == {"APPROVE", "REJECT"}
Answers == [choice : Choices \cup {"NONE"}, version : 0..MaxVersion]

Decision ==
  [evidence : Evidence, type : {"BUY", "REJECT", "INVESTIGATE"},
   lines : 0..MaxLines, quote : Quotes]

ASSUME NoDecisionAssumption == NoDecision \notin Decision

VARIABLES
  facts,      \* the purchasing facts as they are now
  status,     \* PurchasingReview.status
  version,    \* PurchasingReview.current_proposal_version
  decisions,  \* Decision rows with their snapshot and sourcing plan, by version
  requests,   \* ApprovalRequest.status, by proposal version
  proposals,  \* PurchaseProposal.status, by proposal version
  orders,     \* PurchaseOrder rows (with their ActionAttempt), as <<version, sequence>>
  validated,  \* orders with a PASSED ValidationResult
  recorded,   \* APPROVAL_RECORDED audit events, as <<version, choice>>
  ckpt,       \* the thread's LangGraph checkpoint: pending node and its state
  task,       \* background tasks: where each is and what it has read
  handler,    \* approval handlers between their checks and their commit
  responses,  \* approval requests that passed the handler's checks
  overlapped  \* history: two approval requests were in flight at once

rows == <<decisions, requests, proposals, orders, validated>>
vars == <<facts, status, version, rows, recorded, ckpt, task, handler, responses,
          overlapped>>

PCs == {"idle", "start", "resume", "retry", "retrying", "evaluate", "recheck",
        "acting", "save", "untraced"} \cup (Nodes \ (Waiting \cup {"none"}))

NoAnswer == [choice |-> "NONE", version |-> 0]

Task ==
  [pc : PCs, next : Nodes, direct : BOOLEAN, dec : 0..MaxVersion, answer : Answers,
   seen : Statuses, evidence : Evidence, passed : BOOLEAN, replaced : BOOLEAN]

IdleTask ==
  [pc |-> "idle", next |-> "none", direct |-> FALSE, dec |-> 0, answer |-> NoAnswer,
   seen |-> "CREATED", evidence |-> Incomplete, passed |-> FALSE, replaced |-> FALSE]

(***************************************************************************)
(* Every variable has its type; a row exists or is marked as missing.      *)
(***************************************************************************)
TypeOK ==
  /\ facts \in Facts
  /\ status \in Statuses
  /\ version \in 0..MaxVersion
  /\ decisions \in [Versions -> Decision \cup {NoDecision}]
  /\ requests \in [Versions -> {"NONE", "PENDING", "APPROVED", "REJECTED", "SUPERSEDED"}]
  /\ proposals \in [Versions -> {"NONE", "PENDING", "EXECUTED", "SUPERSEDED"}]
  /\ orders \in SUBSET (Versions \X Lines)
  /\ validated \in SUBSET (Versions \X Lines)
  /\ recorded \in SUBSET (Versions \X Choices)
  /\ ckpt \in [node : Nodes, dec : 0..MaxVersion, answer : Answers, passed : BOOLEAN]
  /\ task \in [Tasks -> Task]
  /\ handler \in [Handlers -> Answers]
  /\ responses \in 0..MaxResponses
  /\ overlapped \in BOOLEAN

(***************************************************************************)
(* create_review has committed the review and scheduled workflow.start.    *)
(***************************************************************************)
Init ==
  /\ facts \in Facts
  /\ status = "CREATED"
  /\ version = 0
  /\ decisions = [v \in Versions |-> NoDecision]
  /\ requests = [v \in Versions |-> "NONE"]
  /\ proposals = [v \in Versions |-> "NONE"]
  /\ orders = {}
  /\ validated = {}
  /\ recorded = {}
  /\ ckpt = [node |-> "none", dec |-> 0, answer |-> NoAnswer, passed |-> FALSE]
  /\ \E t \in Tasks :
       task = [u \in Tasks |-> IF u = t THEN [IdleTask EXCEPT !.pc = "start"] ELSE IdleTask]
  /\ handler = [h \in Handlers |-> NoAnswer]
  /\ responses = 0
  /\ overlapped = FALSE

-----------------------------------------------------------------------------
(***************************************************************************)
(* Helpers.                                                                *)
(***************************************************************************)

\* The ORM emits an UPDATE only for an attribute that differs from the value
\* the session loaded: assigning the value it has seen leaves the row alone.
Assign(r, new) == IF r.seen = new THEN status ELSE new

\* A node returned: a graph run writes its checkpoint next, a direct run
\* (retry_execution) goes on or ends.
Route(r, node) ==
  IF r.direct
    THEN IF node \in Waiting
           THEN IdleTask
           ELSE [r EXCEPT !.pc = node, !.seen = "CREATED", !.evidence = Incomplete]
    ELSE [r EXCEPT !.pc = "save", !.next = node, !.seen = "CREATED", !.evidence = Incomplete]

\* Variant: without the constraint.
VersionNeverTaken(v) == FALSE

\* UNIQUE (review_id, version) on decisions, plans and proposals.
VersionTaken(v) == decisions[v] # NoDecision

\* What one collection of evidence may return.
Collected == {facts, Incomplete}

\* What calculate_decision says of the collected evidence.
Action(e) == IF e = Incomplete THEN "INVESTIGATE" ELSE Policy[e].action
Quote(e)  == IF e = Incomplete THEN ZeroQuote ELSE Policy[e].quote

\* The decision saved for evidence e.  The plan reads the suppliers' terms
\* again (the present facts), not the snapshot; a plan that is not COMPLETE
\* turns the decision into INVESTIGATE with quantity 0.
Decide(e) ==
  LET plan == Plan[<<e, facts>>] IN
  IF Action(e) # "BUY"
    THEN [evidence |-> e, type |-> Action(e), lines |-> 0, quote |-> Quote(e)]
  ELSE IF plan.lines = 0
    THEN [evidence |-> e, type |-> "INVESTIGATE", lines |-> 0, quote |-> ZeroQuote]
    ELSE [evidence |-> e, type |-> "BUY", lines |-> plan.lines, quote |-> plan.quote]

\* Variants: an escalation that keeps the working status; a thread that ends
\* instead of stopping at the interrupt.
OutcomeStatusKept(d) ==
  CASE d.type = "BUY"    -> "AWAITING_APPROVAL"
    [] d.type = "REJECT" -> "COMPLETED"
    [] OTHER             -> "EVALUATING"

NextNodeEnd(d) == "end"

\* The status and the next node each kind of decision leads to.
OutcomeStatus(d) ==
  CASE d.type = "BUY"    -> "AWAITING_APPROVAL"
    [] d.type = "REJECT" -> "COMPLETED"
    [] OTHER             -> "NEEDS_ATTENTION"

NextNode(d) == IF d.type = "BUY" THEN "approval" ELSE "end"

\* The refreshed evidence, or the refreshed decision, differs from the saved one.
FingerprintChanged(e, d) == e = Incomplete \/ e # d.evidence
DecisionChanged(e, d)    == Action(e) # d.type \/ Quote(e) # d.quote

\* With several plan lines _prevalidate compares the evidence only.
PrevalidateChanged(e, d) ==
  FingerprintChanged(e, d) \/ (d.lines <= 1 /\ DecisionChanged(e, d))

RetryChanged(e, d) == FingerprintChanged(e, d) \/ DecisionChanged(e, d)

\* The largest version with a decision row; 0 when there is none.
LatestDecision ==
  CHOOSE v \in 0..MaxVersion :
    /\ v = 0 \/ decisions[v] # NoDecision
    /\ \A w \in Versions : decisions[w] # NoDecision => w <= v

LatestRequest ==
  CHOOSE v \in 0..MaxVersion :
    /\ v = 0 \/ requests[v] # "NONE"
    /\ \A w \in Versions : requests[w] # "NONE" => w <= v

\* An exception reached ReviewWorkflow.start, resume or retry_execution.  _fail
\* writes to the same database, and may end in an exception of its own.
Fail(t) ==
  /\ \/ status' = IF status \in (Terminal \ {"FAILED"}) \cup {"AWAITING_EXECUTION_RETRY"}
                    THEN status ELSE "FAILED"
     \/ FailMayRaise /\ status' = status
  /\ task' = [task EXCEPT ![t] = IdleTask]
  /\ UNCHANGED <<version, rows, ckpt>>

-----------------------------------------------------------------------------
(***************************************************************************)
(* Background tasks.  Each action is one step of task t.                   *)
(***************************************************************************)

\* workflow.start invokes the graph: the input checkpoint names prepare.
Start(t) ==
  /\ task[t].pc = "start"
  /\ ckpt' = [ckpt EXCEPT !.node = "prepare"]
  /\ task' = [task EXCEPT ![t].pc = "prepare"]
  /\ UNCHANGED <<status, version, rows>>

\* workflow.resume loads the thread's latest checkpoint.  A thread parked at
\* the interrupt takes the answer; one that has ended does nothing; one that
\* is in the middle runs its pending node again, from the saved state.
Resume(t) ==
  LET r == task[t]
      loaded == [r EXCEPT !.dec = ckpt.dec, !.passed = ckpt.passed]
  IN
  /\ r.pc = "resume"
  /\ task' = [task EXCEPT ![t] =
       CASE ckpt.node = "approval"        -> Route(loaded, "prevalidate")
         [] ckpt.node \in {"none", "end"} -> IdleTask
         [] OTHER -> [loaded EXCEPT !.pc = ckpt.node, !.answer = ckpt.answer]]
  /\ UNCHANGED <<status, version, rows, ckpt>>

\* The checkpoint of the finished node; the run parks at the interrupt.
SaveCheckpoint(t) ==
  LET r == task[t] IN
  /\ r.pc = "save"
  /\ ckpt' = [node |-> r.next, dec |-> r.dec, answer |-> r.answer, passed |-> r.passed]
  /\ task' = [task EXCEPT ![t] =
       IF r.next \in Waiting THEN IdleTask ELSE [r EXCEPT !.pc = r.next, !.next = "none"]]
  /\ UNCHANGED <<status, version, rows>>

\* The review has an investigation trace with tool calls: a decision was made
\* from them.  UNIQUE (investigation_trace_id, sequence) lets nobody add others.
Traced == \E v \in Versions : decisions[v] # NoDecision

\* _prepare up to its first commit, and the collection of evidence.  The
\* version of the decision is computed from the row loaded here.  A second run
\* of the node finds the trace: only an exhausted provider keeps it from
\* recording a call there.
Prepare(t) ==
  /\ task[t].pc = "prepare"
  /\ version < MaxVersion
  /\ status' = "COLLECTING_EVIDENCE"
  /\ \/ \E e \in Collected :
          /\ Traced => e = Incomplete
          /\ task' = [task EXCEPT ![t].pc = "evaluate", ![t].evidence = e,
                                  ![t].dec = version + 1]
     \/ /\ Traced
        /\ task' = [task EXCEPT ![t].pc = "untraced"]
  /\ UNCHANGED <<version, rows, ckpt>>

\* IntegrityError at the first tool call.
TraceTaken(t) == task[t].pc = "untraced" /\ Fail(t)

\* _prepare from the snapshot to its last commit.
Evaluate(t) ==
  LET r == task[t]
      v == r.dec
      d == Decide(r.evidence)
      planned == Action(r.evidence) = "BUY"
  IN
  /\ r.pc = "evaluate"
  /\ IF VersionTaken(v)
       THEN Fail(t)  \* IntegrityError
       ELSE /\ decisions' = [decisions EXCEPT ![v] = d]
            /\ version' = IF planned THEN v ELSE version
            /\ proposals' = [proposals EXCEPT ![v] = IF planned THEN "PENDING" ELSE @]
            /\ requests' = [requests EXCEPT ![v] = IF d.type = "BUY" THEN "PENDING" ELSE @]
            /\ status' = OutcomeStatus(d)
            /\ task' = [task EXCEPT ![t] = Route(r, NextNode(d))]
            /\ UNCHANGED <<orders, validated, ckpt>>

\* _prevalidate up to its first commit, and the collection of evidence.
Prevalidate(t) ==
  LET r == task[t]
      approved == /\ r.answer.choice = "APPROVE"
                  /\ r.answer.version \in Versions
                  /\ requests[r.answer.version] = "APPROVED"
  IN
  /\ r.pc = "prevalidate"
  /\ \/ /\ ~approved
        /\ status' = "REJECTED_BY_BUYER"
        /\ task' = [task EXCEPT ![t] = Route(r, "end")]
     \/ /\ approved
        /\ status' = status
        /\ \E e \in Collected :
             task' = [task EXCEPT ![t].pc = "recheck", ![t].seen = status, ![t].evidence = e]
  /\ UNCHANGED <<version, rows, ckpt>>

\* _prevalidate, the rest: execute what was approved, or replace it.
RecheckUnchanged(t) ==
  LET r == task[t] IN
  /\ r.pc = "recheck"
  /\ ~PrevalidateChanged(r.evidence, decisions[r.dec])
  /\ status' = Assign(r, "EXECUTING")
  /\ task' = [task EXCEPT ![t] = Route(r, "execute")]
  /\ UNCHANGED <<version, rows, ckpt>>

RecheckChanged(t) ==
  LET r == task[t]
      v == r.dec + 1
      d == Decide(r.evidence)
      planned == Action(r.evidence) = "BUY"
  IN
  /\ r.pc = "recheck"
  /\ PrevalidateChanged(r.evidence, decisions[r.dec])
  /\ v \in Versions
  /\ IF VersionTaken(v)
       THEN Fail(t)  \* IntegrityError
       ELSE /\ decisions' = [decisions EXCEPT ![v] = d]
            /\ version' = v
            /\ proposals' = [proposals EXCEPT ![r.dec] = "SUPERSEDED",
                                             ![v] = IF planned THEN "PENDING" ELSE @]
            /\ requests' = [requests EXCEPT ![r.answer.version] = "SUPERSEDED",
                                           ![v] = IF d.type = "BUY" THEN "PENDING" ELSE @]
            /\ status' = OutcomeStatus(d)
            /\ task' = [task EXCEPT ![t] = Route([r EXCEPT !.dec = v], NextNode(d))]
            /\ UNCHANGED <<orders, validated, ckpt>>

\* _execute's guard before the provider is asked to act.
GuardHolds(v) == version = v /\ requests[v] = "APPROVED"

\* _execute up to the provider call.
Execute(t) ==
  LET r == task[t] IN
  /\ r.pc = "execute"
  /\ \/ /\ ~GuardHolds(r.dec)
        /\ status' = "NEEDS_ATTENTION"
        /\ task' = [task EXCEPT ![t] = Route(r, "end")]
     \/ /\ GuardHolds(r.dec)
        /\ status' = status
        /\ task' = [task EXCEPT ![t].pc = "acting", ![t].seen = status]
  /\ UNCHANGED <<version, rows, ckpt>>

\* The provider returned no call, or not the one that was asked for.
ActionRefused(t) ==
  LET r == task[t] IN
  /\ r.pc = "acting"
  /\ status' = Assign(r, "AWAITING_EXECUTION_RETRY")
  /\ task' = [task EXCEPT ![t] = Route(r, "end")]
  /\ UNCHANGED <<version, rows, ckpt>>

\* Variant: external ids are not unique.
ExternalIdFree(v) == FALSE

\* Variants: the loop over the plan's lines stops one line early; it goes over
\* every ranked line and not over the plan's.
LastLineForgotten(v) ==
  {<<v, k>> : k \in {n \in 1..decisions[v].lines : n < decisions[v].lines}} \ orders

EveryLine(v) == ({v} \X Lines) \ orders

\* The orders that exist already are found by their idempotency key; the
\* external id of a new one is made of the review's id and the line's
\* sequence, and is UNIQUE.
PlanLines(v) == {v} \X (1..decisions[v].lines)
NewLines(v)  == PlanLines(v) \ orders

ExternalIdTaken(v) == \E new \in NewLines(v), old \in orders : new[2] = old[2]

\* Variant: the approval read before the provider call is trusted.
ApprovalRemembered(v) == TRUE

\* tool_execute_approved_proposal asks the database for the APPROVED request
\* again, after its own UPDATE has taken the write lock.
StillApproved(v) == requests[v] = "APPROVED"

\* The rest of _execute: every line's order and attempt in one commit.
PlaceOrders(t) ==
  LET r == task[t] IN
  /\ r.pc = "acting"
  /\ IF ~StillApproved(r.dec) \/ ExternalIdTaken(r.dec)
       THEN Fail(t)  \* ValueError, or UNIQUE (external_id)
       ELSE /\ orders' = orders \cup NewLines(r.dec)
            /\ proposals' = [proposals EXCEPT ![r.dec] = "EXECUTED"]
            /\ status' = Assign(r, "VALIDATING")
            /\ task' = [task EXCEPT ![t] = Route(r, "validate")]
            /\ UNCHANGED <<version, decisions, requests, validated, ckpt>>

\* Variant: only the first attempt is compared.
FirstChecked(v) == {orders \cap {<<v, 1>>}}

\* The orders _validate may compare with their plan lines: those of the latest
\* decision, or else the one the executed state names (attempts ordered by a
\* random id, so any of them).
CheckedSets(v) ==
  LET latest == {o \in orders : o[1] = LatestDecision}
      own    == {o \in orders : o[1] = v}
  IN IF latest # {} \/ own = {} THEN {latest} ELSE {{o} : o \in own}

\* The orders that agree with their plan lines.  A row that was found by its
\* key, or that others have written since, may differ; so may the currency,
\* which is compared with that of the latest decision.
MatchingSets(checked) == SUBSET checked

Validate(t) ==
  LET r == task[t] IN
  /\ r.pc = "validate"
  /\ \E checked \in CheckedSets(r.dec) :
       \E matching \in MatchingSets(checked) :
         /\ validated' = validated \cup matching
         /\ task' = [task EXCEPT
              ![t] = Route([r EXCEPT !.passed = (matching = checked)], "finalize")]
  /\ UNCHANGED <<status, version, decisions, requests, proposals, orders, ckpt>>

Finalize(t) ==
  LET r == task[t] IN
  /\ r.pc = "finalize"
  /\ status' = IF r.passed THEN "COMPLETED" ELSE "NEEDS_ATTENTION"
  /\ task' = [task EXCEPT ![t] = Route(r, "end")]
  /\ UNCHANGED <<version, rows, ckpt>>

\* retry_execution up to its first commit, and the collection of evidence.
Retry(t) ==
  LET d == LatestDecision
      q == LatestRequest
  IN
  /\ task[t].pc = "retry"
  /\ \/ /\ status # "AWAITING_EXECUTION_RETRY" \/ d = 0 \/ q = 0
        /\ task' = [task EXCEPT ![t] = IdleTask]
     \/ /\ status = "AWAITING_EXECUTION_RETRY" /\ d # 0 /\ q # 0
        /\ \E e \in Collected :
             task' = [task EXCEPT
               ![t] = [@ EXCEPT !.pc = "retrying", !.direct = TRUE, !.dec = d, !.evidence = e,
                                !.answer = [choice |-> "APPROVE", version |-> q],
                                !.replaced = (requests[q] = "SUPERSEDED")]]
  /\ UNCHANGED <<status, version, rows, ckpt>>

\* retry_execution, the rest: supersede the approval, or execute directly,
\* outside the graph.
RetrySuperseded(t) ==
  LET r == task[t] IN
  /\ r.pc = "retrying"
  /\ RetryChanged(r.evidence, decisions[r.dec])
  /\ requests' = IF r.replaced THEN requests  \* the ORM sees no difference
                 ELSE [requests EXCEPT ![r.answer.version] = "SUPERSEDED"]
  /\ status' = "AWAITING_APPROVAL"
  /\ task' = [task EXCEPT ![t] = IdleTask]
  /\ UNCHANGED <<version, decisions, proposals, orders, validated, ckpt>>

RetryUnchanged(t) ==
  LET r == task[t] IN
  /\ r.pc = "retrying"
  /\ ~RetryChanged(r.evidence, decisions[r.dec])
  /\ status' = "EXECUTING"
  /\ task' = [task EXCEPT ![t] = Route(r, "execute")]
  /\ UNCHANGED <<version, rows, ckpt>>

\* An error anywhere in a task: the write lock not obtained in 30 seconds, a
\* failing read, a broken checkpoint store.
TaskFails(t) == MayFail /\ task[t].pc # "idle" /\ Fail(t)

\* The write of line k fails when the lines before it have been written: the
\* transaction of _execute is rolled back, and they are undone with it.
LineFails(t, k) ==
  LET v == task[t].dec IN
  /\ MayFail
  /\ task[t].pc = "acting"
  /\ StillApproved(v)
  /\ k \in 2..decisions[v].lines
  /\ Fail(t)

TaskProgress(t) ==
  /\ \/ Start(t) \/ Resume(t) \/ SaveCheckpoint(t)
     \/ Prepare(t) \/ TraceTaken(t) \/ Evaluate(t)
     \/ Prevalidate(t) \/ RecheckUnchanged(t) \/ RecheckChanged(t)
     \/ Execute(t) \/ ActionRefused(t) \/ PlaceOrders(t)
     \/ Validate(t) \/ Finalize(t)
     \/ Retry(t) \/ RetrySuperseded(t) \/ RetryUnchanged(t)
     \/ TaskFails(t) \/ \E k \in Lines : LineFails(t, k)
  /\ UNCHANGED <<facts, recorded, handler, responses, overlapped>>

-----------------------------------------------------------------------------
(***************************************************************************)
(* HTTP handlers, the world and the process.                               *)
(***************************************************************************)

\* decide_approval's checks.  Requests they turn down, and replays of a
\* recorded answer, change nothing and schedule nothing.
CanAnswer(v) ==
  /\ status = "AWAITING_APPROVAL"
  /\ requests[v] = "PENDING"
  /\ version = v

ReceiveAnswer(h) ==
  /\ handler[h] = NoAnswer
  /\ responses < MaxResponses
  /\ \E v \in Versions, c \in Choices :
       /\ CanAnswer(v)
       /\ handler' = [handler EXCEPT ![h] = [choice |-> c, version |-> v]]
  /\ responses' = responses + 1
  /\ overlapped' = (overlapped \/ \E g \in Handlers \ {h} : handler[g] # NoAnswer)
  /\ UNCHANGED <<facts, status, version, rows, recorded, ckpt, task>>

\* Variant: the body's word is stored as it came.
AnswerStatusRaw(c) == c

AnswerStatus(c) == IF c = "APPROVE" THEN "APPROVED" ELSE "REJECTED"

\* decide_approval's commit; the response is sent and a free worker thread
\* will run workflow.resume.
RecordAnswer(h) ==
  LET a == handler[h] IN
  /\ a # NoAnswer
  /\ requests' = [requests EXCEPT ![a.version] = AnswerStatus(a.choice)]
  /\ recorded' = recorded \cup {<<a.version, a.choice>>}
  /\ handler' = [handler EXCEPT ![h] = NoAnswer]
  /\ \E t \in Tasks :
       /\ task[t].pc = "idle"
       /\ task' = [task EXCEPT ![t] = [IdleTask EXCEPT !.pc = "resume", !.answer = a]]
  /\ UNCHANGED <<facts, status, version, decisions, proposals, orders, validated, ckpt,
                 responses, overlapped>>

\* execution_retry: the status stays as it is until the task has collected
\* its evidence.
RequestRetry ==
  /\ status = "AWAITING_EXECUTION_RETRY"
  /\ \E t \in Tasks :
       /\ task[t].pc = "idle"
       /\ task' = [task EXCEPT ![t] = [IdleTask EXCEPT !.pc = "retry"]]
  /\ UNCHANGED <<facts, status, version, rows, recorded, ckpt, handler, responses,
                 overlapped>>

\* Inventory, forecasts, terms, budgets change by themselves.
FactsChange ==
  /\ \E f \in Facts \ {facts} : facts' = f
  /\ UNCHANGED <<status, version, rows, recorded, ckpt, task, handler, responses,
                 overlapped>>

\* The process is killed and started again: background tasks and requests in
\* flight are gone, both databases stay, and lifespan recovers nothing.
Crash ==
  /\ MayCrash
  /\ task' = [t \in Tasks |-> IdleTask]
  /\ handler' = [h \in Handlers |-> NoAnswer]
  /\ UNCHANGED <<facts, status, version, rows, recorded, ckpt, responses, overlapped>>

Next ==
  \/ \E t \in Tasks : TaskProgress(t)
  \/ \E h \in Handlers : ReceiveAnswer(h)
  \/ \E h \in Handlers : RecordAnswer(h)
  \/ RequestRetry
  \/ FactsChange
  \/ Crash

Spec == Init /\ [][Next]_vars

\* Threads are scheduled: a task takes its next step, a handler commits.
\* Nothing makes a buyer answer or an operator retry.
Fairness ==
  /\ \A t \in Tasks : WF_vars(TaskProgress(t))
  /\ \A h \in Handlers : WF_vars(RecordAnswer(h))

FairSpec == Spec /\ Fairness

-----------------------------------------------------------------------------
(***************************************************************************)
(* Properties that hold however requests, tasks, failures and crashes      *)
(* interleave.                                                             *)
(***************************************************************************)

\* All purchase orders of a review belong to one proposal version
\* (tool_execute_approved_proposal, PurchaseOrder's constraints), although two
\* runs of the same thread may execute two versions.
OneVersionOrdered == \A o, p \in orders : o[1] = p[1]

\* No order is outside the plan of its version, and a completed review has an
\* order for every line of it: nothing after _execute counts the lines.  Whether
\* a review that is not completed may keep part of a plan is what the code and
\* its documents disagree about; see WrittenLinesAreKept.
WholePlanOrdered ==
  \A o \in orders : /\ decisions[o[1]] # NoDecision
                    /\ o \in PlanLines(o[1])
                    /\ status = "COMPLETED" => PlanLines(o[1]) \subseteq orders

\* Orders are only ever added under an approval that stands at that moment:
\* what a run read before it waited for the provider is not enough
\* (tool_execute_approved_proposal's query).
OrderedUnderStandingApproval ==
  [][\A o \in orders' \ orders : requests[o[1]] = "APPROVED"]_vars

\* A saved decision, with its snapshot and its sourcing plan, never changes,
\* whatever runs of _prepare and _prevalidate overlap.
SavedDecisionsNeverChange ==
  [][\A v \in Versions : decisions[v] # NoDecision => decisions'[v] = decisions[v]]_vars

\* The promise to the buyer: published plans stay as they are, and the orders
\* are lines of one plan, made after the buyer approved it, and never undone.
AO == INSTANCE ApprovedOrdering WITH
        plans     <- [v \in Versions |->
                       IF decisions[v] = NoDecision THEN 0 ELSE decisions[v].lines],
        approvals <- {v \in Versions : <<v, "APPROVE">> \in recorded},
        placed    <- orders

ImplementsApprovedOrdering == AO!Spec

\* A completed review had an order validated, or a decision that needs none.
\* Unless two approval requests overlapped, all of its orders are validated, or
\* its latest decision needs none (_validate, _finalize): two runs of a thread
\* may make _validate look at another decision than the one that was executed.
CompletedIsJustified ==
  status = "COMPLETED" =>
    /\ \/ orders \cap validated # {}
       \/ \E v \in Versions : decisions[v] # NoDecision /\ decisions[v].type = "REJECT"
    /\ \/ overlapped
       \/ orders # {} /\ orders \subseteq validated
       \/ LatestDecision # 0 /\ decisions[LatestDecision].type = "REJECT"

(***************************************************************************)
(* Liveness, for FairSpec.                                                 *)
(***************************************************************************)

\* A review does not stay in a status that says the system is working on it.
WorkEnds == (status \in Working) ~> (status \notin Working)

\* An approval of the current proposal does not lie around: the workflow
\* executes it, replaces it or gives up.
ApprovalWaits(v) == status = "AWAITING_APPROVAL" /\ version = v /\ requests[v] = "APPROVED"
ApprovalIsActedOn == \A v \in Versions : ApprovalWaits(v) ~> ~ApprovalWaits(v)

(***************************************************************************)
(* What the repository's documents say and the code does not do.           *)
(***************************************************************************)

\* A review that awaits approval has not superseded its own current request:
\* retry_execution asks for a new one when the facts have changed.
NewApprovalRequested ==
  status = "AWAITING_APPROVAL" => version # 0 /\ requests[version] # "SUPERSEDED"

\* When one of several plan lines cannot be written, those written before it
\* are kept, and the review asks for attention.
WrittenLinesAreKept ==
  [][\A t \in Tasks, k \in Lines : LineFails(t, k) =>
       /\ {task[t].dec} \X (1..(k - 1)) \subseteq orders'
       /\ status' = "NEEDS_ATTENTION"]_vars
=============================================================================
