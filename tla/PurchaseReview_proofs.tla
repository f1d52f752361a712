------------------------ MODULE PurchaseReview_proofs ------------------------
(***************************************************************************)
(* Proofs about PurchaseReview, for every value of its constants.          *)
(***************************************************************************)
EXTENDS PurchaseReview, NaturalFacts

-----------------------------------------------------------------------------
(***************************************************************************)
(* The operators the actions are built from.                               *)
(***************************************************************************)

\* The latest decision is a version or 0: the ORDER BY version DESC of _execute,
\* _validate and retry_execution finds one row.
LEMMA LatestDecisionType == LatestDecision \in 0..MaxVersion
<1> DEFINE S == {v \in 0..MaxVersion : v = 0 \/ decisions[v] # NoDecision}
<1>1. MaxVersion \in Nat
  BY BoundsAssumption
<1>2. S \in SUBSET (0..MaxVersion) /\ 0 \in S
  BY <1>1
<1>3. PICK v \in S : \A w \in S : w <= v
  BY <1>1, <1>2, LargestExists
<1>4. \A w \in Versions : decisions[w] # NoDecision => w <= v
  BY <1>1, <1>3 DEF Versions
<1> QED
  BY <1>3, <1>4 DEF LatestDecision

\* The latest approval request is a version with a request, or 0.
LEMMA LatestRequestType ==
  /\ LatestRequest \in 0..MaxVersion
  /\ LatestRequest # 0 => requests[LatestRequest] # "NONE"
<1> DEFINE S == {v \in 0..MaxVersion : v = 0 \/ requests[v] # "NONE"}
<1>1. MaxVersion \in Nat
  BY BoundsAssumption
<1>2. S \in SUBSET (0..MaxVersion) /\ 0 \in S
  BY <1>1
<1>3. PICK v \in S : \A w \in S : w <= v
  BY <1>1, <1>2, LargestExists
<1>4. \A w \in Versions : requests[w] # "NONE" => w <= v
  BY <1>1, <1>3 DEF Versions
<1> QED
  BY <1>3, <1>4 DEF LatestRequest

\* A saved decision is well formed, and it has plan lines exactly when it
\* asks to buy.
LEMMA DecideType ==
  ASSUME facts \in Facts, NEW e \in Evidence
  PROVE  /\ Decide(e) \in Decision
         /\ Decide(e).type = "BUY" <=> Decide(e).lines # 0
<1> DEFINE plan == Plan[<<e, facts>>]
<1>1. MaxLines \in Nat /\ ZeroQuote \in Quotes /\ Incomplete \notin Facts
  BY BoundsAssumption, PolicyAssumption
<1>2. /\ Action(e) \in {"BUY", "REJECT", "INVESTIGATE"}
      /\ Quote(e) \in Quotes
      /\ Action(e) = "BUY" => e \in Facts
  BY PolicyAssumption DEF Action, Quote, Evidence
<1>3. CASE Action(e) # "BUY"
  BY <1>1, <1>2, <1>3 DEF Decide, Decision
<1>4. CASE Action(e) = "BUY"
  <2>1. plan \in [lines : 0..MaxLines, quote : Quotes]
    BY <1>2, <1>4, PolicyAssumption
  <2>2. CASE plan.lines = 0
    BY <1>1, <1>4, <2>2 DEF Decide, Decision
  <2>3. CASE plan.lines # 0
    BY <1>1, <1>4, <2>1, <2>3 DEF Decide, Decision
  <2> QED
    BY <2>2, <2>3
<1> QED
  BY <1>3, <1>4

\* Where a task may go after a node has returned.
Successors == {"approval", "prevalidate", "execute", "validate", "finalize", "end"}

LEMMA TaskTypes ==
  /\ NoAnswer \in Answers
  /\ IdleTask \in Task
  /\ Incomplete \in Evidence
<1>1. MaxVersion \in Nat
  BY BoundsAssumption
<1> QED
  BY <1>1 DEF NoAnswer, Answers, IdleTask, Task, PCs, Nodes, Waiting, Statuses, Working,
     Terminal, Evidence

LEMMA TaskNames ==
  /\ Successors \subseteq Nodes
  /\ Successors \ Waiting \subseteq PCs
  /\ {"save", "idle", "recheck", "acting", "evaluate", "retrying", "prepare"} \subseteq PCs
  /\ {"CREATED", "EXECUTING", "VALIDATING", "AWAITING_APPROVAL", "NEEDS_ATTENTION",
      "REJECTED_BY_BUYER", "AWAITING_EXECUTION_RETRY", "COMPLETED", "FAILED",
      "COLLECTING_EVIDENCE"} \subseteq Statuses
BY DEF Successors, Nodes, Waiting, PCs, Statuses, Terminal, Working

LEMMA RouteType ==
  ASSUME NEW r \in Task, NEW node \in Successors
  PROVE  Route(r, node) \in Task
<1>1. "CREATED" \in Statuses /\ Incomplete \in Evidence
  BY TaskNames, TaskTypes
<1>2. CASE r.direct /\ node \in Waiting
  BY <1>2, TaskTypes DEF Route
<1>3. CASE r.direct /\ node \notin Waiting
  <2>1. node \in PCs
    BY <1>3, TaskNames
  <2> QED
    BY <1>1, <1>3, <2>1 DEF Route, Task
<1>4. CASE ~r.direct
  <2>1. "save" \in PCs /\ node \in Nodes
    BY TaskNames
  <2> QED
    BY <1>1, <1>4, <2>1 DEF Route, Task
<1> QED
  BY <1>2, <1>3, <1>4

\* A collection of evidence returns evidence.
LEMMA CollectedType == facts \in Facts => Collected \subseteq Evidence
BY DEF Collected, Evidence

-----------------------------------------------------------------------------
(***************************************************************************)
(* The inductive invariant.  TypeOK alone is not inductive: the version a  *)
(* task or the checkpoint names has to be one that exists.                 *)
(***************************************************************************)

\* A task or a checkpoint at these nodes and steps acts on a decision.
DecidedNodes == {"approval", "prevalidate", "execute", "validate", "finalize"}
DecidedPCs   == {"evaluate", "recheck", "acting", "save", "retrying"}
                  \cup (DecidedNodes \ Waiting)

TaskNamesVersion(r) ==
  /\ r.pc \in DecidedPCs => r.dec \in Versions
  /\ r.pc = "save" => r.next \in Successors

\* A task that may replace a request replaces one that was made.
TaskNamesRequest(r) ==
  r.pc \in {"recheck", "retrying"} =>
    r.answer.version \in Versions /\ requests[r.answer.version] # "NONE"

TasksNameRows ==
  \A t \in Tasks : TaskNamesVersion(task[t]) /\ TaskNamesRequest(task[t])

CheckpointNamesVersion == ckpt.node \in DecidedNodes => ckpt.dec \in Versions

\* A buyer is only asked about a decision with a plan.
RequestsHavePlans ==
  \A v \in Versions :
    requests[v] # "NONE" => decisions[v] # NoDecision /\ decisions[v].lines # 0

\* An approval in flight answers a request that was made.
HandlersAnswerRequests ==
  \A h \in Handlers :
    handler[h] # NoAnswer =>
      /\ handler[h].choice \in Choices /\ handler[h].version \in Versions
      /\ requests[handler[h].version] # "NONE"

\* No request is approved without an audit event.
ApprovalsAreRecorded ==
  \A v \in Versions : requests[v] = "APPROVED" => <<v, "APPROVE">> \in recorded

\* The orders are none, or those of one whole plan.
OnePlanOrdered ==
  orders # {} =>
    \E v \in Versions :
      decisions[v] # NoDecision /\ decisions[v].lines # 0 /\ orders = PlanLines(v)

IInv ==
  /\ TypeOK
  /\ TasksNameRows
  /\ CheckpointNamesVersion
  /\ RequestsHavePlans
  /\ HandlersAnswerRequests
  /\ ApprovalsAreRecorded
  /\ OnePlanOrdered

-----------------------------------------------------------------------------
(***************************************************************************)
(* Type correctness.                                                       *)
(***************************************************************************)

\* An exception leaves every variable typed.
LEMMA FailType ==
  ASSUME TypeOK, NEW t \in Tasks, Fail(t), UNCHANGED <<facts, recorded, handler, responses, overlapped>>
  PROVE  TypeOK'
<1>1. status' \in Statuses
  BY TaskNames DEF Fail, TypeOK
<1>2. task' \in [Tasks -> Task]
  BY TaskTypes DEF Fail, TypeOK
<1> QED
  BY <1>1, <1>2 DEF Fail, TypeOK, rows

\* A step of a background task leaves every variable typed.
LEMMA TaskProgressType ==
  ASSUME IInv, NEW t \in Tasks, TaskProgress(t)
  PROVE  TypeOK'
<1> DEFINE r == task[t]
<1> USE DEF rows
<1>0. TypeOK
  BY DEF IInv
<1>1. /\ r \in Task
      /\ task \in [Tasks -> Task]
      /\ r.dec \in 0..MaxVersion /\ r.answer \in Answers /\ r.evidence \in Evidence
      /\ r.next \in Nodes /\ r.passed \in BOOLEAN /\ r.seen \in Statuses
  BY <1>0 DEF TypeOK, Task
<1>2. UNCHANGED <<facts, recorded, handler, responses, overlapped>>
  BY DEF TaskProgress
<1>3. MaxVersion \in Nat
  BY BoundsAssumption
<1>4. CASE Start(t)
  <2>1. "prepare" \in PCs /\ "prepare" \in Nodes
    BY DEF PCs, Nodes, Waiting
  <2>2. task' \in [Tasks -> Task]
    BY <1>1, <1>4, <2>1 DEF Start, Task
  <2>3. ckpt' \in [node : Nodes, dec : 0..MaxVersion, answer : Answers, passed : BOOLEAN]
    BY <1>0, <1>4, <2>1 DEF Start, TypeOK
  <2> QED
    BY <1>0, <1>2, <1>4, <2>2, <2>3 DEF Start, TypeOK
<1>5. CASE Resume(t)
  <2> DEFINE loaded == [r EXCEPT !.dec = ckpt.dec, !.passed = ckpt.passed]
  <2>1. ckpt \in [node : Nodes, dec : 0..MaxVersion, answer : Answers, passed : BOOLEAN]
    BY <1>0 DEF TypeOK
  <2>2. loaded \in Task
    BY <1>1, <2>1 DEF Task
  <2>3. Route(loaded, "prevalidate") \in Task
    BY <2>2, RouteType DEF Successors
  <2>4. ckpt.node \notin {"approval", "none", "end"} => ckpt.node \in PCs
    BY <2>1 DEF PCs, Nodes, Waiting
  <2>5. ckpt.node \notin {"approval", "none", "end"}
          => [loaded EXCEPT !.pc = ckpt.node, !.answer = ckpt.answer] \in Task
    BY <2>1, <2>2, <2>4 DEF Task
  <2>6. \E new \in Task : task' = [task EXCEPT ![t] = new]
    BY <1>5, <2>3, <2>5, TaskTypes DEF Resume
  <2>7. task' \in [Tasks -> Task]
    BY <1>1, <2>6
  <2> QED
    BY <1>0, <1>2, <1>5, <2>7 DEF Resume, TypeOK
<1>6. CASE SaveCheckpoint(t)
  <2>1. ckpt' \in [node : Nodes, dec : 0..MaxVersion, answer : Answers, passed : BOOLEAN]
    BY <1>1, <1>6 DEF SaveCheckpoint
  <2>2. r.next \in Successors
    BY <1>6 DEF SaveCheckpoint, IInv, TasksNameRows, TaskNamesVersion
  <2>3. r.next \notin Waiting => r.next \in PCs
    BY <2>2, TaskNames
  <2>4. r.next \notin Waiting => [r EXCEPT !.pc = r.next, !.next = "none"] \in Task
    BY <1>1, <2>3 DEF Task, Nodes
  <2>5. task' \in [Tasks -> Task]
    BY <1>1, <1>6, <2>4, TaskTypes DEF SaveCheckpoint
  <2> QED
    BY <1>0, <1>2, <1>6, <2>1, <2>5 DEF SaveCheckpoint, TypeOK
<1>7. CASE Prepare(t)
  <2>1. CASE \E e \in Collected :
               task' = [task EXCEPT ![t].pc = "evaluate", ![t].evidence = e,
                                    ![t].dec = version + 1]
    <3>1. PICK e \in Collected :
            task' = [task EXCEPT ![t].pc = "evaluate", ![t].evidence = e, ![t].dec = version + 1]
      BY <2>1
    <3>2. version < MaxVersion
      BY <1>7 DEF Prepare
    <3>3. e \in Evidence /\ version + 1 \in 0..MaxVersion /\ "evaluate" \in PCs
      BY <1>0, <1>3, <3>2, CollectedType, TaskNames DEF TypeOK
    <3>4. task' \in [Tasks -> Task]
      BY <1>1, <3>1, <3>3 DEF Task
    <3> QED
      BY <1>0, <1>2, <1>7, <3>4, TaskNames DEF Prepare, TypeOK
  <2>2. CASE task' = [task EXCEPT ![t].pc = "untraced"]
    <3>1. [r EXCEPT !.pc = "untraced"] \in Task
      BY <1>1 DEF Task, PCs
    <3>2. task' \in [Tasks -> Task]
      BY <1>1, <2>2, <3>1
    <3> QED
      BY <1>0, <1>2, <1>7, <3>2, TaskNames DEF Prepare, TypeOK
  <2> QED
    BY <1>7, <2>1, <2>2 DEF Prepare
<1>8. CASE Evaluate(t)
  <2> DEFINE v == r.dec
             d == Decide(r.evidence)
  <2>1. CASE VersionTaken(v)
    <3>1. Fail(t)
      BY <1>8, <2>1 DEF Evaluate
    <3> QED
      BY <1>0, <1>2, <3>1, FailType
  <2>2. CASE ~VersionTaken(v)
    <3>1. d \in Decision /\ d.type \in {"BUY", "REJECT", "INVESTIGATE"}
      BY <1>0, <1>1, DecideType DEF TypeOK, Decision
    <3>2. v \in Versions
      BY <1>8 DEF Evaluate, IInv, TasksNameRows, TaskNamesVersion, DecidedPCs
    <3>3. OutcomeStatus(d) \in Statuses
      BY <3>1, TaskNames DEF OutcomeStatus
    <3>4. Route(r, NextNode(d)) \in Task
      BY <1>1, RouteType DEF NextNode, Successors
    <3>5. task' \in [Tasks -> Task]
      BY <1>1, <1>8, <2>2, <3>4 DEF Evaluate
    <3>6. decisions' \in [Versions -> Decision \cup {NoDecision}]
      BY <1>0, <1>8, <2>2, <3>1 DEF Evaluate, TypeOK
    <3>7. version' \in 0..MaxVersion
      BY <1>0, <1>1, <1>8, <2>2 DEF Evaluate, TypeOK
    <3>8. /\ proposals' \in [Versions -> {"NONE", "PENDING", "EXECUTED", "SUPERSEDED"}]
          /\ requests' \in [Versions -> {"NONE", "PENDING", "APPROVED", "REJECTED", "SUPERSEDED"}]
      BY <1>0, <1>8, <2>2 DEF Evaluate, TypeOK
    <3>9. status' = OutcomeStatus(d) /\ UNCHANGED <<orders, validated, ckpt>>
      BY <1>8, <2>2 DEF Evaluate
    <3> QED
      BY <1>0, <1>2, <3>3, <3>5, <3>6, <3>7, <3>8, <3>9 DEF TypeOK
  <2> QED
    BY <2>1, <2>2
<1>9. CASE Prevalidate(t)
  <2>1. Route(r, "end") \in Task
    BY <1>1, RouteType DEF Successors
  <2>2. "recheck" \in PCs /\ Collected \subseteq Evidence
    BY <1>0, CollectedType, TaskNames DEF TypeOK
  <2>3. \A e \in Collected :
          [r EXCEPT !.pc = "recheck", !.seen = status, !.evidence = e] \in Task
    BY <1>0, <1>1, <2>2 DEF Task, TypeOK
  <2>4. \E new \in Task : task' = [task EXCEPT ![t] = new]
    BY <1>1, <1>9, <2>1, <2>3 DEF Prevalidate
  <2>5. task' \in [Tasks -> Task]
    BY <1>1, <2>4
  <2>6. status' \in Statuses
    BY <1>0, <1>9, TaskNames DEF Prevalidate, TypeOK
  <2> QED
    BY <1>0, <1>2, <1>9, <2>5, <2>6 DEF Prevalidate, TypeOK
<1>10. CASE RecheckUnchanged(t)
  <2>1. Route(r, "execute") \in Task
    BY <1>1, RouteType DEF Successors
  <2>2. task' \in [Tasks -> Task]
    BY <1>1, <1>10, <2>1 DEF RecheckUnchanged
  <2>3. status' \in Statuses
    BY <1>0, <1>10, TaskNames DEF RecheckUnchanged, Assign, TypeOK
  <2> QED
    BY <1>0, <1>2, <1>10, <2>2, <2>3 DEF RecheckUnchanged, TypeOK
<1>11. CASE RecheckChanged(t)
  <2> DEFINE v == r.dec + 1
             d == Decide(r.evidence)
  <2>1. CASE VersionTaken(v)
    <3>1. Fail(t)
      BY <1>11, <2>1 DEF RecheckChanged
    <3> QED
      BY <1>0, <1>2, <3>1, FailType
  <2>2. CASE ~VersionTaken(v)
    <3>1. d \in Decision /\ d.type \in {"BUY", "REJECT", "INVESTIGATE"}
      BY <1>0, <1>1, DecideType DEF TypeOK, Decision
    <3>2. v \in Versions /\ v \in 0..MaxVersion
      BY <1>3, <1>11 DEF RecheckChanged, Versions
    <3>3. OutcomeStatus(d) \in Statuses
      BY <3>1, TaskNames DEF OutcomeStatus
    <3>4. [r EXCEPT !.dec = v] \in Task
      BY <1>1, <3>2 DEF Task
    <3>5. Route([r EXCEPT !.dec = v], NextNode(d)) \in Task
      BY <3>4, RouteType DEF NextNode, Successors
    <3>6. task' \in [Tasks -> Task]
      BY <1>1, <1>11, <2>2, <3>5 DEF RecheckChanged
    <3>7. decisions' \in [Versions -> Decision \cup {NoDecision}] /\ version' \in 0..MaxVersion
      BY <1>0, <1>11, <2>2, <3>1, <3>2 DEF RecheckChanged, TypeOK
    <3>8. /\ proposals' \in [Versions -> {"NONE", "PENDING", "EXECUTED", "SUPERSEDED"}]
          /\ requests' \in [Versions -> {"NONE", "PENDING", "APPROVED", "REJECTED", "SUPERSEDED"}]
      BY <1>0, <1>11, <2>2 DEF RecheckChanged, TypeOK
    <3>9. status' = OutcomeStatus(d) /\ UNCHANGED <<orders, validated, ckpt>>
      BY <1>11, <2>2 DEF RecheckChanged
    <3> QED
      BY <1>0, <1>2, <3>3, <3>6, <3>7, <3>8, <3>9 DEF TypeOK
  <2> QED
    BY <2>1, <2>2
<1>12. CASE Execute(t)
  <2>1. Route(r, "end") \in Task
    BY <1>1, RouteType DEF Successors
  <2>2. [r EXCEPT !.pc = "acting", !.seen = status] \in Task
    BY <1>0, <1>1, TaskNames DEF Task, TypeOK
  <2>3. \E new \in Task : task' = [task EXCEPT ![t] = new]
    BY <1>1, <1>12, <2>1, <2>2 DEF Execute
  <2>4. task' \in [Tasks -> Task]
    BY <1>1, <2>3
  <2>5. status' \in Statuses
    BY <1>0, <1>12, TaskNames DEF Execute, TypeOK
  <2> QED
    BY <1>0, <1>2, <1>12, <2>4, <2>5 DEF Execute, TypeOK
<1>13. CASE ActionRefused(t)
  <2>1. Route(r, "end") \in Task
    BY <1>1, RouteType DEF Successors
  <2>2. task' \in [Tasks -> Task]
    BY <1>1, <1>13, <2>1 DEF ActionRefused
  <2>3. status' \in Statuses
    BY <1>0, <1>13, TaskNames DEF ActionRefused, Assign, TypeOK
  <2> QED
    BY <1>0, <1>2, <1>13, <2>2, <2>3 DEF ActionRefused, TypeOK
<1>14. CASE PlaceOrders(t)
  <2>1. CASE ~StillApproved(r.dec) \/ ExternalIdTaken(r.dec)
    <3>1. Fail(t)
      BY <1>14, <2>1 DEF PlaceOrders
    <3> QED
      BY <1>0, <1>2, <3>1, FailType
  <2>2. CASE ~(~StillApproved(r.dec) \/ ExternalIdTaken(r.dec))
    <3>1. r.dec \in Versions
      BY <1>14 DEF PlaceOrders, IInv, TasksNameRows, TaskNamesVersion, DecidedPCs
    <3>2. decisions[r.dec] \in Decision
      BY <1>0, <2>2, <3>1 DEF StillApproved, IInv, RequestsHavePlans, TypeOK
    <3>3. decisions[r.dec].lines \in 0..MaxLines
      BY <3>2 DEF Decision
    <3>4. NewLines(r.dec) \subseteq Versions \X Lines
      BY <3>1, <3>3, BoundsAssumption DEF NewLines, PlanLines, Lines
    <3>5. Route(r, "validate") \in Task
      BY <1>1, RouteType DEF Successors
    <3>6. task' \in [Tasks -> Task]
      BY <1>1, <1>14, <2>2, <3>5 DEF PlaceOrders
    <3>7. orders' \in SUBSET (Versions \X Lines)
      BY <1>0, <1>14, <2>2, <3>4 DEF PlaceOrders, TypeOK
    <3>8. proposals' \in [Versions -> {"NONE", "PENDING", "EXECUTED", "SUPERSEDED"}]
      BY <1>0, <1>14, <2>2 DEF PlaceOrders, TypeOK
    <3>9. status' \in Statuses
      BY <1>0, <1>14, <2>2, TaskNames DEF PlaceOrders, Assign, TypeOK
    <3> QED
      BY <1>0, <1>2, <1>14, <2>2, <3>6, <3>7, <3>8, <3>9 DEF PlaceOrders, TypeOK
  <2> QED
    BY <2>1, <2>2
<1>15. CASE Validate(t)
  <2>0. PICK checked \in CheckedSets(r.dec) :
          \E matching \in MatchingSets(checked) :
            /\ validated' = validated \cup matching
            /\ task' = [task EXCEPT
                 ![t] = Route([r EXCEPT !.passed = (matching = checked)], "finalize")]
    BY <1>15 DEF Validate
  <2>1. PICK matching \in MatchingSets(checked) :
          /\ validated' = validated \cup matching
          /\ task' = [task EXCEPT
               ![t] = Route([r EXCEPT !.passed = (matching = checked)], "finalize")]
    BY <2>0
  <2>2. checked \subseteq orders /\ matching \subseteq checked
    BY DEF CheckedSets, MatchingSets
  <2>3. validated' \in SUBSET (Versions \X Lines)
    BY <1>0, <2>1, <2>2 DEF TypeOK
  <2>4. [r EXCEPT !.passed = (matching = checked)] \in Task
    BY <1>1 DEF Task
  <2>5. Route([r EXCEPT !.passed = (matching = checked)], "finalize") \in Task
    BY <2>4, RouteType DEF Successors
  <2>6. task' \in [Tasks -> Task]
    BY <1>1, <2>1, <2>5
  <2> QED
    BY <1>0, <1>2, <1>15, <2>3, <2>6 DEF Validate, TypeOK
<1>16. CASE Finalize(t)
  <2>1. Route(r, "end") \in Task
    BY <1>1, RouteType DEF Successors
  <2>2. task' \in [Tasks -> Task]
    BY <1>1, <1>16, <2>1 DEF Finalize
  <2>3. status' \in Statuses
    BY <1>0, <1>16, TaskNames DEF Finalize, TypeOK
  <2> QED
    BY <1>0, <1>2, <1>16, <2>2, <2>3 DEF Finalize, TypeOK
<1>17. CASE Retry(t)
  <2> DEFINE d == LatestDecision
             q == LatestRequest
  <2>1. /\ Collected \subseteq Evidence
        /\ "retrying" \in PCs
        /\ [choice |-> "APPROVE", version |-> q] \in Answers
    BY <1>0, CollectedType, TaskNames, LatestRequestType DEF Answers, Choices, TypeOK
  <2>2. \A e \in Collected :
          [r EXCEPT !.pc = "retrying", !.direct = TRUE, !.dec = d, !.evidence = e,
                    !.answer = [choice |-> "APPROVE", version |-> q],
                    !.replaced = (requests[q] = "SUPERSEDED")] \in Task
    BY <1>1, <2>1, LatestDecisionType DEF Task
  <2>3. \E new \in Task : task' = [task EXCEPT ![t] = new]
    BY <1>1, <1>17, <2>2, TaskTypes DEF Retry
  <2>4. task' \in [Tasks -> Task]
    BY <1>1, <2>3
  <2> QED
    BY <1>0, <1>2, <1>17, <2>4 DEF Retry, TypeOK
<1>18. CASE RetrySuperseded(t)
  <2>1. task' \in [Tasks -> Task]
    BY <1>1, <1>18, TaskTypes DEF RetrySuperseded
  <2>2. requests' \in [Versions -> {"NONE", "PENDING", "APPROVED", "REJECTED", "SUPERSEDED"}]
    BY <1>0, <1>18 DEF RetrySuperseded, TypeOK
  <2> QED
    BY <1>0, <1>2, <1>18, <2>1, <2>2, TaskNames DEF RetrySuperseded, TypeOK
<1>19. CASE RetryUnchanged(t)
  <2>1. Route(r, "execute") \in Task
    BY <1>1, RouteType DEF Successors
  <2>2. task' \in [Tasks -> Task]
    BY <1>1, <1>19, <2>1 DEF RetryUnchanged
  <2> QED
    BY <1>0, <1>2, <1>19, <2>2, TaskNames DEF RetryUnchanged, TypeOK
<1>20. CASE TaskFails(t) \/ TraceTaken(t) \/ \E k \in Lines : LineFails(t, k)
  BY <1>0, <1>2, <1>20, FailType DEF TaskFails, LineFails, TraceTaken
<1> QED
  BY <1>4, <1>5, <1>6, <1>7, <1>8, <1>9, <1>10, <1>11, <1>12, <1>13, <1>14, <1>15, <1>16,
     <1>17, <1>18, <1>19, <1>20 DEF TaskProgress

-----------------------------------------------------------------------------
(***************************************************************************)
(* The other conjuncts of the invariant.                                   *)
(***************************************************************************)

\* What is written is not unwritten: decisions are inserted only where there
\* is none, and no step takes a request back to "not made".
LEMMA RowsStay ==
  ASSUME TypeOK, [Next]_vars
  PROVE  \A v \in Versions :
           /\ decisions[v] # NoDecision => decisions'[v] = decisions[v]
           /\ requests[v] # "NONE" => requests'[v] # "NONE"
<1> USE DEF rows
<1>1. CASE UNCHANGED vars
  BY <1>1 DEF vars
<1>2. ASSUME NEW t \in Tasks, TaskProgress(t)
      PROVE  \A v \in Versions :
               /\ decisions[v] # NoDecision => decisions'[v] = decisions[v]
               /\ requests[v] # "NONE" => requests'[v] # "NONE"
  <2>1. CASE Evaluate(t)
    BY <2>1 DEF Evaluate, VersionTaken, Fail, TypeOK
  <2>2. CASE RecheckChanged(t)
    BY <2>2 DEF RecheckChanged, VersionTaken, Fail, TypeOK
  <2>3. CASE RetrySuperseded(t)
    BY <2>3 DEF RetrySuperseded, TypeOK
  <2>4. CASE PlaceOrders(t)
    BY <2>4 DEF PlaceOrders, Fail
  <2>5. CASE Validate(t)
    BY <2>5 DEF Validate
  <2>6. CASE TaskFails(t) \/ TraceTaken(t) \/ \E k \in Lines : LineFails(t, k)
    BY <2>6 DEF TaskFails, LineFails, TraceTaken, Fail
  <2>7. CASE \/ Start(t) \/ Resume(t) \/ SaveCheckpoint(t) \/ Prepare(t) \/ Prevalidate(t)
             \/ RecheckUnchanged(t) \/ Execute(t) \/ ActionRefused(t) \/ Finalize(t)
             \/ Retry(t) \/ RetryUnchanged(t)
    <3>1. UNCHANGED rows
      BY <2>7 DEF Start, Resume, SaveCheckpoint, Prepare, Prevalidate, RecheckUnchanged,
         Execute, ActionRefused, Finalize, Retry, RetryUnchanged
    <3> QED
      BY <3>1
  <2> QED
    BY <1>2, <2>1, <2>2, <2>3, <2>4, <2>5, <2>6, <2>7 DEF TaskProgress
<1>3. ASSUME NEW h \in Handlers, RecordAnswer(h)
      PROVE  \A v \in Versions :
               /\ decisions[v] # NoDecision => decisions'[v] = decisions[v]
               /\ requests[v] # "NONE" => requests'[v] # "NONE"
  BY <1>3 DEF RecordAnswer, AnswerStatus, TypeOK
<1>4. ASSUME \/ \E h \in Handlers : ReceiveAnswer(h)
             \/ RequestRetry \/ FactsChange \/ Crash
      PROVE  UNCHANGED rows
  BY <1>4 DEF ReceiveAnswer, RequestRetry, FactsChange, Crash
<1> QED
  BY <1>1, <1>2, <1>3, <1>4 DEF Next

\* Where a node routes its task to, the task still names its decision.
LEMMA RouteNames ==
  ASSUME NEW r \in Task, NEW node \in Successors, r.dec \in Versions
  PROVE  /\ TaskNamesVersion(Route(r, node))
         /\ Route(r, node).pc \notin {"recheck", "retrying"}
<1>1. CASE r.direct /\ node \in Waiting
  BY <1>1 DEF Route, TaskNamesVersion, IdleTask, DecidedPCs, DecidedNodes, Waiting
<1>2. CASE r.direct /\ node \notin Waiting
  BY <1>2 DEF Route, TaskNamesVersion, Task, Successors, Waiting
<1>3. CASE ~r.direct
  BY <1>3 DEF Route, TaskNamesVersion, Task, Successors, Waiting
<1> QED
  BY <1>1, <1>2, <1>3

\* A step of a task leaves it at a record that names existing rows.
LEMMA TaskStepNames ==
  ASSUME IInv, NEW t \in Tasks, TaskProgress(t)
  PROVE  \E new \in Task :
           /\ task' = [task EXCEPT ![t] = new]
           /\ TaskNamesVersion(new)
           /\ TaskNamesRequest(new)
<1> DEFINE r == task[t]
<1>1. /\ TypeOK
      /\ r \in Task /\ task \in [Tasks -> Task]
      /\ TaskNamesVersion(r) /\ TaskNamesRequest(r)
  BY DEF IInv, TypeOK, TasksNameRows
<1>2. TypeOK' /\ task' \in [Tasks -> Task]
  BY TaskProgressType DEF TypeOK
<1>3. SUFFICES \E new : /\ task' = [task EXCEPT ![t] = new]
                        /\ TaskNamesVersion(new)
                        /\ TaskNamesRequest(new)
  BY <1>1, <1>2
<1>4. TaskNamesVersion(IdleTask) /\ TaskNamesRequest(IdleTask)
  BY DEF TaskNamesVersion, TaskNamesRequest, IdleTask, DecidedPCs, DecidedNodes, Waiting
<1>5. ASSUME Fail(t)
      PROVE  task' = [task EXCEPT ![t] = IdleTask]
  BY <1>5 DEF Fail
<1>6. ASSUME NEW node \in Successors, NEW x \in Task, x.dec \in Versions
      PROVE  TaskNamesVersion(Route(x, node)) /\ TaskNamesRequest(Route(x, node))
  BY <1>6, RouteNames DEF TaskNamesRequest
<1>7. Successors = {"approval", "prevalidate", "execute", "validate", "finalize", "end"}
  BY DEF Successors
<1>8. \A pc \in {"evaluate", "recheck", "acting", "save", "retrying",
                 "prevalidate", "execute", "validate", "finalize"} :
        r.pc = pc => r.dec \in Versions
  BY <1>1 DEF TaskNamesVersion, DecidedPCs, DecidedNodes, Waiting
<1>9. CASE Start(t)
  <2>1. task' = [task EXCEPT ![t] = [r EXCEPT !.pc = "prepare"]]
    BY <1>1, <1>9 DEF Start
  <2>2. [r EXCEPT !.pc = "prepare"].pc = "prepare"
    BY <1>1 DEF Task
  <2> QED
    BY <2>1, <2>2 DEF TaskNamesVersion, TaskNamesRequest, DecidedPCs, DecidedNodes, Waiting
<1>10. CASE Resume(t)
  <2> DEFINE loaded == [r EXCEPT !.dec = ckpt.dec, !.passed = ckpt.passed]
             again  == [loaded EXCEPT !.pc = ckpt.node, !.answer = ckpt.answer]
  <2>1. /\ ckpt \in [node : Nodes, dec : 0..MaxVersion, answer : Answers, passed : BOOLEAN]
        /\ CheckpointNamesVersion
    BY <1>1 DEF IInv, TypeOK
  <2>2. loaded \in Task /\ loaded.dec = ckpt.dec
    BY <1>1, <2>1 DEF Task
  <2>3. CASE ckpt.node = "approval"
    <3>1. loaded.dec \in Versions
      BY <2>1, <2>2, <2>3 DEF CheckpointNamesVersion, DecidedNodes
    <3>2. task' = [task EXCEPT ![t] = Route(loaded, "prevalidate")]
      BY <1>10, <2>3 DEF Resume
    <3> QED
      BY <1>6, <1>7, <2>2, <3>1, <3>2
  <2>4. CASE ckpt.node \in {"none", "end"}
    BY <1>4, <1>10, <2>4 DEF Resume
  <2>5. CASE ckpt.node \notin {"approval", "none", "end"}
    <3>1. task' = [task EXCEPT ![t] = again]
      BY <1>10, <2>5 DEF Resume
    <3>2. again.pc = ckpt.node /\ again.dec = ckpt.dec
      BY <1>1 DEF Task
    <3>3. ckpt.node \in {"prepare", "prevalidate", "execute", "validate", "finalize"}
      BY <2>1, <2>5 DEF Nodes
    <3>4. TaskNamesVersion(again)
      BY <2>1, <3>2, <3>3
         DEF TaskNamesVersion, CheckpointNamesVersion, DecidedPCs, DecidedNodes, Waiting
    <3>5. TaskNamesRequest(again)
      BY <3>2, <3>3 DEF TaskNamesRequest
    <3> HIDE DEF again
    <3> QED
      BY <3>1, <3>4, <3>5
  <2> QED
    BY <2>3, <2>4, <2>5
<1>11. CASE SaveCheckpoint(t)
  <2>1. r.dec \in Versions /\ r.next \in Successors
    BY <1>1, <1>8, <1>11 DEF SaveCheckpoint, TaskNamesVersion
  <2>2. CASE r.next \in Waiting
    BY <1>4, <1>11, <2>2 DEF SaveCheckpoint
  <2>3. CASE r.next \notin Waiting
    <3> DEFINE new == [r EXCEPT !.pc = r.next, !.next = "none"]
    <3>1. task' = [task EXCEPT ![t] = new]
      BY <1>11, <2>3 DEF SaveCheckpoint
    <3>2. new.pc = r.next /\ new.dec = r.dec
      BY <1>1 DEF Task
    <3>3. TaskNamesVersion(new) /\ TaskNamesRequest(new)
      BY <1>7, <2>1, <2>3, <3>2 DEF TaskNamesVersion, TaskNamesRequest, Waiting
    <3> HIDE DEF new
    <3> QED
      BY <3>1, <3>3
  <2> QED
    BY <2>2, <2>3
<1>12. CASE Prepare(t)
  <2>1. version + 1 \in Versions
    <3>1. version < MaxVersion
      BY <1>12 DEF Prepare
    <3> QED
      BY <1>1, <3>1, BoundsAssumption DEF Versions, TypeOK
  <2>2. ASSUME NEW e \in Collected,
               task' = [task EXCEPT ![t].pc = "evaluate", ![t].evidence = e,
                                    ![t].dec = version + 1]
        PROVE  \E x : /\ task' = [task EXCEPT ![t] = x]
                      /\ TaskNamesVersion(x)
                      /\ TaskNamesRequest(x)
    <3> DEFINE new == [r EXCEPT !.pc = "evaluate", !.evidence = e, !.dec = version + 1]
    <3>1. task' = [task EXCEPT ![t] = new]
      BY <1>1, <2>2 DEF Task
    <3>2. new.pc = "evaluate" /\ new.dec = version + 1
      BY <1>1 DEF Task
    <3>3. TaskNamesVersion(new) /\ TaskNamesRequest(new)
      BY <2>1, <3>2 DEF TaskNamesVersion, TaskNamesRequest
    <3> HIDE DEF new
    <3> QED
      BY <3>1, <3>3
  <2>3. ASSUME task' = [task EXCEPT ![t].pc = "untraced"]
        PROVE  \E x : /\ task' = [task EXCEPT ![t] = x]
                      /\ TaskNamesVersion(x)
                      /\ TaskNamesRequest(x)
    <3> DEFINE new == [r EXCEPT !.pc = "untraced"]
    <3>1. task' = [task EXCEPT ![t] = new]
      BY <1>1, <2>3 DEF Task
    <3>2. new.pc = "untraced"
      BY <1>1 DEF Task
    <3>3. TaskNamesVersion(new) /\ TaskNamesRequest(new)
      BY <3>2 DEF TaskNamesVersion, TaskNamesRequest, DecidedPCs, DecidedNodes, Waiting
    <3> HIDE DEF new
    <3> QED
      BY <3>1, <3>3
  <2>4. \/ \E e \in Collected :
              task' = [task EXCEPT ![t].pc = "evaluate", ![t].evidence = e,
                                   ![t].dec = version + 1]
        \/ task' = [task EXCEPT ![t].pc = "untraced"]
    BY <1>12 DEF Prepare
  <2> QED
    BY <2>2, <2>3, <2>4
<1>13. CASE Evaluate(t)
  <2>1. r.dec \in Versions
    BY <1>8, <1>13 DEF Evaluate
  <2>2. NextNode(Decide(r.evidence)) \in Successors
    BY <1>7 DEF NextNode
  <2>3. \/ task' = [task EXCEPT ![t] = IdleTask]
        \/ task' = [task EXCEPT ![t] = Route(r, NextNode(Decide(r.evidence)))]
    BY <1>5, <1>13 DEF Evaluate
  <2> QED
    BY <1>1, <1>4, <1>6, <2>1, <2>2, <2>3
<1>14. CASE Prevalidate(t)
  <2>1. r.dec \in Versions
    BY <1>8, <1>14 DEF Prevalidate
  <2>2. CASE task' = [task EXCEPT ![t] = Route(r, "end")]
    BY <1>1, <1>6, <1>7, <2>1, <2>2
  <2>3. CASE task' # [task EXCEPT ![t] = Route(r, "end")]
    <3>1. /\ r.answer.version \in Versions /\ requests[r.answer.version] = "APPROVED"
          /\ \E e \in Collected :
               task' = [task EXCEPT ![t].pc = "recheck", ![t].seen = status, ![t].evidence = e]
      BY <1>14, <2>3 DEF Prevalidate
    <3>2. PICK e : task' = [task EXCEPT ![t].pc = "recheck", ![t].seen = status,
                                        ![t].evidence = e]
      BY <3>1
    <3> DEFINE new == [r EXCEPT !.pc = "recheck", !.seen = status, !.evidence = e]
    <3>3. /\ task' = [task EXCEPT ![t] = new]
          /\ new.pc = "recheck" /\ new.dec = r.dec /\ new.answer = r.answer
      BY <1>1, <3>2 DEF Task
    <3>4. TaskNamesVersion(new) /\ TaskNamesRequest(new)
      BY <2>1, <3>1, <3>3 DEF TaskNamesVersion, TaskNamesRequest
    <3> HIDE DEF new
    <3> QED
      BY <3>3, <3>4
  <2> QED
    BY <2>2, <2>3
<1>15. CASE RecheckUnchanged(t)
  BY <1>1, <1>6, <1>7, <1>8, <1>15 DEF RecheckUnchanged
<1>16. CASE RecheckChanged(t)
  <2> DEFINE x == [r EXCEPT !.dec = r.dec + 1]
  <2>1. r.dec + 1 \in Versions
    BY <1>16 DEF RecheckChanged
  <2>2. x \in Task /\ x.dec \in Versions
    BY <1>1, <2>1, BoundsAssumption DEF Task, Versions
  <2>3. NextNode(Decide(r.evidence)) \in Successors
    BY <1>7 DEF NextNode
  <2>4. \/ task' = [task EXCEPT ![t] = IdleTask]
        \/ task' = [task EXCEPT ![t] = Route(x, NextNode(Decide(r.evidence)))]
    BY <1>5, <1>16 DEF RecheckChanged
  <2> HIDE DEF x
  <2> QED
    BY <1>4, <1>6, <2>2, <2>3, <2>4
<1>17. CASE Execute(t)
  <2>1. r.dec \in Versions
    BY <1>8, <1>17 DEF Execute
  <2>2. CASE task' = [task EXCEPT ![t] = Route(r, "end")]
    BY <1>1, <1>6, <1>7, <2>1, <2>2
  <2>3. CASE task' # [task EXCEPT ![t] = Route(r, "end")]
    <3> DEFINE new == [r EXCEPT !.pc = "acting", !.seen = status]
    <3>1. task' = [task EXCEPT ![t] = new] /\ new.pc = "acting" /\ new.dec = r.dec
      BY <1>1, <1>17, <2>3 DEF Execute, Task
    <3>2. TaskNamesVersion(new) /\ TaskNamesRequest(new)
      BY <2>1, <3>1 DEF TaskNamesVersion, TaskNamesRequest
    <3> HIDE DEF new
    <3> QED
      BY <3>1, <3>2
  <2> QED
    BY <2>2, <2>3
<1>18. CASE ActionRefused(t)
  BY <1>1, <1>6, <1>7, <1>8, <1>18 DEF ActionRefused
<1>19. CASE PlaceOrders(t)
  <2>1. \/ task' = [task EXCEPT ![t] = IdleTask]
        \/ task' = [task EXCEPT ![t] = Route(r, "validate")]
    BY <1>5, <1>19 DEF PlaceOrders
  <2>2. r.dec \in Versions
    BY <1>8, <1>19 DEF PlaceOrders
  <2> QED
    BY <1>1, <1>4, <1>6, <1>7, <2>1, <2>2
<1>20. CASE Validate(t)
  <2>1. PICK p \in BOOLEAN : task' = [task EXCEPT ![t] = Route([r EXCEPT !.passed = p], "finalize")]
    BY <1>20 DEF Validate
  <2>2. [r EXCEPT !.passed = p] \in Task /\ [r EXCEPT !.passed = p].dec = r.dec
    BY <1>1 DEF Task
  <2>3. r.dec \in Versions
    BY <1>8, <1>20 DEF Validate
  <2> QED
    BY <1>6, <1>7, <2>1, <2>2, <2>3
<1>21. CASE Finalize(t)
  BY <1>1, <1>6, <1>7, <1>8, <1>21 DEF Finalize
<1>22. CASE Retry(t)
  <2>1. CASE task' = [task EXCEPT ![t] = IdleTask]
    BY <1>4, <2>1
  <2>2. CASE task' # [task EXCEPT ![t] = IdleTask]
    <3>1. PICK e : /\ LatestDecision # 0 /\ LatestRequest # 0
                   /\ task' = [task EXCEPT
                        ![t] = [@ EXCEPT !.pc = "retrying", !.direct = TRUE,
                                         !.dec = LatestDecision, !.evidence = e,
                                         !.answer = [choice |-> "APPROVE",
                                                     version |-> LatestRequest],
                                         !.replaced = (requests[LatestRequest] = "SUPERSEDED")]]
      BY <1>22, <2>2 DEF Retry
    <3> DEFINE new == [r EXCEPT !.pc = "retrying", !.direct = TRUE, !.dec = LatestDecision,
                                !.evidence = e,
                                !.answer = [choice |-> "APPROVE", version |-> LatestRequest],
                                !.replaced = (requests[LatestRequest] = "SUPERSEDED")]
    <3>2. /\ task' = [task EXCEPT ![t] = new]
          /\ new.pc = "retrying" /\ new.dec = LatestDecision
          /\ new.answer.version = LatestRequest
      BY <1>1, <3>1 DEF Task
    <3>3. LatestDecision \in Versions /\ LatestRequest \in Versions
      BY <3>1, LatestDecisionType, LatestRequestType, BoundsAssumption DEF Versions
    <3>4. requests[LatestRequest] # "NONE"
      BY <3>1, LatestRequestType
    <3>5. TaskNamesVersion(new) /\ TaskNamesRequest(new)
      BY <3>2, <3>3, <3>4 DEF TaskNamesVersion, TaskNamesRequest
    <3> HIDE DEF new
    <3> QED
      BY <3>2, <3>5
  <2> QED
    BY <2>1, <2>2
<1>23. CASE RetrySuperseded(t)
  BY <1>4, <1>23 DEF RetrySuperseded
<1>24. CASE RetryUnchanged(t)
  BY <1>1, <1>6, <1>7, <1>8, <1>24 DEF RetryUnchanged
<1>25. CASE TaskFails(t) \/ TraceTaken(t) \/ \E k \in Lines : LineFails(t, k)
  BY <1>4, <1>5, <1>25 DEF TaskFails, LineFails, TraceTaken
<1> QED
  BY <1>9, <1>10, <1>11, <1>12, <1>13, <1>14, <1>15, <1>16, <1>17, <1>18, <1>19, <1>20,
     <1>21, <1>22, <1>23, <1>24, <1>25 DEF TaskProgress

\* The rows a task names still exist after any step.
LEMMA TasksNameRowsStep ==
  ASSUME IInv, [Next]_vars
  PROVE  TasksNameRows'
<1>1. TypeOK /\ TasksNameRows
  BY DEF IInv
<1>2. task \in [Tasks -> Task]
  BY <1>1 DEF TypeOK
<1>3. ASSUME NEW r, TaskNamesRequest(r)
      PROVE  r.pc \in {"recheck", "retrying"} =>
               r.answer.version \in Versions /\ requests'[r.answer.version] # "NONE"
  BY <1>1, <1>3, RowsStay DEF TaskNamesRequest
<1>4. SUFFICES \A u \in Tasks : TaskNamesVersion(task'[u]) /\ TaskNamesRequest(task'[u])
  BY <1>3 DEF TasksNameRows, TaskNamesRequest, TaskNamesVersion
<1>5. ASSUME NEW new, TaskNamesVersion(new), TaskNamesRequest(new), NEW t \in Tasks,
             task' = [task EXCEPT ![t] = new]
      PROVE  \A u \in Tasks : TaskNamesVersion(task'[u]) /\ TaskNamesRequest(task'[u])
  BY <1>1, <1>2, <1>5 DEF TasksNameRows
<1>6. ASSUME NEW new, new.pc \in {"idle", "resume", "retry"}
      PROVE  TaskNamesVersion(new) /\ TaskNamesRequest(new)
  BY <1>6 DEF TaskNamesVersion, TaskNamesRequest, DecidedPCs, DecidedNodes, Waiting
<1>7. CASE UNCHANGED vars
  BY <1>1, <1>7 DEF vars, TasksNameRows
<1>8. ASSUME NEW t \in Tasks, TaskProgress(t)
      PROVE  \A u \in Tasks : TaskNamesVersion(task'[u]) /\ TaskNamesRequest(task'[u])
  BY <1>5, <1>8, TaskStepNames
<1>9. ASSUME NEW h \in Handlers, ReceiveAnswer(h)
      PROVE  \A u \in Tasks : TaskNamesVersion(task'[u]) /\ TaskNamesRequest(task'[u])
  BY <1>1, <1>9 DEF ReceiveAnswer, TasksNameRows
<1>10. ASSUME NEW h \in Handlers, RecordAnswer(h)
       PROVE  \A u \in Tasks : TaskNamesVersion(task'[u]) /\ TaskNamesRequest(task'[u])
  <2>1. PICK t \in Tasks :
          task' = [task EXCEPT ![t] = [IdleTask EXCEPT !.pc = "resume", !.answer = handler[h]]]
    BY <1>10 DEF RecordAnswer
  <2> DEFINE new == [IdleTask EXCEPT !.pc = "resume", !.answer = handler[h]]
  <2>2. new.pc = "resume"
    BY DEF IdleTask
  <2>3. TaskNamesVersion(new) /\ TaskNamesRequest(new)
    <3> HIDE DEF new
    <3> QED
      BY <1>6, <2>2
  <2>4. task' = [task EXCEPT ![t] = new]
    BY <2>1
  <2> HIDE DEF new
  <2> QED
    BY <1>5, <2>3, <2>4
<1>11. CASE RequestRetry
  <2>1. PICK t \in Tasks : task' = [task EXCEPT ![t] = [IdleTask EXCEPT !.pc = "retry"]]
    BY <1>11 DEF RequestRetry
  <2> DEFINE new == [IdleTask EXCEPT !.pc = "retry"]
  <2>2. new.pc = "retry"
    BY DEF IdleTask
  <2>3. TaskNamesVersion(new) /\ TaskNamesRequest(new)
    <3> HIDE DEF new
    <3> QED
      BY <1>6, <2>2
  <2>4. task' = [task EXCEPT ![t] = new]
    BY <2>1
  <2> HIDE DEF new
  <2> QED
    BY <1>5, <2>3, <2>4
<1>12. CASE FactsChange
  BY <1>1, <1>12 DEF FactsChange, TasksNameRows
<1>13. CASE Crash
  BY <1>6, <1>13 DEF Crash, IdleTask
<1> QED
  BY <1>7, <1>8, <1>9, <1>10, <1>11, <1>12, <1>13 DEF Next

\* The checkpoint names the decision its pending node acts on.
LEMMA CheckpointStep ==
  ASSUME IInv, [Next]_vars
  PROVE  CheckpointNamesVersion'
<1>1. TypeOK /\ TasksNameRows /\ CheckpointNamesVersion
  BY DEF IInv
<1>2. ASSUME NEW t \in Tasks, Start(t) PROVE CheckpointNamesVersion'
  BY <1>1, <1>2 DEF Start, CheckpointNamesVersion, DecidedNodes, TypeOK
<1>3. ASSUME NEW t \in Tasks, SaveCheckpoint(t) PROVE CheckpointNamesVersion'
  <2>1. task[t].dec \in Versions
    BY <1>1, <1>3 DEF SaveCheckpoint, TasksNameRows, TaskNamesVersion, DecidedPCs
  <2> QED
    BY <1>3, <2>1 DEF SaveCheckpoint, CheckpointNamesVersion
<1>4. ASSUME UNCHANGED ckpt PROVE CheckpointNamesVersion'
  BY <1>1, <1>4 DEF CheckpointNamesVersion
<1>5. ASSUME NEW t \in Tasks, TaskProgress(t) PROVE CheckpointNamesVersion'
  <2>1. Start(t) \/ SaveCheckpoint(t) \/ UNCHANGED ckpt
    BY <1>5 DEF TaskProgress, Resume, Prepare, Evaluate, Prevalidate, RecheckUnchanged,
       RecheckChanged, Execute, ActionRefused, PlaceOrders, Validate, Finalize, Retry,
       RetrySuperseded, RetryUnchanged, TaskFails, LineFails, TraceTaken,
       Fail
  <2> QED
    BY <1>2, <1>3, <1>4, <2>1
<1>6. ASSUME \/ UNCHANGED vars
             \/ \E h \in Handlers : ReceiveAnswer(h) \/ RecordAnswer(h)
             \/ RequestRetry \/ FactsChange \/ Crash
      PROVE  UNCHANGED ckpt
  BY <1>6 DEF vars, ReceiveAnswer, RecordAnswer, RequestRetry, FactsChange, Crash
<1> QED
  BY <1>4, <1>5, <1>6 DEF Next

\* Requests are made with the decision and the plan they ask about.
LEMMA RequestsHavePlansStep ==
  ASSUME IInv, [Next]_vars
  PROVE  RequestsHavePlans'
<1>1. TypeOK /\ RequestsHavePlans /\ TasksNameRows /\ HandlersAnswerRequests
  BY DEF IInv
<1>2. \A v \in Versions : decisions[v] # NoDecision => decisions'[v] = decisions[v]
  BY <1>1, RowsStay
<1>3. ASSUME NEW v \in Versions, requests'[v] # "NONE"
      PROVE  \/ requests[v] # "NONE"
             \/ decisions'[v] # NoDecision /\ decisions'[v].lines # 0
  <2> USE DEF rows
  <2>1. SUFFICES ASSUME requests[v] = "NONE"
                 PROVE  decisions'[v] # NoDecision /\ decisions'[v].lines # 0
    OBVIOUS
  <2>2. ASSUME NEW e \in Evidence
        PROVE  Decide(e) # NoDecision /\ (Decide(e).type = "BUY" => Decide(e).lines # 0)
    BY <1>1, DecideType, NoDecisionAssumption DEF TypeOK
  <2>3. ASSUME NEW t \in Tasks
        PROVE  task[t].evidence \in Evidence
    BY <1>1 DEF TypeOK, Task
  <2>4. ASSUME NEW t \in Tasks, Evaluate(t)
        PROVE  decisions'[v] # NoDecision /\ decisions'[v].lines # 0
    <3>1. v = task[t].dec /\ Decide(task[t].evidence).type = "BUY"
            /\ decisions'[v] = Decide(task[t].evidence)
      BY <1>1, <1>3, <2>1, <2>4 DEF Evaluate, Fail, TypeOK
    <3> QED
      BY <2>2, <2>3, <3>1
  <2>5. ASSUME NEW t \in Tasks, RecheckChanged(t)
        PROVE  decisions'[v] # NoDecision /\ decisions'[v].lines # 0
    <3>1. task[t].answer.version # v
      BY <1>1, <2>1, <2>5 DEF RecheckChanged, TasksNameRows, TaskNamesRequest
    <3>2. v = task[t].dec + 1 /\ Decide(task[t].evidence).type = "BUY"
            /\ decisions'[v] = Decide(task[t].evidence)
      BY <1>1, <1>3, <2>1, <2>5, <3>1 DEF RecheckChanged, Fail, TypeOK
    <3> QED
      BY <2>2, <2>3, <3>2
  <2>6. ASSUME NEW t \in Tasks, RetrySuperseded(t)
        PROVE  FALSE
    <3>1. task[t].answer.version # v
      BY <1>1, <2>1, <2>6 DEF RetrySuperseded, TasksNameRows, TaskNamesRequest
    <3> QED
      BY <1>1, <1>3, <2>1, <2>6, <3>1 DEF RetrySuperseded, TypeOK
  <2>7. ASSUME NEW h \in Handlers, RecordAnswer(h)
        PROVE  FALSE
    <3>1. handler[h].version # v
      BY <1>1, <2>1, <2>7 DEF RecordAnswer, HandlersAnswerRequests
    <3> QED
      BY <1>1, <1>3, <2>1, <2>7, <3>1 DEF RecordAnswer, TypeOK
  <2>8. ASSUME UNCHANGED requests
        PROVE  FALSE
    BY <1>3, <2>1, <2>8
  <2>9. ASSUME NEW t \in Tasks, TaskProgress(t)
        PROVE  Evaluate(t) \/ RecheckChanged(t) \/ RetrySuperseded(t) \/ UNCHANGED requests
    BY <2>9 DEF TaskProgress, Start, Resume, SaveCheckpoint, Prepare, Prevalidate,
       RecheckUnchanged, Execute, ActionRefused, PlaceOrders, Validate, Finalize, Retry,
       RetryUnchanged, TaskFails, LineFails, TraceTaken, Fail
  <2>10. ASSUME \/ UNCHANGED vars
                \/ \E h \in Handlers : ReceiveAnswer(h)
                \/ RequestRetry \/ FactsChange \/ Crash
         PROVE  UNCHANGED requests
    BY <2>10 DEF vars, ReceiveAnswer, RequestRetry, FactsChange, Crash
  <2> QED
    BY <2>4, <2>5, <2>6, <2>7, <2>8, <2>9, <2>10 DEF Next
<1> QED
  BY <1>1, <1>2, <1>3 DEF RequestsHavePlans

\* An approval request in flight answers a request that was made.
LEMMA HandlersAnswerRequestsStep ==
  ASSUME IInv, [Next]_vars
  PROVE  HandlersAnswerRequests'
<1>1. TypeOK /\ HandlersAnswerRequests
  BY DEF IInv
<1>2. \A v \in Versions : requests[v] # "NONE" => requests'[v] # "NONE"
  BY <1>1, RowsStay
<1>3. ASSUME NEW h \in Handlers, handler'[h] # NoAnswer
      PROVE  /\ handler'[h].choice \in Choices /\ handler'[h].version \in Versions
             /\ requests[handler'[h].version] # "NONE"
  <2>1. CASE handler'[h] = handler[h]
    BY <1>1, <1>3, <2>1 DEF HandlersAnswerRequests
  <2>2. CASE handler'[h] # handler[h]
    <3>1. ~ UNCHANGED handler
      BY <2>2
    <3>2. PICK g \in Handlers : ReceiveAnswer(g) \/ RecordAnswer(g)
      BY <1>3, <2>2, <3>1 DEF Next, vars, TaskProgress, RequestRetry, FactsChange, Crash
    <3>3. CASE ReceiveAnswer(g)
      <4>1. PICK v \in Versions, c \in Choices :
              CanAnswer(v) /\ handler' = [handler EXCEPT ![g] = [choice |-> c, version |-> v]]
        BY <3>3 DEF ReceiveAnswer
      <4>2. handler'[h].version = v /\ handler'[h].choice = c
        BY <1>1, <2>2, <4>1 DEF TypeOK
      <4> QED
        BY <4>1, <4>2 DEF CanAnswer
    <3>4. CASE RecordAnswer(g)
      BY <1>1, <1>3, <2>2, <3>4 DEF RecordAnswer, TypeOK
    <3> QED
      BY <3>2, <3>3, <3>4
  <2> QED
    BY <2>1, <2>2
<1> QED
  BY <1>2, <1>3 DEF HandlersAnswerRequests

\* A request becomes approved in the commit that records the approval.
LEMMA ApprovalsAreRecordedStep ==
  ASSUME IInv, [Next]_vars
  PROVE  ApprovalsAreRecorded'
<1> USE DEF rows
<1>1. TypeOK /\ ApprovalsAreRecorded
  BY DEF IInv
<1>2. ASSUME NEW v \in Versions, requests'[v] = "APPROVED", requests[v] = "APPROVED"
      PROVE  <<v, "APPROVE">> \in recorded'
  <2>1. <<v, "APPROVE">> \in recorded
    BY <1>1, <1>2 DEF ApprovalsAreRecorded
  <2>2. recorded \subseteq recorded'
    BY DEF Next, vars, TaskProgress, ReceiveAnswer, RecordAnswer, RequestRetry, FactsChange,
       Crash
  <2> QED
    BY <2>1, <2>2
<1>3. ASSUME NEW v \in Versions, requests'[v] = "APPROVED", requests[v] # "APPROVED"
      PROVE  <<v, "APPROVE">> \in recorded'
  <2>1. ASSUME NEW t \in Tasks, TaskProgress(t)
        PROVE  FALSE
    <3>1. \/ Evaluate(t) \/ RecheckChanged(t) \/ RetrySuperseded(t) \/ UNCHANGED requests
      BY <2>1 DEF TaskProgress, Start, Resume, SaveCheckpoint, Prepare, Prevalidate,
         RecheckUnchanged, Execute, ActionRefused, PlaceOrders, Validate, Finalize, Retry,
         RetryUnchanged, TaskFails, LineFails, TraceTaken, Fail
    <3>2. CASE Evaluate(t)
      BY <1>1, <1>3, <3>2 DEF Evaluate, Fail, TypeOK
    <3>3. CASE RecheckChanged(t)
      BY <1>1, <1>3, <3>3 DEF RecheckChanged, Fail, TypeOK
    <3>4. CASE RetrySuperseded(t)
      BY <1>1, <1>3, <3>4 DEF RetrySuperseded, TypeOK
    <3> QED
      BY <1>3, <3>1, <3>2, <3>3, <3>4
  <2>2. ASSUME NEW h \in Handlers, RecordAnswer(h)
        PROVE  <<v, "APPROVE">> \in recorded'
    <3>1. v = handler[h].version /\ AnswerStatus(handler[h].choice) = "APPROVED"
      BY <1>1, <1>3, <2>2 DEF RecordAnswer, TypeOK
    <3>2. handler[h].choice = "APPROVE"
      BY <3>1 DEF AnswerStatus
    <3> QED
      BY <2>2, <3>1, <3>2 DEF RecordAnswer
  <2>3. ASSUME \/ UNCHANGED vars
               \/ \E h \in Handlers : ReceiveAnswer(h)
               \/ RequestRetry \/ FactsChange \/ Crash
        PROVE  FALSE
    BY <1>3, <2>3 DEF vars, ReceiveAnswer, RequestRetry, FactsChange, Crash
  <2> QED
    BY <2>1, <2>2, <2>3 DEF Next
<1> QED
  BY <1>2, <1>3 DEF ApprovalsAreRecorded

\* Orders are placed only by PlaceOrders, for a version whose request stands
\* as approved at that moment, and make its whole plan the only one ordered.
LEMMA OrdersStep ==
  ASSUME IInv, [Next]_vars, orders' # orders
  PROVE  \E v \in Versions :
           /\ requests[v] = "APPROVED"
           /\ orders = {}
           /\ orders' = PlanLines(v)
           /\ UNCHANGED <<decisions, recorded>>
<1> USE DEF rows
<1>1. TypeOK /\ TasksNameRows /\ RequestsHavePlans /\ OnePlanOrdered
  BY DEF IInv
<1>2. PICK t \in Tasks : TaskProgress(t)
  BY DEF Next, vars, ReceiveAnswer, RecordAnswer, RequestRetry, FactsChange, Crash
<1>3. PlaceOrders(t)
  BY <1>2 DEF TaskProgress, Start, Resume, SaveCheckpoint, Prepare, Evaluate, Prevalidate,
     RecheckUnchanged, RecheckChanged, Execute, ActionRefused, Validate, Finalize, Retry,
     RetrySuperseded, RetryUnchanged, TaskFails, LineFails, TraceTaken,
       Fail
<1> DEFINE v == task[t].dec
<1>4. /\ requests[v] = "APPROVED" /\ ~ExternalIdTaken(v)
      /\ orders' = orders \cup NewLines(v)
      /\ UNCHANGED <<decisions, recorded>>
  BY <1>2, <1>3 DEF PlaceOrders, Fail, StillApproved, TaskProgress
<1>5. v \in Versions
  BY <1>1, <1>3 DEF PlaceOrders, TasksNameRows, TaskNamesVersion, DecidedPCs
<1>6. decisions[v].lines # 0 /\ decisions[v].lines \in 0..MaxLines
  <2>1. decisions[v] \in Decision /\ decisions[v].lines # 0
    BY <1>1, <1>4, <1>5 DEF RequestsHavePlans, TypeOK
  <2> QED
    BY <2>1 DEF Decision
<1>7. NewLines(v) # {}
  BY <1>4
<1>8. orders = {}
  <2>1. SUFFICES ASSUME NEW w \in Versions, decisions[w] # NoDecision,
                        decisions[w].lines # 0, orders = PlanLines(w)
                 PROVE  FALSE
    BY <1>1 DEF OnePlanOrdered
  <2>2. decisions[w].lines \in 0..MaxLines
    BY <1>1, <2>1 DEF TypeOK, Decision
  <2>3. <<v, 1>> \in PlanLines(v) /\ <<w, 1>> \in orders
    BY <1>6, <2>1, <2>2, BoundsAssumption DEF PlanLines
  <2>4. v # w
    BY <1>7, <2>1 DEF NewLines
  <2>5. <<v, 1>> \notin orders
    BY <2>1, <2>4 DEF PlanLines
  <2>6. <<v, 1>> \in NewLines(v)
    BY <2>3, <2>5 DEF NewLines
  <2>7. <<v, 1>>[2] = <<w, 1>>[2]
    OBVIOUS
  <2> QED
    BY <1>4, <2>3, <2>6, <2>7 DEF ExternalIdTaken
<1> QED
  BY <1>4, <1>5, <1>8 DEF NewLines

\* The one ordered plan stays the one ordered plan.
LEMMA OnePlanOrderedStep ==
  ASSUME IInv, [Next]_vars
  PROVE  OnePlanOrdered'
<1>1. TypeOK /\ RequestsHavePlans /\ OnePlanOrdered
  BY DEF IInv
<1>2. CASE orders' = orders
  <2>1. ASSUME NEW v \in Versions, decisions[v] # NoDecision
        PROVE  decisions'[v] = decisions[v] /\ PlanLines(v)' = PlanLines(v)
    BY <1>1, <2>1, RowsStay DEF PlanLines
  <2> QED
    BY <1>1, <1>2, <2>1 DEF OnePlanOrdered
<1>3. CASE orders' # orders
  <2>1. PICK v \in Versions : /\ requests[v] = "APPROVED"
                              /\ orders' = PlanLines(v)
                              /\ decisions' = decisions
    BY <1>3, OrdersStep
  <2>2. decisions'[v] # NoDecision /\ decisions'[v].lines # 0
    BY <1>1, <2>1 DEF RequestsHavePlans
  <2>3. PlanLines(v)' = PlanLines(v)
    BY <2>1 DEF PlanLines
  <2> QED
    BY <2>1, <2>2, <2>3 DEF OnePlanOrdered
<1> QED
  BY <1>2, <1>3

\* Every variable keeps its type.
LEMMA TypeStep ==
  ASSUME IInv, [Next]_vars
  PROVE  TypeOK'
<1> USE DEF rows
<1>1. TypeOK /\ HandlersAnswerRequests
  BY DEF IInv
<1>2. task \in [Tasks -> Task] /\ handler \in [Handlers -> Answers]
  BY <1>1 DEF TypeOK
<1>3. CASE UNCHANGED vars
  BY <1>1, <1>3 DEF vars, TypeOK
<1>4. ASSUME NEW t \in Tasks, TaskProgress(t) PROVE TypeOK'
  BY <1>4, TaskProgressType
<1>5. ASSUME NEW h \in Handlers, ReceiveAnswer(h) PROVE TypeOK'
  <2>1. handler' \in [Handlers -> Answers]
    BY <1>2, <1>5, BoundsAssumption DEF ReceiveAnswer, Answers, Versions
  <2>2. responses' \in 0..MaxResponses
    BY <1>1, <1>5, BoundsAssumption DEF ReceiveAnswer, TypeOK
  <2> QED
    BY <1>1, <1>5, <2>1, <2>2 DEF ReceiveAnswer, TypeOK
<1>6. ASSUME NEW h \in Handlers, RecordAnswer(h) PROVE TypeOK'
  <2>1. handler[h].choice \in Choices /\ handler[h].version \in Versions /\ handler[h] \in Answers /\ handler[h] # NoAnswer
    BY <1>1, <1>2, <1>6 DEF RecordAnswer, HandlersAnswerRequests
  <2>2. requests' \in [Versions -> {"NONE", "PENDING", "APPROVED", "REJECTED", "SUPERSEDED"}]
    BY <1>1, <1>6 DEF RecordAnswer, AnswerStatus, TypeOK
  <2>3. handler' \in [Handlers -> Answers]
    BY <1>2, <1>6, TaskTypes DEF RecordAnswer
  <2>4. PICK t \in Tasks :
          task' = [task EXCEPT ![t] = [IdleTask EXCEPT !.pc = "resume", !.answer = handler[h]]]
    BY <1>6 DEF RecordAnswer
  <2>5. [IdleTask EXCEPT !.pc = "resume", !.answer = handler[h]] \in Task
    BY <2>1, TaskTypes DEF Task, PCs
  <2>6. task' \in [Tasks -> Task]
    BY <1>2, <2>4, <2>5
  <2> QED
    BY <1>1, <1>6, <2>1, <2>2, <2>3, <2>6 DEF RecordAnswer, TypeOK
<1>7. CASE RequestRetry
  <2>1. PICK t \in Tasks : task' = [task EXCEPT ![t] = [IdleTask EXCEPT !.pc = "retry"]]
    BY <1>7 DEF RequestRetry
  <2>2. [IdleTask EXCEPT !.pc = "retry"] \in Task
    BY TaskTypes DEF Task, PCs
  <2>3. task' \in [Tasks -> Task]
    BY <1>2, <2>1, <2>2
  <2> QED
    BY <1>1, <1>7, <2>3 DEF RequestRetry, TypeOK
<1>8. CASE FactsChange
  BY <1>1, <1>8 DEF FactsChange, TypeOK
<1>9. CASE Crash
  BY <1>1, <1>9, TaskTypes DEF Crash, TypeOK
<1> QED
  BY <1>3, <1>4, <1>5, <1>6, <1>7, <1>8, <1>9 DEF Next

\* A decision is inserted alone, where there is none.
LEMMA DecisionsStep ==
  ASSUME IInv, [Next]_vars, decisions' # decisions
  PROVE  \E v \in Versions, d \in Decision :
           decisions[v] = NoDecision /\ decisions' = [decisions EXCEPT ![v] = d]
<1> USE DEF rows
<1>1. TypeOK /\ TasksNameRows
  BY DEF IInv
<1>2. PICK t \in Tasks : TaskProgress(t)
  BY DEF Next, vars, ReceiveAnswer, RecordAnswer, RequestRetry, FactsChange, Crash
<1>3. Evaluate(t) \/ RecheckChanged(t)
  BY <1>2 DEF TaskProgress, Start, Resume, SaveCheckpoint, Prepare, Prevalidate,
     RecheckUnchanged, Execute, ActionRefused, PlaceOrders, Validate, Finalize, Retry,
     RetrySuperseded, RetryUnchanged, TaskFails, LineFails, TraceTaken,
       Fail
<1>4. task[t].evidence \in Evidence
  BY <1>1 DEF TypeOK, Task
<1>5. Decide(task[t].evidence) \in Decision
  BY <1>1, <1>4, DecideType DEF TypeOK
<1>6. CASE Evaluate(t)
  <2>1. task[t].dec \in Versions
    BY <1>1, <1>6 DEF Evaluate, TasksNameRows, TaskNamesVersion, DecidedPCs
  <2> QED
    BY <1>5, <1>6, <2>1 DEF Evaluate, Fail, VersionTaken
<1>7. CASE RecheckChanged(t)
  BY <1>5, <1>7 DEF RecheckChanged, Fail, VersionTaken
<1> QED
  BY <1>3, <1>6, <1>7

\* A new review satisfies the invariant.
LEMMA InitInv == Init => IInv
<1> SUFFICES ASSUME Init PROVE IInv
  OBVIOUS
<1>1. PICK t \in Tasks :
        task = [u \in Tasks |-> IF u = t THEN [IdleTask EXCEPT !.pc = "start"] ELSE IdleTask]
  BY DEF Init
<1>2. [IdleTask EXCEPT !.pc = "start"] \in Task /\ IdleTask \in Task
  BY TaskTypes DEF Task, PCs
<1>3. TypeOK
  <2>1. task \in [Tasks -> Task]
    BY <1>1, <1>2
  <2>2. ckpt \in [node : Nodes, dec : 0..MaxVersion, answer : Answers, passed : BOOLEAN]
    BY TaskTypes, BoundsAssumption DEF Init, Nodes
  <2>3. status \in Statuses /\ version \in 0..MaxVersion /\ responses \in 0..MaxResponses
    BY TaskNames, BoundsAssumption DEF Init
  <2> QED
    BY <2>1, <2>2, <2>3, TaskTypes DEF Init, TypeOK
<1>4. TasksNameRows
  <2>1. \A u \in Tasks : task[u].pc \in {"start", "idle"}
    BY <1>1 DEF IdleTask
  <2> QED
    BY <2>1 DEF TasksNameRows, TaskNamesVersion, TaskNamesRequest, DecidedPCs, DecidedNodes,
       Waiting
<1>5. CheckpointNamesVersion
  BY DEF Init, CheckpointNamesVersion, DecidedNodes
<1>6. RequestsHavePlans /\ HandlersAnswerRequests /\ ApprovalsAreRecorded /\ OnePlanOrdered
  BY DEF Init, RequestsHavePlans, HandlersAnswerRequests, ApprovalsAreRecorded, OnePlanOrdered
<1> QED
  BY <1>3, <1>4, <1>5, <1>6 DEF IInv

-----------------------------------------------------------------------------
(***************************************************************************)
(* The theorems.                                                           *)
(***************************************************************************)

\* The invariant holds in every reachable state.
THEOREM Invariance == Spec => []IInv
<1>1. Init => IInv
  BY InitInv
<1>2. IInv /\ [Next]_vars => IInv'
  BY TypeStep, TasksNameRowsStep, CheckpointStep, RequestsHavePlansStep,
     HandlersAnswerRequestsStep, ApprovalsAreRecordedStep, OnePlanOrderedStep DEF IInv
<1> QED
  BY <1>1, <1>2, PTL DEF Spec

\* Every variable has its type in every reachable state.
THEOREM TypeCorrect == Spec => []TypeOK
<1>1. IInv => TypeOK
  BY DEF IInv
<1> QED
  BY <1>1, Invariance, PTL

\* Two versions of one review are never both ordered, however many answers,
\* retries and runs of the workflow overlap.
THEOREM OneVersionIsOrdered == Spec => []OneVersionOrdered
<1>1. IInv => OneVersionOrdered
  BY DEF IInv, OnePlanOrdered, OneVersionOrdered, PlanLines
<1> QED
  BY <1>1, Invariance, PTL

\* The commit of _execute is all or nothing: when one line of a version has an
\* order, every line of its plan has one, and no order is outside the plan.
OrderedTogether ==
  \A o \in orders : /\ decisions[o[1]] # NoDecision
                    /\ o \in PlanLines(o[1])
                    /\ PlanLines(o[1]) \subseteq orders

\* The lines of a plan are ordered together, in every state.
THEOREM LinesAreOrderedTogether == Spec => []OrderedTogether
<1>1. IInv => OrderedTogether
  BY DEF IInv, OnePlanOrdered, OrderedTogether, PlanLines
<1> QED
  BY <1>1, Invariance, PTL

\* A completed review has an order for every line of the plan it ordered.
THEOREM WholePlanIsOrdered == Spec => []WholePlanOrdered
<1>1. OrderedTogether => WholePlanOrdered
  BY DEF OrderedTogether, WholePlanOrdered
<1> QED
  BY <1>1, LinesAreOrderedTogether, PTL

\* Orders are only added under an approval that stands at that moment.
THEOREM ApprovalStands == Spec => OrderedUnderStandingApproval
<1>1. IInv /\ [Next]_vars => [\A o \in orders' \ orders : requests[o[1]] = "APPROVED"]_vars
  <2> SUFFICES ASSUME IInv, [Next]_vars, NEW o \in orders' \ orders
               PROVE  requests[o[1]] = "APPROVED"
    OBVIOUS
  <2>1. PICK v \in Versions : requests[v] = "APPROVED" /\ orders' = PlanLines(v)
    BY OrdersStep
  <2> QED
    BY <2>1 DEF PlanLines
<1> QED
  BY <1>1, Invariance, PTL DEF Spec, OrderedUnderStandingApproval

\* A saved decision and its plan are never rewritten.
THEOREM DecisionsStay == Spec => SavedDecisionsNeverChange
<1>1. TypeOK /\ [Next]_vars
        => [\A v \in Versions : decisions[v] # NoDecision => decisions'[v] = decisions[v]]_vars
  BY RowsStay
<1> QED
  BY <1>1, TypeCorrect, PTL DEF Spec, SavedDecisionsNeverChange

\* The workflow keeps the promise of ApprovedOrdering: published plans stay, and
\* the orders are lines of one plan, approved before, and stay.
THEOREM Refinement == Spec => ImplementsApprovedOrdering
<1> DEFINE plans == [v \in Versions |-> IF decisions[v] = NoDecision THEN 0 ELSE decisions[v].lines]
           approvals == {v \in Versions : <<v, "APPROVE">> \in recorded}
<1>1. Init => AO!Init
  BY DEF Init, AO!Init, AO!Versions, Versions
<1>2. IInv /\ [Next]_vars => [AO!Next]_AO!vars
  <2> SUFFICES ASSUME IInv, [Next]_vars PROVE [AO!Next]_AO!vars
    OBVIOUS
  <2>1. TypeOK /\ RequestsHavePlans /\ HandlersAnswerRequests
    BY DEF IInv
  <2>2. ASSUME NEW v \in Versions, requests[v] # "NONE"
        PROVE  plans[v] # 0
    BY <2>1, <2>2 DEF RequestsHavePlans
  <2>3. CASE orders' # orders
    <3>1. PICK v \in Versions : /\ requests[v] = "APPROVED" /\ orders = {}
                                /\ orders' = PlanLines(v)
                                /\ UNCHANGED <<decisions, recorded>>
      BY <2>3, OrdersStep
    <3>2. v \in approvals
      BY <3>1 DEF IInv, ApprovalsAreRecorded
    <3>3. orders' = orders \cup ({v} \X (1..plans[v])) /\ orders \subseteq {v} \X (1..plans[v])
      BY <2>1, <3>1 DEF PlanLines, RequestsHavePlans
    <3>4. AO!Order(v)
      BY <3>1, <3>2, <3>3 DEF AO!Order, AO!Versions, Versions
    <3> QED
      BY <3>4 DEF AO!Next, AO!Versions, Versions
  <2>4. CASE orders' = orders /\ recorded' # recorded
    <3>1. PICK h \in Handlers : RecordAnswer(h)
      BY <2>4 DEF Next, vars, TaskProgress, ReceiveAnswer, RequestRetry, FactsChange, Crash
    <3>2. PICK v \in Versions : /\ requests[v] # "NONE"
                                /\ recorded' = recorded \cup {<<v, handler[h].choice>>}
                                /\ decisions' = decisions
      BY <2>1, <3>1 DEF RecordAnswer, HandlersAnswerRequests
    <3>3. CASE handler[h].choice = "APPROVE"
      <4>1. approvals' = approvals \cup {v}
        BY <3>2, <3>3
      <4>2. AO!Approve(v)
        BY <2>2, <2>4, <3>2, <4>1 DEF AO!Approve, AO!Versions, Versions
      <4> QED
        BY <4>2 DEF AO!Next, AO!Versions, Versions
    <3>4. CASE handler[h].choice # "APPROVE"
      <4>1. approvals' = approvals
        BY <3>2, <3>4
      <4> QED
        BY <2>4, <3>2, <4>1 DEF AO!vars
    <3> QED
      BY <3>3, <3>4
  <2>5. CASE orders' = orders /\ recorded' = recorded /\ decisions' # decisions
    <3>1. PICK v \in Versions, d \in Decision :
            decisions[v] = NoDecision /\ decisions' = [decisions EXCEPT ![v] = d]
      BY <2>5, DecisionsStep
    <3>2. plans' = [plans EXCEPT ![v] = d.lines] /\ plans[v] = 0 /\ d.lines \in 0..MaxLines
      BY <2>1, <3>1, NoDecisionAssumption DEF TypeOK, Decision
    <3>3. CASE d.lines = 0
      <4>1. plans' = plans
        BY <3>2, <3>3
      <4> QED
        BY <2>5, <4>1 DEF AO!vars
    <3>4. CASE d.lines # 0
      <4>1. d.lines \in 1..MaxLines
        BY <3>2, <3>4, BoundsAssumption
      <4>2. AO!Publish(v)
        BY <2>5, <3>2, <4>1 DEF AO!Publish, AO!Versions, Versions
      <4> QED
        BY <4>2 DEF AO!Next, AO!Versions, Versions
    <3> QED
      BY <3>3, <3>4
  <2>6. CASE UNCHANGED <<orders, recorded, decisions>>
    BY <2>6 DEF AO!vars
  <2> QED
    BY <2>3, <2>4, <2>5, <2>6
<1> QED
  BY <1>1, <1>2, Invariance, PTL DEF Spec, ImplementsApprovedOrdering, AO!Spec

-----------------------------------------------------------------------------
(***************************************************************************)
(* What a task that validates or finalizes has behind it, whatever else    *)
(* runs beside it: an order of the decision it names, and one that was     *)
(* validated when it says that validation passed.                          *)
(***************************************************************************)
Reached(r, node) == r.pc = node \/ (r.pc = "save" /\ r.next = node)

Ordered(v) == \E o \in orders : o[1] = v

SomeValidated == \E o \in orders : o \in validated

EndActs(r) ==
  /\ Reached(r, "validate") => Ordered(r.dec)
  /\ Reached(r, "finalize") /\ r.passed => SomeValidated

TasksEnd == \A t \in Tasks : EndActs(task[t])

CheckpointEnds ==
  /\ ckpt.node = "validate" => Ordered(ckpt.dec)
  /\ ckpt.node = "finalize" /\ ckpt.passed => SomeValidated

SomeRejects == \E v \in Versions : decisions[v] # NoDecision /\ decisions[v].type = "REJECT"

CompletionEnds == status = "COMPLETED" => SomeValidated \/ SomeRejects

EndInv == TasksEnd /\ CheckpointEnds /\ CompletionEnds

\* Orders, validations and decisions stay.
LEMMA EndsStay ==
  ASSUME IInv, [Next]_vars
  PROVE  /\ orders \subseteq orders' /\ validated \subseteq validated'
         /\ \A v : Ordered(v) => Ordered(v)'
         /\ SomeValidated => SomeValidated'
         /\ SomeRejects => SomeRejects'
<1> USE DEF rows
<1>1. orders \subseteq orders'
  BY OrdersStep
<1>2. validated \subseteq validated'
  BY DEF Next, vars, ReceiveAnswer, RecordAnswer, RequestRetry, FactsChange, Crash,
     TaskProgress, Start, Resume, SaveCheckpoint, Prepare, Evaluate, Prevalidate,
     RecheckUnchanged, RecheckChanged, Execute, ActionRefused, PlaceOrders, Validate, Finalize,
     Retry, RetrySuperseded, RetryUnchanged, TaskFails, LineFails, TraceTaken, Fail
<1>3. TypeOK
  BY DEF IInv
<1>4. SomeRejects => SomeRejects'
  BY <1>3, RowsStay DEF SomeRejects
<1> QED
  BY <1>1, <1>2, <1>4 DEF Ordered, SomeValidated

\* Where Route takes a task it takes what the task says.
LEMMA RouteEnds ==
  ASSUME NEW r \in Task, NEW node \in Successors, NEW x \in {"validate", "finalize"},
         Reached(Route(r, node), x)
  PROVE  x = node /\ Route(r, node).dec = r.dec /\ Route(r, node).passed = r.passed
<1>1. CASE r.direct /\ node \in Waiting
  BY <1>1 DEF Route, IdleTask, Reached
<1>2. CASE r.direct /\ node \notin Waiting
  BY <1>2 DEF Route, Reached, Task, Successors
<1>3. CASE ~r.direct
  BY <1>3 DEF Route, Reached, Task
<1> QED
  BY <1>1, <1>2, <1>3

\* A task that comes to validate or finalize.
Ends(r) == Reached(r, "validate") \/ Reached(r, "finalize")

\* A step of a task leaves it, and the checkpoint, with what they need.
LEMMA TaskStepEnds ==
  ASSUME IInv, EndInv, [Next]_vars, NEW t \in Tasks, TaskProgress(t)
  PROVE  \E new : task' = [task EXCEPT ![t] = new] /\ EndActs(new)' /\ CheckpointEnds'
<1> DEFINE r == task[t]
<1>1. /\ TypeOK /\ CheckpointEnds /\ EndActs(r)
      /\ r \in Task /\ r.dec \in 0..MaxVersion /\ r.direct \in BOOLEAN
      /\ ckpt \in [node : Nodes, dec : 0..MaxVersion, answer : Answers, passed : BOOLEAN]
  BY DEF IInv, TypeOK, EndInv, TasksEnd, Task
<1>2. /\ \A v : Ordered(v) => Ordered(v)'
      /\ SomeValidated => SomeValidated'
  BY EndsStay
<1>3. ckpt' = ckpt => CheckpointEnds'
  BY <1>1, <1>2 DEF CheckpointEnds
<1>4. ASSUME NEW new, ~Ends(new), task' = [task EXCEPT ![t] = new], ckpt' = ckpt
      PROVE  \E n : task' = [task EXCEPT ![t] = n] /\ EndActs(n)' /\ CheckpointEnds'
  BY <1>3, <1>4 DEF Ends, EndActs
<1>5. ASSUME NEW q \in Task, NEW node \in Successors \ {"validate", "finalize"}
      PROVE  ~Ends(Route(q, node))
  BY <1>5, RouteEnds DEF Ends
<1>6. ~Ends(IdleTask)
  BY DEF Ends, IdleTask, Reached
<1>7. CASE Start(t)
  <2> DEFINE n == [r EXCEPT !.pc = "prepare"]
  <2>1. n.pc = "prepare" /\ task' = [task EXCEPT ![t] = n] /\ ckpt'.node = "prepare"
    BY <1>1, <1>7 DEF Start, Task
  <2> HIDE DEF n
  <2> QED
    BY <2>1 DEF EndActs, Reached, CheckpointEnds
<1>8. CASE Resume(t)
  <2> DEFINE loaded == [r EXCEPT !.dec = ckpt.dec, !.passed = ckpt.passed]
             on == [loaded EXCEPT !.pc = ckpt.node, !.answer = ckpt.answer]
  <2>1. loaded \in Task
    BY <1>1 DEF Task
  <2>2. on.pc = ckpt.node /\ on.dec = ckpt.dec /\ on.passed = ckpt.passed
    BY <1>1 DEF Task
  <2>3. ~Ends(Route(loaded, "prevalidate"))
    BY <1>5, <2>1 DEF Successors
  <2> HIDE DEF loaded
  <2>4. PICK n : /\ task' = [task EXCEPT ![t] = n]
                 /\ \/ n = Route(loaded, "prevalidate") \/ n = IdleTask
                    \/ n = on /\ ckpt.node \notin {"approval", "none", "end"}
    BY <1>8 DEF Resume, loaded
  <2>5. ckpt' = ckpt
    BY <1>8 DEF Resume
  <2>6. CASE n = on /\ ckpt.node # "save"
    <3> HIDE DEF on
    <3>1. EndActs(n)'
      BY <1>1, <1>2, <2>2, <2>6 DEF EndActs, Reached, CheckpointEnds
    <3> QED
      BY <1>3, <2>4, <2>5, <3>1
  <2>7. ckpt.node # "save"
    BY <1>1 DEF Nodes
  <2> HIDE DEF on
  <2> QED
    BY <1>4, <1>6, <2>3, <2>4, <2>5, <2>6, <2>7
<1>9. CASE SaveCheckpoint(t)
  <2>1. PICK on : on = [r EXCEPT !.pc = r.next, !.next = "none"]
    OBVIOUS
  <2>2. PICK n : n = IF r.next \in Waiting THEN IdleTask ELSE on
    OBVIOUS
  <2>3. /\ r.pc = "save" /\ task' = [task EXCEPT ![t] = n]
        /\ ckpt' = [node |-> r.next, dec |-> r.dec, answer |-> r.answer, passed |-> r.passed]
    BY <1>9, <2>1, <2>2 DEF SaveCheckpoint
  <2>4. r.next \in Successors
    BY <2>3 DEF IInv, TasksNameRows, TaskNamesVersion
  <2>5. on.pc = r.next /\ on.dec = r.dec /\ on.passed = r.passed
    BY <1>1, <2>1 DEF Task
  <2>0. PICK v : v = r.dec
    OBVIOUS
  <2>6. /\ r.next = "validate" => Ordered(v)'
        /\ r.next = "finalize" /\ r.passed => SomeValidated'
    BY <1>1, <1>2, <2>0, <2>3 DEF EndActs, Reached
  <2>7. CheckpointEnds'
    <3>1. ckpt'.node = r.next /\ ckpt'.dec = v /\ ckpt'.passed = r.passed
      BY <2>0, <2>3
    <3> QED
      BY <2>6, <3>1 DEF CheckpointEnds, Ordered
  <2>8. EndActs(on)'
    BY <2>0, <2>4, <2>5, <2>6 DEF EndActs, Reached, Successors
  <2>9. EndActs(n)'
    BY <1>6, <2>2, <2>8 DEF Ends, EndActs
  <2> QED
    BY <2>3, <2>7, <2>9
<1>10. CASE Prepare(t)
  <2>1. ASSUME NEW n \in Task, n.pc \in {"evaluate", "untraced"} PROVE ~Ends(n)
    BY <2>1 DEF Ends, Reached
  <2>2. PICK n : task' = [task EXCEPT ![t] = n] /\ n.pc \in {"evaluate", "untraced"}
    <3>1. CASE \E e \in Collected :
                 task' = [task EXCEPT ![t].pc = "evaluate", ![t].evidence = e,
                                      ![t].dec = version + 1]
      <4>1. PICK e \in Collected :
              task' = [task EXCEPT ![t] = [r EXCEPT !.pc = "evaluate", !.evidence = e,
                                                    !.dec = version + 1]]
        BY <1>1, <3>1
      <4>2. [r EXCEPT !.pc = "evaluate", !.evidence = e, !.dec = version + 1].pc = "evaluate"
        BY <1>1 DEF Task
      <4> QED
        BY <4>1, <4>2
    <3>2. CASE task' = [task EXCEPT ![t].pc = "untraced"]
      <4>1. [r EXCEPT !.pc = "untraced"].pc = "untraced"
        BY <1>1 DEF Task
      <4> QED
        BY <3>2, <4>1
    <3> QED
      BY <1>10, <3>1, <3>2 DEF Prepare
  <2>3. ~Ends(n) /\ ckpt' = ckpt
    BY <1>10, <2>2 DEF Prepare, Ends, Reached
  <2> QED
    BY <1>4, <2>2, <2>3
<1>11. CASE Evaluate(t)
  <2>1. CASE VersionTaken(r.dec)
    BY <1>4, <1>6, <1>11, <2>1 DEF Evaluate, Fail
  <2>2. CASE ~VersionTaken(r.dec)
    <3> DEFINE node == NextNode(Decide(r.evidence))
    <3>1. node \in Successors \ {"validate", "finalize"}
      BY DEF NextNode, Successors
    <3>2. task' = [task EXCEPT ![t] = Route(r, node)] /\ ckpt' = ckpt
      BY <1>11, <2>2 DEF Evaluate
    <3> HIDE DEF node
    <3> QED
      BY <1>1, <1>4, <1>5, <3>1, <3>2
  <2> QED
    BY <2>1, <2>2
<1>12. CASE Prevalidate(t)
  <2>1. ckpt' = ckpt
    BY <1>12 DEF Prevalidate
  <2>2. CASE task' = [task EXCEPT ![t] = Route(r, "end")]
    BY <1>1, <1>4, <1>5, <2>1, <2>2 DEF Successors
  <2>3. CASE \E e \in Collected :
               task' = [task EXCEPT ![t].pc = "recheck", ![t].seen = status, ![t].evidence = e]
    <3>1. PICK e \in Collected :
            task' = [task EXCEPT ![t] = [r EXCEPT !.pc = "recheck", !.seen = status,
                                                  !.evidence = e]]
      BY <1>1, <2>3
    <3>2. ~Ends([r EXCEPT !.pc = "recheck", !.seen = status, !.evidence = e])
      BY <1>1 DEF Task, Ends, Reached
    <3> QED
      BY <1>4, <2>1, <3>1, <3>2
  <2> QED
    BY <1>12, <2>2, <2>3 DEF Prevalidate
<1>13. CASE RecheckChanged(t)
  <2>1. CASE VersionTaken(r.dec + 1)
    BY <1>4, <1>6, <1>13, <2>1 DEF RecheckChanged, Fail
  <2>2. CASE ~VersionTaken(r.dec + 1)
    <3> DEFINE node == NextNode(Decide(r.evidence))
               q == [r EXCEPT !.dec = r.dec + 1]
    <3>1. node \in Successors \ {"validate", "finalize"}
      BY DEF NextNode, Successors
    <3>2. task' = [task EXCEPT ![t] = Route(q, node)] /\ ckpt' = ckpt
      BY <1>13, <2>2 DEF RecheckChanged
    <3>3. q \in Task
      BY <1>1, <1>13, BoundsAssumption DEF RecheckChanged, Versions, Task
    <3> HIDE DEF node, q
    <3> QED
      BY <1>4, <1>5, <3>1, <3>2, <3>3
  <2> QED
    BY <2>1, <2>2
<1>14. CASE RecheckUnchanged(t) \/ ActionRefused(t) \/ Finalize(t) \/ RetryUnchanged(t)
  <2>1. PICK node \in {"execute", "end"} : task' = [task EXCEPT ![t] = Route(r, node)]
    BY <1>14 DEF RecheckUnchanged, ActionRefused, Finalize, RetryUnchanged
  <2>2. ckpt' = ckpt /\ node \in Successors \ {"validate", "finalize"}
    BY <1>14 DEF RecheckUnchanged, ActionRefused, Finalize, RetryUnchanged, Successors
  <2> QED
    BY <1>1, <1>4, <1>5, <2>1, <2>2
<1>15. CASE Execute(t)
  <2>1. ckpt' = ckpt
    BY <1>15 DEF Execute
  <2>2. CASE task' = [task EXCEPT ![t] = Route(r, "end")]
    BY <1>1, <1>4, <1>5, <2>1, <2>2 DEF Successors
  <2>3. CASE task' = [task EXCEPT ![t].pc = "acting", ![t].seen = status]
    <3>1. task' = [task EXCEPT ![t] = [r EXCEPT !.pc = "acting", !.seen = status]]
      BY <1>1, <2>3
    <3>2. ~Ends([r EXCEPT !.pc = "acting", !.seen = status])
      BY <1>1 DEF Task, Ends, Reached
    <3> QED
      BY <1>4, <2>1, <3>1, <3>2
  <2> QED
    BY <1>15, <2>2, <2>3 DEF Execute
<1>16. CASE PlaceOrders(t)
  <2>1. CASE Fail(t)
    BY <1>4, <1>6, <2>1 DEF Fail
  <2>2. CASE ~Fail(t)
    <3>0. PICK v : v = r.dec
      OBVIOUS
    <3>1. /\ r.pc = "acting" /\ requests[v] = "APPROVED"
          /\ orders' = orders \cup NewLines(v)
          /\ task' = [task EXCEPT ![t] = Route(r, "validate")]
          /\ ckpt' = ckpt
      BY <1>16, <2>2, <3>0 DEF PlaceOrders, StillApproved
    <3>2. v \in Versions
      BY <3>0, <3>1 DEF IInv, TasksNameRows, TaskNamesVersion, DecidedPCs
    <3>3. decisions[v].lines # 0 /\ decisions[v].lines \in 0..MaxLines
      BY <1>1, <3>1, <3>2 DEF IInv, RequestsHavePlans, TypeOK, Decision
    <3>4. <<v, 1>> \in PlanLines(v)
      BY <3>3, BoundsAssumption DEF PlanLines
    <3>5. Ordered(v)'
      BY <3>1, <3>4 DEF NewLines, Ordered
    <3>6. "validate" \in Successors
      BY DEF Successors
    <3>7. PICK n : n = Route(r, "validate")
      OBVIOUS
    <3>8. (Reached(n, "validate") => n.dec = v) /\ ~Reached(n, "finalize")
      BY <1>1, <3>0, <3>6, <3>7, RouteEnds
    <3>9. EndActs(n)'
      BY <3>5, <3>8 DEF EndActs
    <3> QED
      BY <1>3, <3>1, <3>7, <3>9
  <2> QED
    BY <2>1, <2>2
<1>17. CASE Validate(t)
  <2>1. /\ r.pc = "validate" /\ orders' = orders /\ ckpt' = ckpt
    BY <1>17 DEF Validate
  <2>2. Ordered(r.dec)
    BY <1>1, <2>1 DEF EndActs, Reached
  <2>3. PICK checked \in CheckedSets(r.dec) :
          \E matching \in MatchingSets(checked) :
            /\ validated' = validated \cup matching
            /\ task' = [task EXCEPT
                 ![t] = Route([r EXCEPT !.passed = (matching = checked)], "finalize")]
    BY <1>17 DEF Validate
  <2>4. PICK matching \in MatchingSets(checked) :
          /\ validated' = validated \cup matching
          /\ task' = [task EXCEPT
               ![t] = Route([r EXCEPT !.passed = (matching = checked)], "finalize")]
    BY <2>3
  <2>5. checked # {} /\ checked \subseteq orders
    BY <2>2 DEF CheckedSets, Ordered
  <2> DEFINE q == [r EXCEPT !.passed = (matching = checked)]
  <2>6. q \in Task /\ (q.passed <=> matching = checked)
    BY <1>1 DEF Task
  <2>7. "finalize" \in Successors
    BY DEF Successors
  <2>8. PICK n : n = Route(q, "finalize")
    OBVIOUS
  <2>9. task' = [task EXCEPT ![t] = n]
    BY <2>4, <2>8
  <2> HIDE DEF q
  <2>10. /\ ~Reached(n, "validate")
         /\ Reached(n, "finalize") /\ n.passed => matching = checked
    BY <2>6, <2>7, <2>8, RouteEnds
  <2>11. matching = checked => SomeValidated'
    BY <2>1, <2>4, <2>5 DEF SomeValidated
  <2>12. EndActs(n)'
    BY <2>10, <2>11 DEF EndActs
  <2> QED
    BY <1>3, <2>1, <2>9, <2>12
<1>18. CASE Retry(t)
  <2>1. ckpt' = ckpt
    BY <1>18 DEF Retry
  <2>2. CASE task' = [task EXCEPT ![t] = IdleTask]
    BY <1>4, <1>6, <2>1, <2>2
  <2>3. CASE task' # [task EXCEPT ![t] = IdleTask]
    <3> DEFINE n(e) == [r EXCEPT !.pc = "retrying", !.direct = TRUE, !.dec = LatestDecision,
                          !.evidence = e,
                          !.answer = [choice |-> "APPROVE", version |-> LatestRequest],
                          !.replaced = (requests[LatestRequest] = "SUPERSEDED")]
    <3>1. PICK e \in Collected : task' = [task EXCEPT ![t] = n(e)]
      BY <1>1, <1>18, <2>3 DEF Retry
    <3>2. n(e).pc = "retrying"
      BY <1>1 DEF Task
    <3> HIDE DEF n
    <3>3. ~Ends(n(e))
      BY <3>2 DEF Ends, Reached
    <3> QED
      BY <1>4, <2>1, <3>1, <3>3
  <2> QED
    BY <2>2, <2>3
<1>19. CASE \/ RetrySuperseded(t) \/ TaskFails(t) \/ TraceTaken(t)
            \/ \E k \in Lines : LineFails(t, k)
  BY <1>4, <1>6, <1>19 DEF RetrySuperseded, TaskFails, TraceTaken, LineFails, Fail
<1> QED
  BY <1>7, <1>8, <1>9, <1>10, <1>11, <1>12, <1>13, <1>14, <1>15, <1>16, <1>17, <1>18, <1>19
     DEF TaskProgress

\* A review is completed by _finalize, or by a decision that needs no order.
LEMMA CompletionStep ==
  ASSUME IInv, EndInv, [Next]_vars, status' = "COMPLETED", status # "COMPLETED"
  PROVE  SomeValidated' \/ SomeRejects'
<1> USE DEF rows
<1>1. PICK t \in Tasks : TaskProgress(t)
  BY DEF Next, vars, ReceiveAnswer, RecordAnswer, RequestRetry, FactsChange, Crash
<1> DEFINE r == task[t]
<1>2. TypeOK /\ EndActs(r)
  BY DEF IInv, EndInv, TasksEnd
<1>3. ASSUME NEW d, NEW v \in Versions, OutcomeStatus(d) = "COMPLETED",
             decisions' = [decisions EXCEPT ![v] = d], d \in Decision
      PROVE  SomeRejects'
  <2>1. d.type = "REJECT"
    BY <1>3 DEF OutcomeStatus
  <2>2. decisions'[v] = d /\ d # NoDecision
    BY <1>2, <1>3, NoDecisionAssumption DEF TypeOK
  <2> QED
    BY <2>1, <2>2 DEF SomeRejects
<1>4. Decide(r.evidence) \in Decision
  BY <1>2, DecideType DEF TypeOK, Task
<1>5. CASE Evaluate(t)
  <2>1. r.dec \in Versions
    BY <1>5 DEF Evaluate, IInv, TasksNameRows, TaskNamesVersion, DecidedPCs
  <2> QED
    BY <1>3, <1>4, <1>5, <2>1 DEF Evaluate, Fail
<1>6. CASE RecheckChanged(t)
  BY <1>3, <1>4, <1>6 DEF RecheckChanged, Fail
<1>7. CASE Finalize(t)
  <2>1. r.pc = "finalize" /\ r.passed
    BY <1>7 DEF Finalize
  <2>2. SomeValidated
    BY <1>2, <2>1 DEF EndActs, Reached
  <2> QED
    BY <2>2, EndsStay
<1> QED
  BY <1>1, <1>5, <1>6, <1>7 DEF TaskProgress, Start, Resume, SaveCheckpoint, Prepare, Prevalidate,
     RecheckUnchanged, Execute, ActionRefused, PlaceOrders, Validate, Retry, RetrySuperseded,
     RetryUnchanged, TaskFails, LineFails, TraceTaken, Fail, Assign

LEMMA EndNext == IInv /\ EndInv /\ [Next]_vars => EndInv'
<1> SUFFICES ASSUME IInv, EndInv, [Next]_vars PROVE EndInv'
  OBVIOUS
<1>1. /\ \A v : Ordered(v) => Ordered(v)'
      /\ SomeValidated => SomeValidated'
      /\ SomeRejects => SomeRejects'
  BY EndsStay
<1>2. task \in [Tasks -> Task] /\ TasksEnd /\ CheckpointEnds
  BY DEF IInv, TypeOK, EndInv
<1>3. \A u \in Tasks : task'[u] = task[u] => EndActs(task[u])'
  BY <1>1, <1>2 DEF TasksEnd, EndActs
<1>4. ckpt' = ckpt => CheckpointEnds'
  BY <1>1, <1>2 DEF CheckpointEnds
<1>5. CompletionEnds'
  BY <1>1, CompletionStep DEF EndInv, CompletionEnds
<1> SUFFICES TasksEnd' /\ CheckpointEnds'
  BY <1>5 DEF EndInv
<1>6. ASSUME NEW t \in Tasks, TaskProgress(t) PROVE TasksEnd' /\ CheckpointEnds'
  <2>1. PICK new : task' = [task EXCEPT ![t] = new] /\ EndActs(new)' /\ CheckpointEnds'
    BY <1>6, TaskStepEnds
  <2>2. task'[t] = new /\ \A u \in Tasks \ {t} : task'[u] = task[u]
    BY <1>2, <2>1
  <2>3. \A u \in Tasks : EndActs(task[u])'
    BY <1>3, <2>1, <2>2 DEF EndActs
  <2> QED
    BY <2>1, <2>3 DEF TasksEnd
<1>7. ASSUME NEW t \in Tasks, NEW n, task' = [task EXCEPT ![t] = n],
             n.pc \in {"resume", "retry"}, ckpt' = ckpt
      PROVE  TasksEnd' /\ CheckpointEnds'
  <2>1. task'[t] = n /\ \A u \in Tasks \ {t} : task'[u] = task[u]
    BY <1>2, <1>7
  <2>2. EndActs(task[t])'
    BY <1>7, <2>1 DEF EndActs, Reached
  <2> QED
    BY <1>3, <1>4, <1>7, <2>1, <2>2 DEF TasksEnd
<1>8. CASE \E h \in Handlers : RecordAnswer(h)
  <2>1. PICK h \in Handlers, t \in Tasks :
          /\ task' = [task EXCEPT ![t] = [IdleTask EXCEPT !.pc = "resume", !.answer = handler[h]]]
          /\ ckpt' = ckpt
    BY <1>8 DEF RecordAnswer
  <2>2. PICK n : n = [IdleTask EXCEPT !.pc = "resume", !.answer = handler[h]]
    OBVIOUS
  <2>3. n.pc = "resume" /\ task' = [task EXCEPT ![t] = n]
    BY <2>1, <2>2 DEF IdleTask
  <2> QED
    BY <1>7, <2>1, <2>3
<1>9. CASE RequestRetry
  <2>1. PICK t \in Tasks : /\ task' = [task EXCEPT ![t] = [IdleTask EXCEPT !.pc = "retry"]]
                           /\ ckpt' = ckpt
    BY <1>9 DEF RequestRetry
  <2>2. PICK n : n = [IdleTask EXCEPT !.pc = "retry"]
    OBVIOUS
  <2>3. n.pc = "retry" /\ task' = [task EXCEPT ![t] = n]
    BY <2>1, <2>2 DEF IdleTask
  <2> QED
    BY <1>7, <2>1, <2>3
<1>10. CASE Crash
  <2>1. \A u \in Tasks : task'[u] = IdleTask
    BY <1>10 DEF Crash
  <2>2. TasksEnd'
    BY <2>1 DEF TasksEnd, EndActs, Reached, IdleTask
  <2> QED
    BY <1>4, <1>10, <2>2 DEF Crash
<1>11. CASE UNCHANGED vars \/ FactsChange \/ \E h \in Handlers : ReceiveAnswer(h)
  <2>1. task' = task /\ ckpt' = ckpt
    BY <1>11 DEF vars, FactsChange, ReceiveAnswer
  <2> QED
    BY <1>3, <1>4, <2>1 DEF TasksEnd
<1> QED
  BY <1>6, <1>8, <1>9, <1>10, <1>11 DEF Next

LEMMA EndInit == Init => EndInv
<1> SUFFICES ASSUME Init PROVE EndInv
  OBVIOUS
<1>1. PICK t \in Tasks :
        task = [u \in Tasks |-> IF u = t THEN [IdleTask EXCEPT !.pc = "start"] ELSE IdleTask]
  BY DEF Init
<1>2. [IdleTask EXCEPT !.pc = "start"].pc = "start" /\ IdleTask.pc = "idle"
  BY DEF IdleTask
<1>3. \A u \in Tasks : task[u].pc \in {"start", "idle"}
  BY <1>1, <1>2
<1>4. TasksEnd
  BY <1>3 DEF TasksEnd, EndActs, Reached
<1> QED
  BY <1>4 DEF Init, EndInv, CheckpointEnds, CompletionEnds

\* What validates has ordered and what completes has validated, also when runs
\* of one thread overlap.
THEOREM EndInvariance == Spec => []EndInv
  BY Invariance, EndInit, EndNext, PTL DEF Spec

-----------------------------------------------------------------------------
(***************************************************************************)
(* As long as no two approval requests have overlapped.                    *)
(*                                                                         *)
(* Then the graph has at most one run that can still move the review: a    *)
(* run, a pending request and an answer in flight pass the turn on to each *)
(* other, and a retry finds that nobody has it.  Two answers in flight     *)
(* give the turn away twice, and none of this holds any more: the          *)
(* invariant is TurnInv, or two requests have overlapped.                  *)
(***************************************************************************)

\* Task r is in the graph, and not merely about to park it.
Running(r) ==
  /\ r.pc \notin {"idle", "retry"}
  /\ ~r.direct
  /\ ~(r.pc = "save" /\ r.next \in Waiting)

\* Task r is retry_execution.
Retrying(r) == r.pc = "retry" \/ r.direct

\* Task r may still make a decision.
Deciding(r) ==
  /\ Running(r)
  /\ \/ r.pc \in {"start", "resume", "prepare", "untraced", "evaluate", "recheck"}
     \/ Reached(r, "prevalidate")

\* Task r comes to the buyer's answer, or acts on it, with the decision it names.
Answering(r) == r.pc = "recheck" \/ Reached(r, "approval") \/ Reached(r, "prevalidate")

NobodyIsAsked == \A v \in Versions : requests[v] # "PENDING"

DecidedUpTo(n) == \A v \in Versions : decisions[v] # NoDecision <=> v <= n

OneRuns == \A t, u \in Tasks : Running(task[t]) /\ Running(task[u]) => t = u

RunsAlone == \A t \in Tasks : Running(task[t]) => NobodyIsAsked /\ DecidedUpTo(version)

OneAnswer ==
  \A g, h \in Handlers : handler[g] # NoAnswer /\ handler[h] # NoAnswer => g = h

AnswersAreAwaited ==
  \A h \in Handlers : handler[h] # NoAnswer => requests[handler[h].version] = "PENDING"

NewestIsAsked ==
  \A v \in Versions : requests[v] = "PENDING" => v = version /\ DecidedUpTo(version)

\* The graph has come to its end and nothing will start it again.
Settled ==
  /\ NobodyIsAsked /\ DecidedUpTo(version)
  /\ \A t \in Tasks : ~Running(task[t])

RetriesAreSettled ==
  (status = "AWAITING_EXECUTION_RETRY" \/ \E t \in Tasks : Retrying(task[t])) => Settled

AllValidated == orders # {} /\ orders \subseteq validated

\* What a task has read or done still stands.
TaskActs(r) ==
  /\ r.direct => r.pc \in {"retrying", "execute", "acting", "validate", "finalize"}
  /\ r.pc = "evaluate" => r.dec = version + 1
  /\ r.pc = "acting" => r.dec = version
  /\ Answering(r) => r.dec <= version
  /\ Reached(r, "validate") => orders # {}
  /\ Reached(r, "finalize") => orders # {} /\ (r.passed => AllValidated)

TasksAct == \A t \in Tasks : TaskActs(task[t])

\* The ordered version is the last one there will be.
OrderedIsLast ==
  orders # {} =>
    /\ NobodyIsAsked /\ DecidedUpTo(version)
    /\ \A o \in orders : o[1] = version
    /\ \A t \in Tasks : ~Deciding(task[t])

CheckpointActs ==
  /\ ckpt.node \in {"approval", "prevalidate"} => ckpt.dec <= version
  /\ ckpt.node \in {"validate", "finalize"} => orders # {}

\* Nothing is COMPLETED but a review whose orders are validated or not needed.
CompletionActs ==
  status = "COMPLETED" =>
    \/ AllValidated
    \/ LatestDecision # 0 /\ decisions[LatestDecision].type = "REJECT"

TurnInv ==
  /\ OneRuns /\ RunsAlone
  /\ OneAnswer /\ AnswersAreAwaited /\ NewestIsAsked
  /\ RetriesAreSettled
  /\ TasksAct
  /\ OrderedIsLast /\ CheckpointActs
  /\ CompletionActs

TurnsPass == overlapped \/ TurnInv

\* The latest decision, when the decided versions have no gap.
LEMMA LatestOfDecided ==
  ASSUME NEW D, NEW n \in 0..MaxVersion,
         \A v \in Versions : D[v] # NoDecision <=> v <= n
  PROVE  n = CHOOSE v \in 0..MaxVersion :
               /\ v = 0 \/ D[v] # NoDecision
               /\ \A w \in Versions : D[w] # NoDecision => w <= v
<1> DEFINE P(v) == /\ v = 0 \/ D[v] # NoDecision
                   /\ \A w \in Versions : D[w] # NoDecision => w <= v
<1>1. MaxVersion \in Nat
  BY BoundsAssumption
<1>2. P(n)
  BY <1>1 DEF Versions
<1>3. ASSUME NEW v \in 0..MaxVersion, P(v) PROVE v = n
  <2>1. v <= n
    BY <1>1, <1>3 DEF Versions
  <2>2. n <= v
    BY <1>1, <1>2, <1>3 DEF Versions
  <2> QED
    BY <1>1, <2>1, <2>2
<1> HIDE DEF P
<1>4. n = CHOOSE v \in 0..MaxVersion : P(v)
  BY <1>2, <1>3
<1> QED
  BY <1>4 DEF P

\* Where Route takes a task.
LEMMA RouteActs ==
  ASSUME NEW r \in Task, NEW node \in Successors
  PROVE  /\ Route(r, node).pc \in {"idle", "save", node}
         /\ Route(r, node).direct => r.direct /\ Route(r, node).pc = node /\ node \notin Waiting
         /\ Running(Route(r, node)) => ~r.direct /\ node \notin Waiting
         /\ Deciding(Route(r, node)) => ~r.direct /\ node = "prevalidate"
         /\ Retrying(Route(r, node)) => r.direct
         /\ \A x \in {"validate", "finalize"} : Reached(Route(r, node), x) => x = node
         /\ Answering(Route(r, node)) =>
              node \in {"approval", "prevalidate"} /\ Route(r, node).dec = r.dec
<1>1. node # "retry" /\ node \notin {"idle", "save", "start", "resume", "prepare", "untraced", "evaluate", "recheck"}
  BY DEF Successors
<1>2. CASE r.direct /\ node \in Waiting
  <2>1. Route(r, node) = IdleTask
    BY <1>2 DEF Route
  <2> QED
    BY <2>1 DEF IdleTask, Running, Deciding, Retrying, Reached, Answering
<1>3. CASE r.direct /\ node \notin Waiting
  <2> DEFINE n == Route(r, node)
  <2>1. n.pc = node /\ n.direct /\ n.dec = r.dec
    BY <1>3 DEF Route, Task
  <2> QED
    BY <1>1, <1>3, <2>1 DEF Running, Deciding, Retrying, Reached, Answering
<1>4. CASE ~r.direct
  <2> DEFINE n == Route(r, node)
  <2>1. n.pc = "save" /\ n.next = node /\ ~n.direct /\ n.dec = r.dec
    BY <1>4 DEF Route, Task
  <2> QED
    BY <1>1, <1>4, <2>1 DEF Running, Deciding, Retrying, Reached, Answering
<1> QED
  BY <1>2, <1>3, <1>4

\* A node that decides nothing, orders nothing and validates nothing.
LEMMA RouteKeeps ==
  ASSUME NEW r \in Task, NEW node \in {"prevalidate", "execute", "end"},
         r.pc \notin {"idle", "retry", "save"}, r.direct => TaskActs(r),
         node = "prevalidate" => r.pc = "resume" /\ r.dec <= version
  PROVE  /\ Running(Route(r, node)) => Running(r)
         /\ Deciding(Route(r, node)) => Deciding(r)
         /\ Retrying(Route(r, node)) => Retrying(r)
         /\ TaskActs(Route(r, node))
<1> DEFINE n == Route(r, node)
<1>1. /\ n.pc \in {"idle", "save", node}
      /\ n.direct => r.direct /\ n.pc = node /\ node \notin Waiting
      /\ Running(n) => ~r.direct
      /\ Deciding(n) => ~r.direct /\ node = "prevalidate"
      /\ Retrying(n) => r.direct
      /\ \A x \in {"validate", "finalize"} : Reached(n, x) => x = node
      /\ Answering(n) => node = "prevalidate" /\ n.dec = r.dec
  BY RouteActs DEF Successors
<1>2. node \in {"prevalidate", "execute", "end"}
  OBVIOUS
<1> HIDE DEF n
<1>3. n.direct => n.pc = "execute"
  BY <1>1, <1>2 DEF TaskActs, Waiting
<1>4. TaskActs(n)
  BY <1>1, <1>2, <1>3 DEF TaskActs
<1>5. /\ Running(n) => Running(r)
      /\ Deciding(n) => Deciding(r)
      /\ Retrying(n) => Retrying(r)
  BY <1>1 DEF Running, Deciding, Retrying
<1> QED
  BY <1>4, <1>5 DEF n

\* A step of task t that leaves the rows and hands nobody the turn.
QuietStep(t) ==
  /\ UNCHANGED <<version, rows, handler>>
  /\ \A u \in Tasks \ {t} : task'[u] = task[u]
  /\ Running(task'[t]) => Running(task[t])
  /\ Deciding(task'[t]) => Deciding(task[t])
  /\ Retrying(task'[t]) => Retrying(task[t])
  /\ TaskActs(task'[t])
  /\ status' = "AWAITING_EXECUTION_RETRY" =>
       \/ status = "AWAITING_EXECUTION_RETRY" \/ Retrying(task[t])
       \/ Running(task[t]) /\ ~Running(task'[t])
  /\ status' = "COMPLETED" => status = "COMPLETED" \/ AllValidated
  /\ ckpt'.node \in {"approval", "prevalidate"} => ckpt'.dec <= version
  /\ ckpt'.node \in {"validate", "finalize"} => orders # {}

\* An idle task does nothing.
LEMMA IdleActs ==
  /\ ~Running(IdleTask) /\ ~Deciding(IdleTask) /\ ~Retrying(IdleTask) /\ TaskActs(IdleTask)
BY DEF IdleTask, Running, Deciding, Retrying, TaskActs, Reached, Answering

\* An exception.
LEMMA FailIsQuiet ==
  ASSUME TypeOK, CheckpointActs, NEW t \in Tasks, Fail(t), UNCHANGED handler
  PROVE  QuietStep(t)
<1>1. task'[t] = IdleTask /\ \A u \in Tasks \ {t} : task'[u] = task[u]
  BY DEF Fail, TypeOK
<1> QED
  BY <1>1, IdleActs DEF Fail, QuietStep, CheckpointActs

\* Most steps of a task are quiet.
LEMMA TaskIsQuiet ==
  ASSUME IInv, TurnInv, NEW t \in Tasks, TaskProgress(t)
  PROVE  \/ QuietStep(t)
         \/ Evaluate(t) \/ RecheckChanged(t)
         \/ PlaceOrders(t) \/ Validate(t) \/ RetrySuperseded(t)
<1> DEFINE r == task[t]
<1> USE DEF rows
<1>1. /\ TypeOK /\ CheckpointActs
      /\ task \in [Tasks -> Task] /\ r \in Task
      /\ TaskActs(r)
      /\ UNCHANGED handler
  BY DEF IInv, TypeOK, TurnInv, TasksAct, TaskProgress
<1>2. ASSUME NEW new, task' = [task EXCEPT ![t] = new]
      PROVE  task'[t] = new /\ \A u \in Tasks \ {t} : task'[u] = task[u]
  BY <1>1, <1>2
<1>3. CASE Start(t)
  <2> DEFINE n == [r EXCEPT !.pc = "prepare"]
  <2>1. task' = [task EXCEPT ![t] = n] /\ r.pc = "start"
    BY <1>1, <1>3 DEF Start
  <2>2. n.pc = "prepare" /\ n.direct = r.direct
    BY <1>1 DEF Task
  <2> HIDE DEF n
  <2>3. /\ Running(n) => Running(r)
        /\ Deciding(n) => Deciding(r)
        /\ Retrying(n) => Retrying(r)
        /\ TaskActs(n)
    BY <1>1, <2>1, <2>2 DEF Running, Deciding, Retrying, TaskActs, Reached, Answering
  <2>4. ckpt'.node = "prepare"
    BY <1>1, <1>3 DEF Start, TypeOK
  <2> QED
    BY <1>1, <1>2, <1>3, <2>1, <2>3, <2>4 DEF Start, QuietStep
<1>4. CASE Resume(t)
  <2> DEFINE loaded == [r EXCEPT !.dec = ckpt.dec, !.passed = ckpt.passed]
             on == [loaded EXCEPT !.pc = ckpt.node, !.answer = ckpt.answer]
  <2>1. ckpt \in [node : Nodes, dec : 0..MaxVersion, answer : Answers, passed : BOOLEAN]
    BY <1>1 DEF TypeOK
  <2>2. /\ loaded \in Task /\ loaded.pc = r.pc /\ loaded.direct = r.direct
        /\ loaded.dec = ckpt.dec
    BY <1>1, <2>1 DEF Task
  <2>3. on.pc = ckpt.node /\ on.direct = r.direct /\ on.dec = ckpt.dec
    BY <1>1 DEF Task
  <2>4. r.pc = "resume" /\ ~r.direct /\ Running(r) /\ Deciding(r)
    BY <1>1, <1>4 DEF Resume, TaskActs, Running, Deciding
  <2>5. orders = {} /\ ckpt.node \notin {"validate", "finalize"}
    BY <1>1, <2>4 DEF TurnInv, OrderedIsLast, CheckpointActs
  <2>6. PICK n : /\ task' = [task EXCEPT ![t] = n]
                 /\ \/ n = Route(loaded, "prevalidate") /\ ckpt.node = "approval"
                    \/ n = IdleTask
                    \/ n = on /\ ckpt.node \notin {"approval", "none", "end"}
    BY <1>4 DEF Resume
  <2>7. ~Retrying(n) /\ TaskActs(n)
    <3>1. CASE n = Route(loaded, "prevalidate") /\ ckpt.node = "approval"
      BY <1>1, <2>2, <2>4, <3>1, RouteKeeps DEF CheckpointActs, Retrying
    <3>2. CASE n = IdleTask
      BY <3>2, IdleActs
    <3>3. CASE n = on /\ ckpt.node \notin {"approval", "none", "end"}
      <4>1. ckpt.node \in {"prepare", "prevalidate", "execute"}
        BY <2>1, <2>5, <3>3 DEF Nodes
      <4> HIDE DEF on
      <4> QED
        BY <1>1, <2>3, <2>4, <3>3, <4>1 DEF CheckpointActs, Retrying, TaskActs, Reached,
           Answering
    <3> QED
      BY <2>6, <3>1, <3>2, <3>3
  <2> HIDE DEF loaded, on
  <2> QED
    BY <1>1, <1>2, <1>4, <2>4, <2>5, <2>6, <2>7 DEF Resume, QuietStep, CheckpointActs
<1>5. CASE SaveCheckpoint(t)
  <2> DEFINE on == [r EXCEPT !.pc = r.next, !.next = "none"]
  <2>1. r.pc = "save" /\ ~r.direct /\ r.next \in Successors
    BY <1>1, <1>5 DEF SaveCheckpoint, TaskActs, IInv, TasksNameRows, TaskNamesVersion
  <2>2. on.pc = r.next /\ on.direct = r.direct /\ on.dec = r.dec /\ on.passed = r.passed
    BY <1>1 DEF Task
  <2>3. ckpt'.node = r.next /\ ckpt'.dec = r.dec
    BY <1>5 DEF SaveCheckpoint
  <2>4. PICK n : /\ task' = [task EXCEPT ![t] = n]
                 /\ n = IdleTask \/ (n = on /\ r.next \notin Waiting)
    BY <1>5 DEF SaveCheckpoint
  <2>5. /\ r.next \in {"approval", "prevalidate"} => r.dec <= version
        /\ r.next \in {"validate", "finalize"} => orders # {}
    BY <1>1, <2>1 DEF TaskActs, Reached, AllValidated, Answering
  <2> HIDE DEF on
  <2>6. CASE n = IdleTask
    BY <1>1, <1>2, <1>5, <2>3, <2>4, <2>5, <2>6, IdleActs DEF SaveCheckpoint, QuietStep
  <2>7. CASE n = on /\ r.next \notin Waiting
    <3>1. r.next \in {"prevalidate", "execute", "validate", "finalize"}
      BY <2>1, <2>7 DEF Successors, Waiting
    <3>2. Running(r) /\ (r.next = "prevalidate" => Deciding(r))
      BY <2>1, <2>7 DEF Running, Deciding, Reached
    <3>3. Deciding(n) => r.next = "prevalidate"
      BY <2>2, <2>7, <3>1 DEF Deciding, Reached
    <3>4. ~Retrying(n) /\ TaskActs(n)
      BY <1>1, <2>1, <2>2, <2>7, <3>1 DEF Retrying, TaskActs, Reached, Answering
    <3> QED
      BY <1>1, <1>2, <1>5, <2>3, <2>4, <2>5, <3>2, <3>3, <3>4 DEF SaveCheckpoint, QuietStep
  <2> QED
    BY <2>4, <2>6, <2>7
<1>6. CASE Prepare(t)
  <2>1. r.pc = "prepare" /\ ~r.direct /\ Running(r) /\ Deciding(r)
    BY <1>1, <1>6 DEF Prepare, TaskActs, Running, Deciding
  <2>2. PICK n : /\ task' = [task EXCEPT ![t] = n]
                 /\ ~Retrying(n) /\ TaskActs(n)
    <3>1. ASSUME NEW e \in Collected,
                 task' = [task EXCEPT ![t].pc = "evaluate", ![t].evidence = e,
                                      ![t].dec = version + 1]
          PROVE  \E n : /\ task' = [task EXCEPT ![t] = n]
                        /\ ~Retrying(n) /\ TaskActs(n)
      <4> DEFINE n == [r EXCEPT !.pc = "evaluate", !.evidence = e, !.dec = version + 1]
      <4>1. n.pc = "evaluate" /\ n.dec = version + 1 /\ n.direct = r.direct
        BY <1>1 DEF Task
      <4>2. task' = [task EXCEPT ![t] = n]
        BY <1>1, <3>1
      <4> HIDE DEF n
      <4>3. ~Retrying(n) /\ TaskActs(n)
        BY <2>1, <4>1 DEF Retrying, TaskActs, Reached, Answering
      <4> QED
        BY <4>2, <4>3
    <3>2. ASSUME task' = [task EXCEPT ![t].pc = "untraced"]
          PROVE  \E n : /\ task' = [task EXCEPT ![t] = n]
                        /\ ~Retrying(n) /\ TaskActs(n)
      <4> DEFINE n == [r EXCEPT !.pc = "untraced"]
      <4>1. n.pc = "untraced" /\ n.direct = r.direct
        BY <1>1 DEF Task
      <4>2. task' = [task EXCEPT ![t] = n]
        BY <1>1, <3>2
      <4> HIDE DEF n
      <4>3. ~Retrying(n) /\ TaskActs(n)
        BY <2>1, <4>1 DEF Retrying, TaskActs, Reached, Answering
      <4> QED
        BY <4>2, <4>3
    <3> QED
      BY <1>6, <3>1, <3>2 DEF Prepare
  <2>3. status' = "COLLECTING_EVIDENCE" /\ UNCHANGED <<version, rows, ckpt>>
    BY <1>6 DEF Prepare
  <2> QED
    BY <1>1, <1>2, <2>1, <2>2, <2>3 DEF QuietStep, CheckpointActs
<1>7. CASE Prevalidate(t)
  <2>1. r.pc = "prevalidate" /\ ~r.direct /\ Running(r) /\ Deciding(r)
    BY <1>1, <1>7 DEF Prevalidate, TaskActs, Running, Deciding, Reached
  <2>2. PICK n : /\ task' = [task EXCEPT ![t] = n]
                 /\ ~Retrying(n) /\ TaskActs(n)
    <3>1. CASE task' = [task EXCEPT ![t] = Route(r, "end")]
      BY <1>1, <2>1, <3>1, RouteKeeps DEF Retrying
    <3>2. ASSUME NEW e \in Collected,
                 task' = [task EXCEPT ![t].pc = "recheck", ![t].seen = status,
                                      ![t].evidence = e]
          PROVE  \E n : /\ task' = [task EXCEPT ![t] = n]
                        /\ ~Retrying(n) /\ TaskActs(n)
      <4> DEFINE n == [r EXCEPT !.pc = "recheck", !.seen = status, !.evidence = e]
      <4>1. n.pc = "recheck" /\ n.direct = r.direct /\ n.dec = r.dec
        BY <1>1 DEF Task
      <4>2. task' = [task EXCEPT ![t] = n]
        BY <1>1, <3>2
      <4> HIDE DEF n
      <4>3. ~Retrying(n) /\ TaskActs(n)
        BY <1>1, <2>1, <4>1 DEF Retrying, TaskActs, Reached, Answering
      <4> QED
        BY <4>2, <4>3
    <3> QED
      BY <1>7, <3>1, <3>2 DEF Prevalidate
  <2>3. status' \in {status, "REJECTED_BY_BUYER"}
    BY <1>7 DEF Prevalidate
  <2> QED
    BY <1>1, <1>2, <1>7, <2>1, <2>2, <2>3 DEF Prevalidate, QuietStep, CheckpointActs
<1>8. CASE RecheckUnchanged(t)
  <2>1. r.pc = "recheck" /\ task' = [task EXCEPT ![t] = Route(r, "execute")]
    BY <1>8 DEF RecheckUnchanged
  <2>2. status' \in {status, "EXECUTING"}
    BY <1>8 DEF RecheckUnchanged, Assign
  <2>3. /\ Running(Route(r, "execute")) => Running(r)
        /\ Deciding(Route(r, "execute")) => Deciding(r)
        /\ Retrying(Route(r, "execute")) => Retrying(r)
        /\ TaskActs(Route(r, "execute"))
    BY <1>1, <2>1, RouteKeeps
  <2> QED
    BY <1>1, <1>2, <1>8, <2>1, <2>2, <2>3 DEF RecheckUnchanged, QuietStep, CheckpointActs
<1>9. ASSUME r.pc \notin {"idle", "retry", "save"},
             task' = [task EXCEPT ![t] = Route(r, "end")]
      PROVE  /\ ~Running(task'[t]) /\ ~Deciding(task'[t])
             /\ Retrying(task'[t]) => Retrying(r)
             /\ TaskActs(task'[t])
             /\ \A u \in Tasks \ {t} : task'[u] = task[u]
             /\ Running(r) \/ Retrying(r)
  <2>1. "end" \in Successors /\ "end" \in Waiting
    BY DEF Successors, Waiting
  <2>2. ~Running(Route(r, "end")) /\ ~Deciding(Route(r, "end"))
    BY <1>1, <2>1, RouteActs
  <2>3. (Retrying(Route(r, "end")) => Retrying(r)) /\ TaskActs(Route(r, "end"))
    BY <1>1, <1>9, <2>1, RouteKeeps
  <2>4. Running(r) \/ Retrying(r)
    BY <1>9 DEF Running, Retrying
  <2> QED
    BY <1>2, <1>9, <2>2, <2>3, <2>4
<1>10. CASE Execute(t)
  <2>1. CASE task' = [task EXCEPT ![t] = Route(r, "end")] /\ status' = "NEEDS_ATTENTION"
    BY <1>1, <1>9, <1>10, <2>1 DEF Execute, QuietStep, CheckpointActs
  <2>2. CASE /\ GuardHolds(r.dec) /\ status' = status
             /\ task' = [task EXCEPT ![t].pc = "acting", ![t].seen = status]
    <3> DEFINE n == [r EXCEPT !.pc = "acting", !.seen = status]
    <3>1. n.pc = "acting" /\ n.direct = r.direct /\ n.dec = r.dec
      BY <1>1 DEF Task
    <3>2. task' = [task EXCEPT ![t] = n]
      BY <1>1, <2>2
    <3> HIDE DEF n
    <3>3. r.pc = "execute" /\ r.dec = version
      BY <1>10, <2>2 DEF Execute, GuardHolds
    <3>4. /\ Running(n) => Running(r)
          /\ ~Deciding(n)
          /\ Retrying(n) => Retrying(r)
          /\ TaskActs(n)
      BY <3>1, <3>3 DEF Running, Deciding, Retrying, TaskActs, Reached, Answering
    <3> QED
      BY <1>1, <1>2, <1>10, <2>2, <3>2, <3>4 DEF Execute, QuietStep, CheckpointActs
  <2> QED
    BY <1>10, <2>1, <2>2 DEF Execute
<1>11. CASE ActionRefused(t)
  <2>1. status' \in {status, "AWAITING_EXECUTION_RETRY"}
    BY <1>11 DEF ActionRefused, Assign
  <2> QED
    BY <1>1, <1>9, <1>11, <2>1 DEF ActionRefused, QuietStep, CheckpointActs
<1>12. CASE Finalize(t)
  <2>1. status' = "COMPLETED" => AllValidated
    BY <1>1, <1>12 DEF Finalize, TaskActs, Reached, Answering
  <2> QED
    BY <1>1, <1>9, <1>12, <2>1 DEF Finalize, QuietStep, CheckpointActs
<1>13. CASE Retry(t)
  <2>1. r.pc = "retry" /\ Retrying(r)
    BY <1>13 DEF Retry, Retrying
  <2>2. PICK n : /\ task' = [task EXCEPT ![t] = n]
                 /\ ~Running(n) /\ ~Deciding(n) /\ TaskActs(n)
    <3>1. CASE task' = [task EXCEPT ![t] = IdleTask]
      BY <3>1, IdleActs
    <3>2. ASSUME NEW e \in Collected, NEW a, NEW d, NEW b,
                 task' = [task EXCEPT ![t] = [@ EXCEPT !.pc = "retrying", !.direct = TRUE,
                                                      !.dec = d, !.evidence = e, !.answer = a,
                                                      !.replaced = b]]
          PROVE  \E n : /\ task' = [task EXCEPT ![t] = n]
                        /\ ~Running(n) /\ ~Deciding(n) /\ TaskActs(n)
      <4> DEFINE n == [r EXCEPT !.pc = "retrying", !.direct = TRUE, !.dec = d,
                                !.evidence = e, !.answer = a, !.replaced = b]
      <4>1. n.pc = "retrying" /\ n.direct = TRUE
        BY <1>1 DEF Task
      <4>2. task' = [task EXCEPT ![t] = n]
        BY <1>1, <3>2
      <4> HIDE DEF n
      <4>3. ~Running(n) /\ ~Deciding(n) /\ TaskActs(n)
        BY <4>1 DEF Running, Deciding, TaskActs, Reached, Answering
      <4> QED
        BY <4>2, <4>3
    <3>3. CASE task' # [task EXCEPT ![t] = IdleTask]
      <4> DEFINE a == [choice |-> "APPROVE", version |-> LatestRequest]
                 b == (requests[LatestRequest] = "SUPERSEDED")
      <4>1. PICK e \in Collected :
              task' = [task EXCEPT ![t] = [@ EXCEPT !.pc = "retrying", !.direct = TRUE,
                                             !.dec = LatestDecision, !.evidence = e,
                                             !.answer = a, !.replaced = b]]
        BY <1>13, <3>3 DEF Retry
      <4> HIDE DEF a, b
      <4> QED
        BY <3>2, <4>1
    <3> QED
      BY <3>1, <3>3
  <2> QED
    BY <1>1, <1>2, <1>13, <2>1, <2>2 DEF Retry, QuietStep, CheckpointActs
<1>14. CASE RetryUnchanged(t)
  <2>1. r.pc = "retrying" /\ task' = [task EXCEPT ![t] = Route(r, "execute")]
    BY <1>14 DEF RetryUnchanged
  <2>2. /\ Running(Route(r, "execute")) => Running(r)
        /\ Deciding(Route(r, "execute")) => Deciding(r)
        /\ Retrying(Route(r, "execute")) => Retrying(r)
        /\ TaskActs(Route(r, "execute"))
    BY <1>1, <2>1, RouteKeeps
  <2> QED
    BY <1>1, <1>2, <1>14, <2>1, <2>2 DEF RetryUnchanged, QuietStep, CheckpointActs
<1>15. CASE TraceTaken(t) \/ TaskFails(t) \/ \E k \in Lines : LineFails(t, k)
  BY <1>1, <1>15, FailIsQuiet DEF TraceTaken, TaskFails, LineFails
<1> QED
  BY <1>3, <1>4, <1>5, <1>6, <1>7, <1>8, <1>10, <1>11, <1>12, <1>13, <1>14, <1>15
     DEF TaskProgress

\* A task that is neither in the graph nor a retry has nothing to lose.
LEMMA ParkedActs ==
  ASSUME NEW r, ~Running(r), ~Retrying(r)
  PROVE  /\ ~r.direct /\ r.pc \notin {"evaluate", "acting"}
         /\ ~Reached(r, "validate") /\ ~Reached(r, "finalize")
         /\ Answering(r) => Reached(r, "approval")
BY DEF Running, Retrying, Reached, Waiting, Answering

\* A step of task t that makes no decision: the turn stays where it is or is
\* lost, and orders are placed once and stay.
KeepsTurn(t) ==
  /\ UNCHANGED <<version, decisions, handler>>
  /\ requests' = requests \/ (NobodyIsAsked /\ NobodyIsAsked')
  /\ orders' = orders \/ orders = {}
  /\ validated \subseteq validated'
  /\ orders' # {} =>
       /\ NobodyIsAsked /\ DecidedUpTo(version)
       /\ \A o \in orders' : o[1] = version
       /\ \A u \in Tasks : ~Deciding(task'[u])
  /\ \A u \in Tasks \ {t} : task'[u] = task[u]
  /\ Running(task'[t]) => Running(task[t])
  /\ Retrying(task'[t]) => Retrying(task[t])
  /\ TaskActs(task[t])'
  /\ status' = "AWAITING_EXECUTION_RETRY" =>
       \/ status = "AWAITING_EXECUTION_RETRY" \/ Retrying(task[t])
       \/ Running(task[t]) /\ ~Running(task'[t])
  /\ status' = "COMPLETED" => status = "COMPLETED" \/ AllValidated
  /\ CheckpointActs'

LEMMA QuietKeepsTurn ==
  ASSUME TurnInv, NEW t \in Tasks, QuietStep(t)
  PROVE  KeepsTurn(t)
<1> USE DEF rows
<1>1. UNCHANGED <<version, decisions, requests, orders, validated, handler>>
  BY DEF QuietStep
<1>2. \A u \in Tasks : Deciding(task'[u]) => Deciding(task[u])
  BY DEF QuietStep
<1>3. orders # {} => /\ NobodyIsAsked /\ DecidedUpTo(version)
                     /\ \A o \in orders : o[1] = version
                     /\ \A u \in Tasks : ~Deciding(task[u])
  BY DEF TurnInv, OrderedIsLast
<1>4. TaskActs(task[t])'
  BY <1>1 DEF QuietStep, TaskActs, AllValidated
<1>5. orders' # {} => /\ NobodyIsAsked /\ DecidedUpTo(version)
                      /\ \A o \in orders' : o[1] = version
                      /\ \A u \in Tasks : ~Deciding(task'[u])
  BY <1>1, <1>2, <1>3
<1>6. validated \subseteq validated' /\ CheckpointActs'
  BY <1>1 DEF QuietStep, CheckpointActs
<1>7. /\ \A u \in Tasks \ {t} : task'[u] = task[u]
      /\ Running(task'[t]) => Running(task[t])
      /\ Retrying(task'[t]) => Retrying(task[t])
      /\ status' = "AWAITING_EXECUTION_RETRY" =>
           \/ status = "AWAITING_EXECUTION_RETRY" \/ Retrying(task[t])
           \/ Running(task[t]) /\ ~Running(task'[t])
      /\ status' = "COMPLETED" => status = "COMPLETED" \/ AllValidated
  BY DEF QuietStep
<1> QED
  BY <1>1, <1>4, <1>5, <1>6, <1>7 DEF KeepsTurn

LEMMA TurnKept ==
  ASSUME IInv, TurnInv, NEW t \in Tasks, KeepsTurn(t)
  PROVE  TurnInv'
<1>1. /\ UNCHANGED <<version, decisions, handler>>
      /\ validated \subseteq validated'
      /\ orders # {} => orders' = orders
  BY DEF KeepsTurn
<1>2. \A u \in Tasks : /\ Running(task'[u]) => Running(task[u])
                       /\ Retrying(task'[u]) => Retrying(task[u])
  BY DEF KeepsTurn
<1>3. DecidedUpTo(version)' <=> DecidedUpTo(version)
  BY <1>1 DEF DecidedUpTo
<1>4. \A v \in Versions : requests'[v] = "PENDING" => requests[v] = "PENDING"
  BY DEF KeepsTurn, NobodyIsAsked
<1>5. NobodyIsAsked => NobodyIsAsked'
  BY <1>4 DEF NobodyIsAsked
<1>6. OneRuns' /\ RunsAlone'
  BY <1>1, <1>2, <1>3, <1>5 DEF TurnInv, OneRuns, RunsAlone
<1>7. OneAnswer' /\ AnswersAreAwaited'
  <2>1. \A h \in Handlers : handler[h] # NoAnswer => handler[h].version \in Versions
    BY DEF IInv, HandlersAnswerRequests
  <2>2. OneAnswer /\ AnswersAreAwaited /\ (requests' = requests \/ NobodyIsAsked)
    BY DEF KeepsTurn, TurnInv
  <2> QED
    BY <1>1, <2>1, <2>2 DEF OneAnswer, AnswersAreAwaited, NobodyIsAsked
<1>8. NewestIsAsked'
  BY <1>1, <1>3, <1>4 DEF TurnInv, NewestIsAsked
<1>9. RetriesAreSettled'
  <2>1. Settled => Settled'
    BY <1>2, <1>3, <1>5 DEF Settled
  <2>2. ASSUME status' = "AWAITING_EXECUTION_RETRY" \/ \E u \in Tasks : Retrying(task'[u])
        PROVE  Settled'
    <3>1. CASE status = "AWAITING_EXECUTION_RETRY" \/ \E u \in Tasks : Retrying(task[u])
      BY <2>1, <3>1 DEF TurnInv, RetriesAreSettled
    <3>2. CASE Running(task[t]) /\ ~Running(task'[t])
      <4>1. \A u \in Tasks : ~Running(task'[u])
        BY <1>2, <3>2 DEF TurnInv, OneRuns
      <4>2. NobodyIsAsked /\ DecidedUpTo(version)
        BY <3>2 DEF TurnInv, RunsAlone
      <4> QED
        BY <1>3, <1>5, <4>1, <4>2 DEF Settled
    <3> QED
      BY <1>2, <2>2, <3>1, <3>2 DEF KeepsTurn
  <2> QED
    BY <2>2 DEF RetriesAreSettled
<1>10. TasksAct'
  <2>1. ASSUME NEW u \in Tasks PROVE TaskActs(task[u])'
    <3>1. CASE u = t
      BY <3>1 DEF KeepsTurn
    <3>2. CASE u # t
      <4>1. task'[u] = task[u] /\ TaskActs(task[u])
        BY <3>2 DEF KeepsTurn, TurnInv, TasksAct
      <4>2. (orders # {} => orders' # {}) /\ (AllValidated => AllValidated')
        BY <1>1 DEF AllValidated
      <4> QED
        BY <1>1, <4>1, <4>2 DEF TaskActs
    <3> QED
      BY <3>1, <3>2
  <2> QED
    BY <2>1 DEF TasksAct
<1>11. OrderedIsLast'
  BY <1>1, <1>3, <1>5 DEF KeepsTurn, OrderedIsLast
<1>12. CheckpointActs'
  BY DEF KeepsTurn
<1>13. CompletionActs'
  <2>1. SUFFICES ASSUME status' = "COMPLETED"
                 PROVE  \/ AllValidated'
                        \/ LatestDecision' # 0 /\ decisions'[LatestDecision'].type = "REJECT"
    BY DEF CompletionActs
  <2>2. LatestDecision' = LatestDecision
    BY <1>1 DEF LatestDecision
  <2>3. AllValidated \/ (LatestDecision # 0 /\ decisions[LatestDecision].type = "REJECT")
    <3>1. status = "COMPLETED" \/ AllValidated
      BY <2>1 DEF KeepsTurn
    <3> QED
      BY <3>1 DEF TurnInv, CompletionActs, AllValidated
  <2> QED
    BY <1>1, <2>2, <2>3 DEF AllValidated
<1> QED
  BY <1>6, <1>7, <1>8, <1>9, <1>10, <1>11, <1>12, <1>13 DEF TurnInv

\* Placing the orders keeps the turn.
LEMMA PlaceOrdersKeepsTurn ==
  ASSUME IInv, TurnInv, [Next]_vars, NEW t \in Tasks, TaskProgress(t), PlaceOrders(t)
  PROVE  KeepsTurn(t)
<1> DEFINE r == task[t]
           w == r.dec
<1>1. /\ TypeOK /\ CheckpointActs /\ RequestsHavePlans
      /\ task \in [Tasks -> Task] /\ r \in Task
      /\ TaskActs(r)
      /\ UNCHANGED handler
  BY DEF IInv, TypeOK, TurnInv, TasksAct, TaskProgress
<1>2. CASE Fail(t)
  BY <1>1, <1>2, FailIsQuiet, QuietKeepsTurn
<1>3. CASE ~Fail(t)
  <2>1. /\ r.pc = "acting" /\ w = version
        /\ requests[w] = "APPROVED"
        /\ orders' = orders \cup NewLines(w)
        /\ task' = [task EXCEPT ![t] = Route(r, "validate")]
        /\ status' \in {status, "VALIDATING"}
        /\ UNCHANGED <<version, decisions, requests, validated, ckpt>>
    BY <1>1, <1>3 DEF PlaceOrders, StillApproved, TaskActs, Assign
  <2>2. /\ task'[t] = Route(r, "validate")
        /\ \A u \in Tasks \ {t} : task'[u] = task[u]
    BY <1>1, <2>1
  <2>3. "validate" \in Successors /\ "validate" \notin Waiting
    BY DEF Successors, Waiting
  <2>4. /\ task'[t].pc \in {"idle", "save", "validate"}
        /\ task'[t].direct => r.direct /\ task'[t].pc = "validate"
        /\ Running(task'[t]) => ~r.direct
        /\ ~Deciding(task'[t])
        /\ Retrying(task'[t]) => r.direct
        /\ ~Reached(task'[t], "finalize") /\ ~Answering(task'[t])
    BY <1>1, <2>2, <2>3, RouteActs
  <2>5. Running(r) \/ Retrying(r)
    BY <2>1 DEF Running, Retrying
  <2>6. /\ Running(task'[t]) => Running(r)
        /\ Retrying(task'[t]) => Retrying(r)
    BY <2>1, <2>4 DEF Running, Retrying
  <2>7. NobodyIsAsked /\ DecidedUpTo(version)
    BY <2>5 DEF TurnInv, RunsAlone, RetriesAreSettled, Settled
  <2>8. \A u \in Tasks : ~Deciding(task'[u])
    <3>1. ASSUME NEW u \in Tasks, u # t PROVE ~Deciding(task[u])
      <4>1. ~Running(task[u])
        BY <2>5, <3>1 DEF TurnInv, OneRuns, RetriesAreSettled, Settled
      <4> QED
        BY <4>1 DEF Deciding
    <3> QED
      BY <2>2, <2>4, <3>1
  <2>9. \A o \in orders' : o[1] = version
    BY <2>1 DEF NewLines, PlanLines, TurnInv, OrderedIsLast
  <2>10. orders' # {} /\ (orders' = orders \/ orders = {})
    <3>1. w \in Versions
      BY <2>1 DEF IInv, TasksNameRows, TaskNamesVersion, DecidedPCs
    <3>2. decisions[w].lines # 0 /\ decisions[w].lines \in 0..MaxLines
      BY <1>1, <2>1, <3>1 DEF RequestsHavePlans, TypeOK, Decision
    <3>3. <<w, 1>> \in PlanLines(w)
      BY <3>2, BoundsAssumption DEF PlanLines
    <3>4. <<w, 1>> \in orders'
      BY <2>1, <3>3 DEF NewLines
    <3>5. orders' = orders \/ orders = {}
      BY OrdersStep
    <3> QED
      BY <3>4, <3>5
  <2>11. TaskActs(task[t])'
    BY <2>4, <2>10 DEF TaskActs
  <2>12. /\ UNCHANGED <<version, decisions, handler>>
         /\ requests' = requests /\ validated \subseteq validated'
         /\ CheckpointActs'
         /\ status' = "AWAITING_EXECUTION_RETRY" => status = "AWAITING_EXECUTION_RETRY"
         /\ status' = "COMPLETED" => status = "COMPLETED"
    BY <1>1, <2>1, <2>10 DEF CheckpointActs
  <2> HIDE DEF w
  <2> QED
    BY <2>2, <2>6, <2>7, <2>8, <2>9, <2>10, <2>11, <2>12 DEF KeepsTurn
<1> QED
  BY <1>2, <1>3

\* Validating the orders keeps the turn, and validates all of them.
LEMMA ValidateKeepsTurn ==
  ASSUME IInv, TurnInv, NEW t \in Tasks, TaskProgress(t), Validate(t)
  PROVE  KeepsTurn(t)
<1> DEFINE r == task[t]
<1>1. /\ task \in [Tasks -> Task] /\ r \in Task
      /\ version \in 0..MaxVersion
      /\ TaskActs(r) /\ CheckpointActs
      /\ UNCHANGED handler
  BY DEF IInv, TypeOK, TurnInv, TasksAct, TaskProgress
<1>2. /\ r.pc = "validate" /\ orders # {}
      /\ UNCHANGED <<status, version, decisions, requests, orders, ckpt>>
  BY <1>1 DEF Validate, TaskActs, Reached
<1>3. /\ NobodyIsAsked /\ DecidedUpTo(version)
      /\ \A o \in orders : o[1] = version
      /\ \A u \in Tasks : ~Deciding(task[u])
  BY <1>2 DEF TurnInv, OrderedIsLast
<1>4. LatestDecision = version
  BY <1>1, <1>3, LatestOfDecided DEF LatestDecision, DecidedUpTo
<1>5. {o \in orders : o[1] = LatestDecision} = orders
  BY <1>3, <1>4
<1>6. CheckedSets(r.dec) = {orders}
  BY <1>2, <1>5 DEF CheckedSets
<1>7. PICK checked \in CheckedSets(r.dec) :
        \E matching \in MatchingSets(checked) :
          /\ validated' = validated \cup matching
          /\ task' = [task EXCEPT
               ![t] = Route([r EXCEPT !.passed = (matching = checked)], "finalize")]
  BY DEF Validate
<1>8. PICK b \in BOOLEAN :
        /\ validated \subseteq validated' /\ (b => orders \subseteq validated')
        /\ task' = [task EXCEPT ![t] = Route([r EXCEPT !.passed = b], "finalize")]
  <2>1. PICK matching \in MatchingSets(orders) :
          /\ validated' = validated \cup matching
          /\ task' = [task EXCEPT
               ![t] = Route([r EXCEPT !.passed = (matching = orders)], "finalize")]
    BY <1>6, <1>7
  <2> QED
    BY <2>1
<1> DEFINE q == [r EXCEPT !.passed = b]
<1>9. q \in Task /\ q.direct = r.direct /\ q.passed = b
  BY <1>1 DEF Task
<1>10. "finalize" \in Successors /\ "finalize" \notin Waiting
  BY DEF Successors, Waiting
<1>11. /\ task'[t] = Route(q, "finalize")
       /\ \A u \in Tasks \ {t} : task'[u] = task[u]
  BY <1>1, <1>8
<1> HIDE DEF q
<1>12. /\ task'[t].pc \in {"idle", "save", "finalize"}
       /\ task'[t].direct => task'[t].pc = "finalize"
       /\ Running(task'[t]) => ~r.direct
       /\ ~Deciding(task'[t])
       /\ Retrying(task'[t]) => r.direct
       /\ ~Reached(task'[t], "validate") /\ ~Answering(task'[t])
       /\ Reached(task'[t], "finalize") => task'[t].passed = b
  BY <1>9, <1>10, <1>11, RouteActs, RouteEnds
<1>13. /\ Running(task'[t]) => Running(r)
       /\ Retrying(task'[t]) => Retrying(r)
       /\ \A u \in Tasks : ~Deciding(task'[u])
  BY <1>2, <1>3, <1>11, <1>12 DEF Running, Retrying
<1>14. (b => AllValidated') /\ orders' # {} /\ CheckpointActs'
  BY <1>1, <1>2, <1>8 DEF AllValidated, CheckpointActs
<1>15. TaskActs(task[t])'
  BY <1>12, <1>14 DEF TaskActs
<1> QED
  BY <1>2, <1>1, <1>3, <1>8, <1>11, <1>13, <1>14, <1>15 DEF KeepsTurn

\* Superseding the approval at a retry keeps the turn: nobody has it.
LEMMA RetrySupersededKeepsTurn ==
  ASSUME IInv, TurnInv, NEW t \in Tasks, TaskProgress(t), RetrySuperseded(t)
  PROVE  KeepsTurn(t)
<1>1. /\ task \in [Tasks -> Task]
      /\ requests \in [Versions -> {"NONE", "PENDING", "APPROVED", "REJECTED", "SUPERSEDED"}]
      /\ CheckpointActs /\ UNCHANGED handler
  BY DEF IInv, TypeOK, TurnInv, TaskProgress
<1>2. /\ task[t].pc = "retrying"
      /\ requests' \in {requests, [requests EXCEPT ![task[t].answer.version] = "SUPERSEDED"]}
      /\ status' = "AWAITING_APPROVAL"
      /\ UNCHANGED <<version, decisions, orders, validated, ckpt>>
  BY DEF RetrySuperseded
<1>3. task'[t] = IdleTask /\ \A u \in Tasks \ {t} : task'[u] = task[u]
  BY <1>1 DEF RetrySuperseded
<1>4. NobodyIsAsked
  <2>1. Running(task[t]) \/ Retrying(task[t])
    BY <1>2 DEF Running, Retrying
  <2> QED
    BY <2>1 DEF TurnInv, RunsAlone, RetriesAreSettled, Settled
<1>5. NobodyIsAsked'
  BY <1>1, <1>2, <1>4 DEF NobodyIsAsked
<1>6. ~Running(task'[t]) /\ ~Deciding(task'[t]) /\ ~Retrying(task'[t]) /\ TaskActs(task[t])'
  BY <1>3, IdleActs DEF TaskActs, IdleTask, Reached, Answering
<1>7. orders' # {} => /\ NobodyIsAsked /\ DecidedUpTo(version)
                      /\ \A o \in orders' : o[1] = version
                      /\ \A u \in Tasks : ~Deciding(task'[u])
  BY <1>2, <1>3, <1>6 DEF TurnInv, OrderedIsLast
<1> QED
  BY <1>1, <1>2, <1>3, <1>4, <1>5, <1>6, <1>7 DEF KeepsTurn, CheckpointActs

\* A step of task t that makes the decision d: the next version, and the end
\* of the turn of the graph.
MakesDecision(t, d) ==
  LET v == version + 1 IN
  /\ v \in Versions
  /\ DecidedUpTo(version)
  /\ decisions' = [decisions EXCEPT ![v] = d]
  /\ d \in Decision
  /\ version' \in {version, v} /\ (d.type = "BUY" => version' = v)
  /\ \A u \in Versions : requests'[u] = "PENDING" => u = v /\ d.type = "BUY"
  /\ status' = OutcomeStatus(d)
  /\ \A h \in Handlers : handler'[h] = NoAnswer
  /\ orders' = {} /\ CheckpointActs'
  /\ \A u \in Tasks : /\ ~Running(task'[u]) /\ ~Retrying(task'[u])
                      /\ Answering(task'[u]) => task'[u].dec <= version'

LEMMA DecisionMade ==
  ASSUME TypeOK, NEW t \in Tasks, NEW d, MakesDecision(t, d)
  PROVE  TurnInv'
<1> DEFINE v == version + 1
<1>1. /\ v \in Versions /\ version \in 0..MaxVersion /\ MaxVersion \in Nat
      /\ decisions \in [Versions -> Decision \cup {NoDecision}]
      /\ d # NoDecision
  BY BoundsAssumption, NoDecisionAssumption DEF MakesDecision, TypeOK
<1>2. decisions' = [decisions EXCEPT ![v] = d]
  BY DEF MakesDecision
<1>3. \A u \in Versions : decisions'[u] # NoDecision <=> u <= v
  <2>1. \A u \in Versions : decisions[u] # NoDecision <=> u <= version
    BY DEF MakesDecision, DecidedUpTo
  <2>2. \A u \in Versions : decisions'[u] # NoDecision <=> (u = v \/ decisions[u] # NoDecision)
    BY <1>1, <1>2
  <2> QED
    BY <1>1, <2>1, <2>2 DEF Versions
<1>4. \A u \in Tasks : /\ ~Running(task'[u]) /\ ~Retrying(task'[u])
                       /\ Answering(task'[u]) => task'[u].dec <= version'
  BY DEF MakesDecision
<1>5. OneRuns' /\ RunsAlone'
  BY <1>4 DEF OneRuns, RunsAlone
<1>6. OneAnswer' /\ AnswersAreAwaited'
  BY DEF MakesDecision, OneAnswer, AnswersAreAwaited
<1>7. NewestIsAsked'
  BY <1>3 DEF MakesDecision, NewestIsAsked, DecidedUpTo
<1>8. RetriesAreSettled'
  <2>1. status' # "AWAITING_EXECUTION_RETRY"
    BY DEF MakesDecision, OutcomeStatus, Decision
  <2> QED
    BY <1>4, <2>1 DEF RetriesAreSettled
<1>9. TasksAct'
  <2>1. \A u \in Tasks : /\ ~task'[u].direct /\ task'[u].pc \notin {"evaluate", "acting"}
                         /\ ~Reached(task'[u], "validate") /\ ~Reached(task'[u], "finalize")
    BY <1>4, ParkedActs
  <2> QED
    BY <1>4, <2>1 DEF TasksAct, TaskActs
<1>10. OrderedIsLast' /\ CheckpointActs'
  BY DEF MakesDecision, OrderedIsLast
<1>11. CompletionActs'
  <2>1. SUFFICES ASSUME status' = "COMPLETED"
                 PROVE  LatestDecision' # 0 /\ decisions'[LatestDecision'].type = "REJECT"
    BY DEF CompletionActs
  <2>2. d.type = "REJECT"
    BY <2>1 DEF MakesDecision, OutcomeStatus, Decision
  <2>3. LatestDecision' = v
    BY <1>1, <1>3, LatestOfDecided DEF LatestDecision, Versions
  <2>4. v # 0 /\ decisions'[v] = d
    BY <1>1, <1>2 DEF Versions
  <2> QED
    BY <2>2, <2>3, <2>4
<1> QED
  BY <1>5, <1>6, <1>7, <1>8, <1>9, <1>10, <1>11 DEF TurnInv

\* The nodes that decide make the decision of the next version, or fail.
LEMMA DecidingStep ==
  ASSUME IInv, TurnInv, [Next]_vars, NEW t \in Tasks, TaskProgress(t),
         Evaluate(t) \/ RecheckChanged(t)
  PROVE  KeepsTurn(t) \/ \E d : MakesDecision(t, d)
<1> DEFINE r == task[t]
           d == Decide(r.evidence)
<1>1. /\ TypeOK /\ CheckpointActs /\ TaskActs(r)
      /\ task \in [Tasks -> Task] /\ r \in Task
      /\ version \in 0..MaxVersion /\ MaxVersion \in Nat
      /\ requests \in [Versions -> {"NONE", "PENDING", "APPROVED", "REJECTED", "SUPERSEDED"}]
      /\ UNCHANGED handler
  BY BoundsAssumption DEF IInv, TypeOK, TurnInv, TasksAct, TaskProgress
<1>2. r.pc \in {"evaluate", "recheck"} /\ ~r.direct
  BY <1>1 DEF Evaluate, RecheckChanged, TaskActs
<1>3. Running(r) /\ Deciding(r)
  BY <1>2 DEF Running, Deciding
<1>4. CASE Fail(t)
  BY <1>1, <1>4, FailIsQuiet, QuietKeepsTurn
<1>5. CASE ~Fail(t)
  <2>1. NobodyIsAsked /\ DecidedUpTo(version)
    BY <1>3 DEF TurnInv, RunsAlone
  <2>2. orders = {}
    BY <1>3 DEF TurnInv, OrderedIsLast
  <2>3. \A h \in Handlers : handler'[h] = NoAnswer
    BY <1>1, <2>1 DEF TurnInv, AnswersAreAwaited, NobodyIsAsked, IInv, HandlersAnswerRequests
  <2>4. d \in Decision /\ d.type \in {"BUY", "REJECT", "INVESTIGATE"}
    BY <1>1, DecideType DEF TypeOK, Task, Decision
  <2>5. d.type = "BUY" => Action(r.evidence) = "BUY"
    BY DEF Decide
  <2>6. /\ version + 1 \in Versions
        /\ Evaluate(t) => r.dec = version + 1 /\ ~VersionTaken(r.dec)
        /\ RecheckChanged(t) => r.dec = version /\ ~VersionTaken(r.dec + 1)
    <3>1. CASE Evaluate(t)
      <4>1. r.dec = version + 1 /\ r.dec \in Versions /\ ~RecheckChanged(t)
        BY <1>1, <3>1 DEF Evaluate, RecheckChanged, TaskActs, IInv, TasksNameRows,
           TaskNamesVersion, DecidedPCs
      <4> QED
        BY <1>5, <3>1, <4>1 DEF Evaluate
    <3>2. CASE RecheckChanged(t)
      <4>1. /\ r.dec <= version /\ r.dec \in Versions /\ r.dec + 1 \in Versions
            /\ ~Evaluate(t)
        BY <1>1, <3>2 DEF RecheckChanged, Evaluate, TaskActs, Answering, IInv, TasksNameRows,
           TaskNamesVersion, DecidedPCs
      <4>2. ~VersionTaken(r.dec + 1)
        BY <1>5, <3>2 DEF RecheckChanged
      <4>3. ~(r.dec + 1 <= version)
        BY <2>1, <4>1, <4>2 DEF DecidedUpTo, VersionTaken
      <4> QED
        BY <1>1, <4>1, <4>2, <4>3 DEF Versions
    <3> QED
      BY <3>1, <3>2
  <2>7. \E q \in Task : /\ task' = [task EXCEPT ![t] = Route(q, NextNode(d))]
                        /\ ~q.direct /\ q.dec = version + 1
    <3>1. CASE Evaluate(t)
      BY <1>1, <1>2, <2>6, <3>1 DEF Evaluate
    <3>2. CASE RecheckChanged(t)
      <4> DEFINE q == [r EXCEPT !.dec = r.dec + 1]
      <4>1. q \in Task /\ ~q.direct /\ q.dec = version + 1
        BY <1>1, <1>2, <2>6, <3>2 DEF Versions, Task
      <4>2. task' = [task EXCEPT ![t] = Route(q, NextNode(d))]
        BY <2>6, <3>2 DEF RecheckChanged
      <4> HIDE DEF q
      <4> QED
        BY <4>1, <4>2
    <3> QED
      BY <3>1, <3>2
  <2>8. /\ \A u \in Tasks : ~Running(task'[u]) /\ ~Retrying(task'[u])
        /\ \A u \in Tasks \ {t} : Answering(task'[u]) => task'[u].dec <= version
        /\ Answering(task'[t]) => d.type = "BUY" /\ task'[t].dec = version + 1
    <3>1. PICK q \in Task : /\ task' = [task EXCEPT ![t] = Route(q, NextNode(d))]
                            /\ ~q.direct /\ q.dec = version + 1
      BY <2>7
    <3>2. NextNode(d) \in Successors /\ NextNode(d) \in Waiting
      BY DEF NextNode, Successors, Waiting
    <3>3. task'[t] = Route(q, NextNode(d)) /\ \A u \in Tasks \ {t} : task'[u] = task[u]
      BY <1>1, <3>1
    <3>4. /\ ~Running(task'[t]) /\ ~Retrying(task'[t])
          /\ Answering(task'[t]) =>
               NextNode(d) \in {"approval", "prevalidate"} /\ task'[t].dec = version + 1
      BY <3>1, <3>2, <3>3, RouteActs
    <3>5. \A u \in Tasks \ {t} : ~Running(task[u])
      BY <1>3 DEF TurnInv, OneRuns
    <3>6. \A u \in Tasks : ~Retrying(task[u]) /\ (Answering(task[u]) => task[u].dec <= version)
      BY <1>3 DEF TurnInv, RetriesAreSettled, Settled, TasksAct, TaskActs
    <3> QED
      BY <3>3, <3>4, <3>5, <3>6 DEF NextNode
  <2>9. /\ decisions' = [decisions EXCEPT ![version + 1] = d]
        /\ version' \in {version, version + 1} /\ (d.type = "BUY" => version' = version + 1)
        /\ \A u \in Versions : requests'[u] = "PENDING" => u = version + 1 /\ d.type = "BUY"
        /\ status' = OutcomeStatus(d)
        /\ UNCHANGED <<orders, ckpt>>
    <3>1. CASE Evaluate(t)
      <4>1. /\ requests' = [requests EXCEPT ![r.dec] = IF d.type = "BUY" THEN "PENDING" ELSE @]
            /\ decisions' = [decisions EXCEPT ![r.dec] = d]
            /\ version' = IF Action(r.evidence) = "BUY" THEN r.dec ELSE version
            /\ status' = OutcomeStatus(d)
            /\ UNCHANGED <<orders, ckpt>>
        BY <2>6, <3>1 DEF Evaluate
      <4> HIDE DEF r, d
      <4>2. \A u \in Versions : requests'[u] = "PENDING" => u = version + 1 /\ d.type = "BUY"
        BY <1>1, <2>1, <2>6, <3>1, <4>1 DEF NobodyIsAsked
      <4> QED
        BY <2>5, <2>6, <3>1, <4>1, <4>2
    <3>2. CASE RecheckChanged(t)
      <4>1. r.answer.version \in Versions
        BY <3>2 DEF RecheckChanged, IInv, TasksNameRows, TaskNamesRequest
      <4>2. /\ requests' = [requests EXCEPT ![r.answer.version] = "SUPERSEDED",
                              ![r.dec + 1] = IF d.type = "BUY" THEN "PENDING" ELSE @]
            /\ decisions' = [decisions EXCEPT ![r.dec + 1] = d]
            /\ version' = r.dec + 1
            /\ status' = OutcomeStatus(d)
            /\ UNCHANGED <<orders, ckpt>>
        BY <2>6, <3>2 DEF RecheckChanged
      <4> HIDE DEF r, d
      <4>3. \A u \in Versions : requests'[u] = "PENDING" => u = version + 1 /\ d.type = "BUY"
        BY <1>1, <2>1, <2>6, <3>2, <4>1, <4>2 DEF NobodyIsAsked
      <4> QED
        BY <2>6, <3>2, <4>2, <4>3
    <3> QED
      BY <3>1, <3>2
  <2>10. /\ version <= version'
         /\ \A u \in Tasks : Answering(task'[u]) => task'[u].dec <= version'
    <3>1. version' \in Nat /\ version \in Nat /\ version <= version'
      BY <1>1, <2>9
    <3>2. Answering(task'[t]) => task'[t].dec <= version'
      BY <1>1, <2>8, <2>9
    <3>3. \A u \in Tasks \ {t} : Answering(task'[u]) => task'[u].dec <= version'
      BY <1>1, <2>8, <3>1, TypeStep DEF TypeOK, Task
    <3> QED
      BY <3>1, <3>2, <3>3
  <2>11. CheckpointActs'
    BY <1>1, <2>2, <2>9, <2>10 DEF CheckpointActs, TypeOK
  <2> HIDE DEF r, d
  <2>12. MakesDecision(t, d)
    BY <1>1, <2>1, <2>2, <2>3, <2>4, <2>6, <2>8, <2>9, <2>10, <2>11 DEF MakesDecision
  <2> QED
    BY <2>12
<1> QED
  BY <1>4, <1>5

\* A step of a task keeps the invariant.
LEMMA TaskKeepsTurn ==
  ASSUME IInv, TurnInv, [Next]_vars, NEW t \in Tasks, TaskProgress(t)
  PROVE  TurnInv'
<1>1. KeepsTurn(t) \/ \E d : MakesDecision(t, d)
  BY TaskIsQuiet, QuietKeepsTurn, PlaceOrdersKeepsTurn, ValidateKeepsTurn,
     RetrySupersededKeepsTurn, DecidingStep
<1>2. TypeOK
  BY DEF IInv
<1> QED
  BY <1>1, <1>2, TurnKept, DecisionMade

\* The tasks as they were, or stopped.
LEMMA OthersKeepTurn ==
  ASSUME IInv, TurnInv,
         UNCHANGED <<status, version, rows, ckpt>>,
         \A h \in Handlers : handler'[h] \in {handler[h], NoAnswer},
         \A u \in Tasks : task'[u] \in {task[u], IdleTask}
  PROVE  TurnInv'
<1> USE DEF rows
<1>1. UNCHANGED <<status, version, decisions, requests, orders, validated, ckpt>>
  OBVIOUS
<1>2. \A u \in Tasks : /\ Running(task'[u]) => Running(task[u]) /\ task'[u] = task[u]
                       /\ Retrying(task'[u]) => Retrying(task[u])
                       /\ Deciding(task'[u]) => Deciding(task[u])
  BY IdleActs
<1>3. \A u \in Tasks : TaskActs(task'[u])
  BY IdleActs DEF TurnInv, TasksAct
<1>4. /\ NobodyIsAsked' <=> NobodyIsAsked
      /\ DecidedUpTo(version)' <=> DecidedUpTo(version)
  BY <1>1 DEF NobodyIsAsked, DecidedUpTo
<1>5. OneRuns' /\ RunsAlone'
  BY <1>1, <1>2, <1>4 DEF TurnInv, OneRuns, RunsAlone
<1>6. OneAnswer' /\ AnswersAreAwaited'
  BY <1>1 DEF TurnInv, OneAnswer, AnswersAreAwaited
<1>7. NewestIsAsked'
  BY <1>1, <1>4 DEF TurnInv, NewestIsAsked
<1>8. RetriesAreSettled'
  <2>1. Settled => Settled'
    BY <1>2, <1>4 DEF Settled
  <2> QED
    BY <1>1, <1>2, <2>1 DEF TurnInv, RetriesAreSettled
<1>9. TasksAct'
  BY <1>1, <1>3 DEF TasksAct, TaskActs, AllValidated
<1>10. OrderedIsLast'
  BY <1>1, <1>2, <1>4 DEF TurnInv, OrderedIsLast
<1>11. CheckpointActs'
  BY <1>1 DEF TurnInv, CheckpointActs
<1>12. CompletionActs'
  <2>1. LatestDecision' = LatestDecision
    BY <1>1 DEF LatestDecision
  <2> QED
    BY <1>1, <2>1 DEF TurnInv, CompletionActs, AllValidated
<1> QED
  BY <1>5, <1>6, <1>7, <1>8, <1>9, <1>10, <1>11, <1>12 DEF TurnInv

\* A handler takes an answer to the newest request, while no other does.
LEMMA ReceiveKeepsTurn ==
  ASSUME IInv, TurnInv, NEW h \in Handlers, ReceiveAnswer(h), ~overlapped'
  PROVE  TurnInv'
<1> USE DEF rows
<1>1. PICK v \in Versions, c \in Choices :
        /\ CanAnswer(v)
        /\ handler' = [handler EXCEPT ![h] = [choice |-> c, version |-> v]]
  BY DEF ReceiveAnswer
<1>2. UNCHANGED <<status, version, decisions, requests, orders, validated, ckpt, task>>
  BY DEF ReceiveAnswer
<1>3. OneAnswer' /\ AnswersAreAwaited'
  <2>1. handler \in [Handlers -> Answers]
    BY DEF IInv, TypeOK
  <2>2. handler'[h].version = v
    BY <1>1, <2>1
  <2>3. \A g \in Handlers \ {h} : handler'[g] = NoAnswer
    BY <1>1, <2>1 DEF ReceiveAnswer
  <2> QED
    BY <1>1, <1>2, <2>2, <2>3 DEF OneAnswer, AnswersAreAwaited, CanAnswer
<1>4. /\ NobodyIsAsked' <=> NobodyIsAsked
      /\ DecidedUpTo(version)' <=> DecidedUpTo(version)
      /\ LatestDecision' = LatestDecision
      /\ Settled' <=> Settled
  BY <1>2 DEF NobodyIsAsked, DecidedUpTo, LatestDecision, Settled
<1>5. OneRuns' /\ RunsAlone' /\ NewestIsAsked' /\ RetriesAreSettled'
  BY <1>2, <1>4 DEF TurnInv, OneRuns, RunsAlone, NewestIsAsked, RetriesAreSettled
<1>6. TasksAct'
  BY <1>2 DEF TurnInv, TasksAct, TaskActs, AllValidated
<1>7. OrderedIsLast' /\ CheckpointActs' /\ CompletionActs'
  BY <1>2, <1>4 DEF TurnInv, OrderedIsLast, CheckpointActs, CompletionActs, AllValidated
<1> QED
  BY <1>3, <1>5, <1>6, <1>7 DEF TurnInv

\* Its commit hands the turn of the pending request to one task.
LEMMA RecordKeepsTurn ==
  ASSUME IInv, TurnInv, NEW h \in Handlers, RecordAnswer(h)
  PROVE  TurnInv'
<1> USE DEF rows
<1> DEFINE a == handler[h]
<1>1. /\ task \in [Tasks -> Task] /\ handler \in [Handlers -> Answers]
      /\ requests \in [Versions -> {"NONE", "PENDING", "APPROVED", "REJECTED", "SUPERSEDED"}]
  BY DEF IInv, TypeOK
<1>2. /\ a # NoAnswer
      /\ requests' = [requests EXCEPT ![a.version] = AnswerStatus(a.choice)]
      /\ handler' = [handler EXCEPT ![h] = NoAnswer]
      /\ UNCHANGED <<status, version, decisions, orders, validated, ckpt>>
  BY DEF RecordAnswer
<1>3. PICK t \in Tasks :
        task' = [task EXCEPT ![t] = [IdleTask EXCEPT !.pc = "resume", !.answer = a]]
  BY DEF RecordAnswer
<1> DEFINE n == [IdleTask EXCEPT !.pc = "resume", !.answer = a]
<1>4. n.pc = "resume" /\ ~n.direct
  BY DEF IdleTask
<1>5. task'[t] = n /\ \A u \in Tasks \ {t} : task'[u] = task[u]
  BY <1>1, <1>3
<1>6. a.version \in Versions /\ requests[a.version] = "PENDING"
  BY <1>2 DEF IInv, HandlersAnswerRequests, TurnInv, AnswersAreAwaited
<1>7. AnswerStatus(a.choice) # "PENDING"
  BY DEF AnswerStatus
<1> HIDE DEF a, n
<1>8. ~Retrying(n) /\ TaskActs(n)
  BY <1>4 DEF Retrying, TaskActs, Reached, Answering
<1>9. version = a.version /\ DecidedUpTo(version)
  BY <1>6 DEF TurnInv, NewestIsAsked
<1>10. NobodyIsAsked'
  BY <1>1, <1>2, <1>6, <1>7 DEF TurnInv, NewestIsAsked, NobodyIsAsked
<1>11. /\ \A u \in Tasks : ~Running(task[u]) /\ ~Retrying(task[u])
       /\ status # "AWAITING_EXECUTION_RETRY"
       /\ orders = {}
  BY <1>6 DEF TurnInv, RunsAlone, RetriesAreSettled, Settled, OrderedIsLast, NobodyIsAsked
<1>12. DecidedUpTo(version)' /\ LatestDecision' = LatestDecision
  BY <1>2, <1>9 DEF DecidedUpTo, LatestDecision
<1>13. OneRuns' /\ RunsAlone'
  BY <1>5, <1>10, <1>11, <1>12 DEF OneRuns, RunsAlone
<1>14. OneAnswer' /\ AnswersAreAwaited'
  <2>1. \A g \in Handlers : handler'[g] = NoAnswer
    BY <1>1, <1>2 DEF TurnInv, OneAnswer, a
  <2> QED
    BY <2>1 DEF OneAnswer, AnswersAreAwaited
<1>15. NewestIsAsked'
  BY <1>10 DEF NewestIsAsked, NobodyIsAsked
<1>16. RetriesAreSettled'
  BY <1>2, <1>5, <1>8, <1>11 DEF RetriesAreSettled
<1>17. TasksAct'
  <2>1. \A u \in Tasks : TaskActs(task'[u])
    BY <1>5, <1>8 DEF TurnInv, TasksAct
  <2> QED
    BY <1>2, <2>1 DEF TasksAct, TaskActs, AllValidated
<1>18. OrderedIsLast' /\ CheckpointActs' /\ CompletionActs'
  BY <1>2, <1>11, <1>12 DEF TurnInv, OrderedIsLast, CheckpointActs, CompletionActs, AllValidated
<1> QED
  BY <1>13, <1>14, <1>15, <1>16, <1>17, <1>18 DEF TurnInv

\* A retry is accepted when the graph has come to its end.
LEMMA RequestRetryKeepsTurn ==
  ASSUME IInv, TurnInv, RequestRetry
  PROVE  TurnInv'
<1> USE DEF rows
<1>1. /\ status = "AWAITING_EXECUTION_RETRY"
      /\ task \in [Tasks -> Task]
      /\ UNCHANGED <<status, version, decisions, requests, orders, validated, ckpt, handler>>
  BY DEF RequestRetry, IInv, TypeOK
<1>2. PICK t \in Tasks : task' = [task EXCEPT ![t] = [IdleTask EXCEPT !.pc = "retry"]]
  BY DEF RequestRetry
<1> DEFINE n == [IdleTask EXCEPT !.pc = "retry"]
<1>3. n.pc = "retry" /\ ~n.direct
  BY DEF IdleTask
<1>4. task'[t] = n /\ \A u \in Tasks \ {t} : task'[u] = task[u]
  BY <1>1, <1>2
<1> HIDE DEF n
<1>5. ~Running(n) /\ ~Deciding(n) /\ TaskActs(n)
  BY <1>3 DEF Running, Deciding, TaskActs, Reached, Answering
<1>6. Settled
  BY <1>1 DEF TurnInv, RetriesAreSettled
<1>7. \A u \in Tasks : ~Running(task'[u]) /\ ~Deciding(task'[u])
  BY <1>4, <1>5, <1>6 DEF Settled, Deciding
<1>8. Settled'
  BY <1>1, <1>6, <1>7 DEF Settled, NobodyIsAsked, DecidedUpTo
<1>9. OneRuns' /\ RunsAlone' /\ RetriesAreSettled'
  BY <1>7, <1>8 DEF OneRuns, RunsAlone, RetriesAreSettled
<1>10. OneAnswer' /\ AnswersAreAwaited' /\ NewestIsAsked'
  BY <1>1 DEF TurnInv, OneAnswer, AnswersAreAwaited, NewestIsAsked, DecidedUpTo
<1>11. TasksAct'
  <2>1. \A u \in Tasks : TaskActs(task'[u])
    BY <1>4, <1>5 DEF TurnInv, TasksAct
  <2> QED
    BY <1>1, <2>1 DEF TasksAct, TaskActs, AllValidated
<1>12. OrderedIsLast'
  BY <1>1, <1>7 DEF TurnInv, OrderedIsLast, NobodyIsAsked, DecidedUpTo
<1>13. CheckpointActs' /\ CompletionActs'
  BY <1>1 DEF TurnInv, CheckpointActs, CompletionActs, AllValidated, LatestDecision
<1> QED
  BY <1>9, <1>10, <1>11, <1>12, <1>13 DEF TurnInv

\* A new review has given its turn to the task that starts the graph.
LEMMA TurnInit == Init => TurnInv
<1> SUFFICES ASSUME Init PROVE TurnInv
  OBVIOUS
<1>1. PICK t \in Tasks :
        task = [u \in Tasks |-> IF u = t THEN [IdleTask EXCEPT !.pc = "start"] ELSE IdleTask]
  BY DEF Init
<1> DEFINE n == [IdleTask EXCEPT !.pc = "start"]
<1>2. n.pc = "start" /\ ~n.direct
  BY DEF IdleTask
<1>3. task[t] = n /\ \A u \in Tasks \ {t} : task[u] = IdleTask
  BY <1>1
<1> HIDE DEF n
<1>4. ~Retrying(n) /\ TaskActs(n)
  BY <1>2 DEF Retrying, TaskActs, Reached, Answering
<1>5. /\ \A u \in Tasks : TaskActs(task[u]) /\ ~Retrying(task[u])
      /\ \A u \in Tasks : Running(task[u]) => u = t
  BY <1>3, <1>4, IdleActs
<1>6. NobodyIsAsked /\ DecidedUpTo(version)
  BY BoundsAssumption DEF Init, NobodyIsAsked, DecidedUpTo, Versions
<1> QED
  BY <1>5, <1>6 DEF Init, TurnInv, OneRuns, RunsAlone, OneAnswer, AnswersAreAwaited, NewestIsAsked,
     RetriesAreSettled, TasksAct, OrderedIsLast, CheckpointActs, CompletionActs,
     NobodyIsAsked

LEMMA TurnNext == IInv /\ TurnsPass /\ [Next]_vars => TurnsPass'
<1> SUFFICES ASSUME IInv, TurnsPass, [Next]_vars PROVE TurnsPass'
  OBVIOUS
<1> USE DEF rows
<1>1. overlapped => overlapped'
  BY DEF Next, vars, TaskProgress, ReceiveAnswer, RecordAnswer, RequestRetry, FactsChange, Crash
<1>2. SUFFICES ASSUME TurnInv, ~overlapped' PROVE TurnInv'
  BY <1>1 DEF TurnsPass
<1>3. ASSUME NEW t \in Tasks, TaskProgress(t) PROVE TurnInv'
  BY <1>2, <1>3, TaskKeepsTurn
<1>4. ASSUME NEW h \in Handlers, ReceiveAnswer(h) \/ RecordAnswer(h) PROVE TurnInv'
  BY <1>2, <1>4, ReceiveKeepsTurn, RecordKeepsTurn
<1>5. CASE RequestRetry
  BY <1>2, <1>5, RequestRetryKeepsTurn
<1>6. CASE FactsChange \/ Crash \/ UNCHANGED vars
  BY <1>2, <1>6, OthersKeepTurn DEF FactsChange, Crash, vars
<1> QED
  BY <1>3, <1>4, <1>5, <1>6 DEF Next

\* Until two approval requests overlap, one turn is passed on, whatever fails,
\* crashes, is retried or runs on after the end of an earlier run.
THEOREM TurnInvariance == Spec => []TurnsPass
<1>1. Init => TurnsPass
  BY TurnInit DEF TurnsPass
<1> QED
  BY <1>1, Invariance, TurnNext, PTL DEF Spec

\* A completed review had an order validated or a decision that needs none; all
\* of its orders are validated, or its latest decision needs none, unless two
\* approval requests overlapped.
THEOREM CompletionIsJustified == Spec => []CompletedIsJustified
<1>1. EndInv /\ TurnsPass => CompletedIsJustified
  BY DEF EndInv, CompletionEnds, SomeValidated, SomeRejects, TurnsPass, TurnInv, CompletionActs, AllValidated,
     CompletedIsJustified
<1> QED
  BY <1>1, EndInvariance, TurnInvariance, PTL
=============================================================================
