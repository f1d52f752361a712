-------------------------- MODULE MCPurchaseReview --------------------------
(***************************************************************************)
(* Values of the constants of PurchaseReview for TLC.                      *)
(***************************************************************************)
EXTENDS PurchaseReview, TLC

CONSTANTS t1, t2, h1, h2

\* Four states of the facts: one supplier covers the need; two suppliers
\* cover it together; nothing has to be bought; no supplier can cover it.
MCFacts  == {"single", "split", "covered", "short"}
MCQuotes == {"zero", "q1", "q2", "q3"}

MCPolicy == [f \in MCFacts |->
  CASE f = "covered" -> [action |-> "REJECT", quote |-> "zero"]
    [] f = "short"   -> [action |-> "BUY", quote |-> "q3"]
    [] f = "split"   -> [action |-> "BUY", quote |-> "q2"]
    [] OTHER         -> [action |-> "BUY", quote |-> "q1"]]

\* The plan follows the terms; its quote is the decision's when they agree.
MCPlan == [p \in MCFacts \X MCFacts |->
  CASE p[1] = "short" \/ p[2] = "short" -> [lines |-> 0, quote |-> "zero"]
    [] p[2] = "split"                   -> [lines |-> 2, quote |-> "q2"]
    [] p[2] = p[1]                      -> [lines |-> 1, quote |-> MCPolicy[p[1]].quote]
    [] OTHER                            -> [lines |-> 1, quote |-> "q3"]]

\* Three states of the facts, for two handlers; the terms are those of the
\* collected evidence.
RaceFacts  == {"single", "split", "covered"}
RacePolicy == [f \in RaceFacts |-> MCPolicy[f]]
RacePlan   == [p \in RaceFacts \X RaceFacts |-> MCPlan[<<p[1], p[1]>>]]

\* Two states of the facts, for the liveness run.
LiveFacts  == {"single", "split"}
LivePolicy == [f \in LiveFacts |-> MCPolicy[f]]
LivePlan   == [p \in LiveFacts \X LiveFacts |-> MCPlan[p]]

MCTasks == {t1, t2}
MCTwoHandlers == {h1, h2}
MCOneHandler  == {h1}

Symmetry == Permutations(MCTasks) \cup Permutations(MCTwoHandlers)
=============================================================================
