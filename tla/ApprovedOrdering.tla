-------------------------- MODULE ApprovedOrdering --------------------------
(***************************************************************************)
(* What a purchasing review promises its buyer, with nothing of how it is  *)
(* done: sourcing plans are published and never edited, the buyer may      *)
(* approve published plans, and lines of at most one plan are turned into  *)
(* purchase orders, after its approval.  An order is never undone.         *)
(* Whether the lines of a plan are ordered together is left open: the code *)
(* and its documents disagree about it.                                    *)
(***************************************************************************)
EXTENDS Naturals

CONSTANTS MaxVersion, MaxLines

Versions == 1..MaxVersion

VARIABLES
  plans,      \* lines of the executable plan of a version; 0 when it has none
  approvals,  \* versions the buyer has approved
  placed      \* purchase orders, as <<version, line>>

vars == <<plans, approvals, placed>>

Init ==
  /\ plans = [v \in Versions |-> 0]
  /\ approvals = {}
  /\ placed = {}

Publish(v) ==
  /\ plans[v] = 0
  /\ \E n \in 1..MaxLines : plans' = [plans EXCEPT ![v] = n]
  /\ UNCHANGED <<approvals, placed>>

Approve(v) ==
  /\ plans[v] # 0
  /\ approvals' = approvals \cup {v}
  /\ UNCHANGED <<plans, placed>>

Order(v) ==
  /\ v \in approvals
  /\ placed \subseteq {v} \X (1..plans[v])
  /\ \E more \in SUBSET ({v} \X (1..plans[v])) : placed' = placed \cup more
  /\ UNCHANGED <<plans, approvals>>

Next == \E v \in Versions : Publish(v) \/ Approve(v) \/ Order(v)

Spec == Init /\ [][Next]_vars
=============================================================================
