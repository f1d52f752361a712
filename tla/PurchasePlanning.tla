-------------------------- MODULE PurchasePlanning --------------------------
(***************************************************************************)
(* How _prepare gets from the evidence to a proposal: the policy's         *)
(* decision, the suppliers asked for a plan (sourcing.py), and the search  *)
(* of allocate_sourcing_plan, one supplier after the other, which keeps of *)
(* all partial plans only those no other one dominates.                    *)
(*                                                                         *)
(* Suppliers are numbered in the order of their ids.  A delivery time is a *)
(* number of days: all are counted from the same moment.  The volume of a  *)
(* partial plan is its quantity times one unit's volume and has no field.  *)
(* The order in which the states of the frontier are expanded is left open.*)
(***************************************************************************)
EXTENDS PurchasePolicy, FiniteSets, Sequences

CONSTANTS
  Cases,       \* the reviews to plan for
  MaxOptions,  \* _MAX_ALLOCATION_OPTIONS_PER_SUPPLIER
  MaxStates,   \* _MAX_ALLOCATION_FRONTIER_STATES
  LotBound,    \* bounds the reference search of the properties, and nothing else
  NoPlan

Scenarios == {"recommendation-review", "supplier-shortfall", "demand-change", "custom-scenario"}

\* SupplierCandidate.
Supplier ==
  [active : BOOLEAN, fresh : BOOLEAN, sameCurrency : BOOLEAN, supply : Supply,
   cost : Positive, moq : Positive, reliability : Nat, delivery : Nat]

\* scenario: as _prepare sees it, a recommendation review that was recovered
\* being a supplier shortfall.
Case ==
  [scenario : Scenarios, inputs : Inputs, suppliers : Seq(Supplier), preferred : Nat]

ASSUME CasesAssumption == Cases \subseteq Case
ASSUME LimitsAssumption == MaxOptions \in Nat /\ MaxStates \in Nat /\ LotBound \in Nat

VARIABLES
  case,      \* the review's evidence and the suppliers' rows
  stage,     \* where _prepare is
  status,    \* PurchasingReview.status
  todo,      \* the eligible suppliers that are still to come
  turn,      \* the supplier whose options are being added
  frontier,  \* the partial plans over the suppliers that had their turn
  pending,   \* those of the frontier whose options are still to be added
  next,      \* next_frontier
  gaveUp,    \* complexity_limited
  plan,      \* the allocation that was chosen
  final,     \* quantity and cost saved with the decision
  all        \* history: every partial plan, none dropped

vars == <<case, stage, status, todo, turn, frontier, pending, next, gaveUp, plan, final, all>>

search == <<todo, turn, frontier, pending, next, all>>

Ids == DOMAIN case.suppliers

\* _AllocationState, over the suppliers ids.
PartialPlanOf(ids) ==
  [lots : [ids -> Nat], quantity : Nat, reliability : Nat, cost : Nat, lines : Nat,
   delivery : Nat]

PartialPlan == PartialPlanOf(Ids)

ASSUME NoPlanAssumption == \A c \in Cases : NoPlan \notin PartialPlanOf(DOMAIN c.suppliers)

EmptyPlan ==
  [lots |-> [c \in Ids |-> 0], quantity |-> 0, reliability |-> 0, cost |-> 0, lines |-> 0,
   delivery |-> 0]

NoQuote == [quantity |-> 0, cost |-> 0]

-----------------------------------------------------------------------------
(***************************************************************************)
(* Who is asked, and for how much.                                         *)
(***************************************************************************)

\* alternate_sourcing_required.
Alternates == case.scenario # "recommendation-review"

\* Variant: the plan covers the need whatever the policy proposes.
TargetRawNeed == Need(case.inputs)

\* target_need: what the plan has to cover.
TargetNeed == IF Alternates THEN Need(case.inputs) ELSE Feasible(case.inputs)

\* The preferred supplier alone is asked when it can deliver the whole need.
PreferredAlone ==
  /\ ~Alternates
  /\ case.preferred \in Ids
  /\ LET p == case.suppliers[case.preferred] IN
       /\ p.active /\ p.fresh
       /\ p.supply = Unlimited \/ p.supply >= TargetNeed
       /\ TargetNeed >= p.moq

Candidates == IF PreferredAlone THEN {case.preferred} ELSE Ids

\* No exclusion reason applies.  need_by_at is never given, so a late delivery
\* excludes nobody.
Eligible ==
  {c \in Candidates :
     LET s == case.suppliers[c] IN
       /\ s.active /\ s.fresh /\ s.sameCurrency
       /\ s.supply = Unlimited \/ s.supply >= s.moq
       /\ s.moq * s.cost <= case.inputs.budget
       /\ s.moq <= case.inputs.storage \div case.inputs.unitVolume}

\* Total quantities up to max_search_quantity: the need, rounded up by the
\* largest minimum order.
SearchRange == UNION {0..(TargetNeed + case.suppliers[c].moq - 1) : c \in Eligible}

-----------------------------------------------------------------------------
(***************************************************************************)
(* One step of the search.                                                 *)
(***************************************************************************)

\* The quantities of supplier c the loop may run through from partial plan s.
Lots(s, c) ==
  {q \in SearchRange : /\ q % case.suppliers[c].moq = 0
                       /\ s.quantity + q \in SearchRange
                       /\ InSupply(q, case.suppliers[c].supply)}

\* Variant: the storage is compared with one line's volume.
OptionsByLine(s, c) ==
  {q \in Lots(s, c) :
     /\ s.cost + q * case.suppliers[c].cost <= case.inputs.budget
     /\ q * case.inputs.unitVolume <= case.inputs.storage}

\* Those before the loop's break.
Options(s, c) ==
  {q \in Lots(s, c) :
     /\ s.cost + q * case.suppliers[c].cost <= case.inputs.budget
     /\ (s.quantity + q) * case.inputs.unitVolume <= case.inputs.storage}

\* Variant: overbuy counts as reliable supply.
EffectiveOverbuy(s, q) == q

\* The part of a line that the need still asks for.
Effective(s, q) == Smaller(q, AtLeastZero(TargetNeed - s.quantity))

Extend(s, c, q) ==
  LET p == case.suppliers[c] IN
  [lots        |-> [s.lots EXCEPT ![c] = q],
   quantity    |-> s.quantity + q,
   reliability |-> s.reliability + Effective(s, q) * p.reliability,
   cost        |-> s.cost + q * p.cost,
   lines       |-> IF q > 0 THEN s.lines + 1 ELSE s.lines,
   delivery    |-> IF q > 0 /\ p.delivery > s.delivery THEN p.delivery ELSE s.delivery]

\* supplier_ids of a partial plan, and their order as tuples.
Lines(s) == {c \in DOMAIN s.lots : s.lots[c] > 0}

IdsUpTo(A, B) ==
  \/ A = B
  \/ \E m \in A \ B : /\ {k \in A : k < m} = {k \in B : k < m}
                      /\ \E k \in B : k > m
  \/ \E m \in B \ A : /\ {k \in A : k < m} = {k \in B : k < m}
                      /\ ~\E k \in A : k > m

\* l is at least as good as r in everything _dominates compares.
NoWorse(l, r) ==
  /\ l.quantity = r.quantity  \* one bucket
  /\ l.reliability >= r.reliability
  /\ l.cost <= r.cost
  /\ l.lines <= r.lines
  /\ l.delivery <= r.delivery

\* Variant: in a bucket the most reliable partial plan is kept.
DominatesByReliability(l, r) == l.quantity = r.quantity /\ l.reliability >= r.reliability

Dominates(l, r) ==
  /\ NoWorse(l, r)
  /\ ~NoWorse(r, l) \/ IdsUpTo(Lines(l), Lines(r))

\* The buckets after the options in qs of s have been added: what exists keeps
\* a dominated newcomer out, and gives way to one that dominates it.
Added(s, qs) ==
  LET new == {x \in {Extend(s, turn, q) : q \in qs} : ~\E e \in next : Dominates(e, x)}
  IN {e \in next : ~\E x \in new : Dominates(x, e)} \cup new

\* The loop over the options of s stops at one of the two limits.
TooComplex(s) ==
  \/ Cardinality(Lots(s, turn) \ {0}) > MaxOptions
  \/ \E q \in Options(s, turn) :
       Cardinality(Added(s, {p \in Options(s, turn) : p <= q})) > MaxStates

-----------------------------------------------------------------------------
(***************************************************************************)
(* Choosing a plan.                                                        *)
(***************************************************************************)

\* Variant: overbuy counts as coverage.
CoveredAll(s) == s.quantity

Covered(s) == Smaller(s.quantity, TargetNeed)

\* _allocation_rank without its last component: l ranks before r.
Before(l, r) ==
  \/ Covered(l) > Covered(r)
  \/ Covered(l) = Covered(r) /\ l.reliability > r.reliability
  \/ Covered(l) = Covered(r) /\ l.reliability = r.reliability /\ l.cost < r.cost
  \/ /\ Covered(l) = Covered(r) /\ l.reliability = r.reliability /\ l.cost = r.cost
     /\ \/ l.lines < r.lines
        \/ l.lines = r.lines /\ l.delivery < r.delivery

\* The minimum of the rank.
Best(S) ==
  {s \in S : \A r \in S : /\ ~Before(r, s)
                          /\ ~Before(s, r) => IdsUpTo(Lines(s), Lines(r))}

Buying(S) == {s \in S : s.quantity > 0}

-----------------------------------------------------------------------------
Init ==
  /\ case \in Cases
  /\ stage = "policy" /\ status = "EVALUATING"
  /\ todo = {} /\ turn = 0
  /\ frontier = {} /\ pending = {} /\ next = {} /\ all = {}
  /\ gaveUp = FALSE /\ plan = NoPlan /\ final = NoQuote

\* Variant: the decision's own word becomes the review's status.
OutcomeRaw(d) == d.type

OutcomeWithoutOrder(d) == IF d.type = "INVESTIGATE" THEN "NEEDS_ATTENTION" ELSE "COMPLETED"

\* A decision without an order ends the run.
EndWithoutOrder ==
  LET d == Decide(case.inputs) IN
  /\ stage = "policy"
  /\ d.type \in {"INVESTIGATE", "REJECT"}
  /\ status' = OutcomeWithoutOrder(d)
  /\ stage' = "done"
  /\ UNCHANGED <<case, search, gaveUp, plan, final>>

\* create_and_persist_sourcing_plan up to the loop over the suppliers.
StartSearch ==
  /\ stage = "policy"
  /\ Decide(case.inputs).type \in {"ACCEPT", "MODIFY"}
  /\ todo' = Eligible
  /\ frontier' = {EmptyPlan} /\ all' = {EmptyPlan}
  /\ stage' = "suppliers"
  /\ UNCHANGED <<case, status, turn, pending, next, gaveUp, plan, final>>

NextSupplier ==
  /\ stage = "suppliers"
  /\ \E c \in todo :
       /\ \A d \in todo : c <= d
       /\ turn' = c
       /\ todo' = todo \ {c}
       /\ all' = UNION {{Extend(a, c, q) : q \in Options(a, c)} : a \in all}
  /\ pending' = frontier
  /\ next' = {}
  /\ stage' = "options"
  /\ UNCHANGED <<case, status, frontier, gaveUp, plan, final>>

\* One turn of the loop over the frontier, with its loop over the options.
AddOptions(s) ==
  /\ stage = "options" /\ s \in pending
  /\ IF TooComplex(s)
       THEN /\ gaveUp' = TRUE
            /\ stage' = "planned"
            /\ UNCHANGED <<pending, next>>
       ELSE /\ next' = Added(s, Options(s, turn))
            /\ pending' = pending \ {s}
            /\ UNCHANGED <<gaveUp, stage>>
  /\ UNCHANGED <<case, status, todo, turn, frontier, plan, final, all>>

EndSupplier ==
  /\ stage = "options" /\ pending = {}
  /\ frontier' = next
  /\ stage' = "suppliers"
  /\ UNCHANGED <<case, status, todo, turn, pending, next, gaveUp, plan, final, all>>

\* feasible_states, and the best of them if there is one.
Choose ==
  /\ stage = "suppliers" /\ todo = {}
  /\ IF Buying(frontier) = {} THEN plan' = plan ELSE plan' \in Best(Buying(frontier))
  /\ stage' = "planned"
  /\ UNCHANGED <<case, status, search, gaveUp, final>>

Complete == plan # NoPlan /\ Covered(plan) >= TargetNeed

\* What final_decision is given of the plan.
FinalQuote ==
  IF Complete THEN [quantity |-> Covered(plan), cost |-> plan.cost] ELSE NoQuote

\* The plan's rows, the final decision and the approval request, or the
\* escalation of an incomplete plan.
SavePlan ==
  /\ stage = "planned"
  /\ status' = IF Complete THEN "AWAITING_APPROVAL" ELSE "NEEDS_ATTENTION"
  /\ final' = FinalQuote
  /\ stage' = "done"
  /\ UNCHANGED <<case, search, gaveUp, plan>>

\* The only state without another step: the search always comes to an outcome.
Finished == stage = "done" /\ UNCHANGED vars

Next ==
  \/ EndWithoutOrder \/ StartSearch \/ NextSupplier
  \/ \E s \in pending : AddOptions(s)
  \/ EndSupplier \/ Choose \/ SavePlan \/ Finished

Spec == Init /\ [][Next]_vars

-----------------------------------------------------------------------------
(***************************************************************************)
(* The reference: every choice of lots, without search bound and pruning.  *)
(***************************************************************************)

SumUpTo(f, n) ==
  LET sum[k \in 0..n] == IF k = 0 THEN 0 ELSE sum[k - 1] + f[k] IN sum[n]

Sum(f) == SumUpTo(f, Len(case.suppliers))

\* A choice of lots as a partial plan: all sums over its lines, a line being
\* effective as far as the lines before it leave some of the need.
PlanFor(lots) ==
  LET effective(c) == Smaller(lots[c], AtLeastZero(TargetNeed - SumUpTo(lots, c - 1)))
      used == {c \in Ids : lots[c] > 0}
      days == {case.suppliers[c].delivery : c \in used}
  IN [lots        |-> lots,
      quantity    |-> Sum(lots),
      reliability |-> Sum([c \in Ids |-> effective(c) * case.suppliers[c].reliability]),
      cost        |-> Sum([c \in Ids |-> lots[c] * case.suppliers[c].cost]),
      lines       |-> Cardinality(used),
      delivery    |-> IF days = {} THEN 0 ELSE CHOOSE d \in days : \A e \in days : e <= d]

\* An order the suppliers, the budget and the storage allow.
Allowed(lots) ==
  /\ \A c \in Ids : /\ lots[c] > 0 => c \in Eligible
                    /\ lots[c] % case.suppliers[c].moq = 0
                    /\ InSupply(lots[c], case.suppliers[c].supply)
  /\ PlanFor(lots).cost <= case.inputs.budget
  /\ Sum(lots) * case.inputs.unitVolume <= case.inputs.storage
  /\ Sum(lots) > 0

Allocations == {lots \in [Ids -> 0..LotBound] : Allowed(lots)}

-----------------------------------------------------------------------------
(***************************************************************************)
(* Properties.                                                             *)
(***************************************************************************)

TypeOK ==
  /\ case \in Case
  /\ stage \in {"policy", "suppliers", "options", "planned", "done"}
  /\ status \in {"EVALUATING", "NEEDS_ATTENTION", "COMPLETED", "AWAITING_APPROVAL"}
  /\ todo \subseteq Ids /\ turn \in Ids \cup {0}
  /\ frontier \cup pending \cup next \cup all \subseteq PartialPlan
  /\ gaveUp \in BOOLEAN
  /\ plan \in PartialPlan \cup {NoPlan}
  /\ final \in [quantity : Nat, cost : Nat]

\* calculate_decision proposes the least order that covers the need, or the
\* greatest that budget, storage and supplier allow, at every boundary of a
\* multiple of the minimum order; below one, see QuantityIsRight.
PolicyQuantityIsRight == QuantityIsRight(case.inputs)

\* A plan keeps every line's minimum order and availability and the budget and
\* storage of the whole (allocate_sourcing_plan), counted from its lines.
PlanKeepsLimits == plan # NoPlan => Allowed(plan.lots)

\* Dropping dominated partial plans (_dominates), one supplier at a time, never
\* drops one that would have become a better plan.
PruningLosesNothing == plan # NoPlan => \A a \in Buying(all) : ~Before(a, plan)

\* The search of allocate_sourcing_plan, with its bound on the total quantity,
\* finds an order if there is one, and none that is allowed ranks before it.
PlanIsBest ==
  (stage = "done" /\ Decide(case.inputs).type \in {"ACCEPT", "MODIFY"} /\ ~gaveUp) =>
    IF plan = NoPlan THEN Allocations = {}
    ELSE /\ plan = PlanFor(plan.lots)
         /\ \A lots \in Allocations : ~Before(PlanFor(lots), plan)

\* Only the last line of a plan takes it beyond the need, and by less than that
\* supplier's minimum order: no line is bought for nothing.
OnlyFinalLineRounds ==
  plan # NoPlan =>
    \E last \in Lines(plan) :
      /\ \A c \in Lines(plan) : c <= last
      /\ plan.quantity - plan.lots[last] < TargetNeed
      /\ plan.quantity < TargetNeed + case.suppliers[last].moq

\* In a recommendation review the plan asks for what the policy decided, at its
\* price, when the preferred supplier's terms are still those of the evidence:
\* _prevalidate later compares the two.
PreferredIsUnchanged ==
  /\ case.preferred \in Ids
  /\ LET p == case.suppliers[case.preferred]
         i == case.inputs
     IN /\ p.active /\ p.fresh /\ p.sameCurrency
        /\ p.cost = i.unitCost /\ p.moq = i.moq /\ p.supply = i.supply

PlanAgreesWithPolicy ==
  LET d == Decide(case.inputs) IN
  (/\ stage = "done" /\ ~Alternates /\ ~gaveUp
   /\ d.type \in {"ACCEPT", "MODIFY"} /\ PreferredIsUnchanged)
  => /\ status = "AWAITING_APPROVAL"
     /\ final = [quantity |-> d.quantity, cost |-> d.cost]
     /\ Lines(plan) = {case.preferred}

(***************************************************************************)
(* What the repository's documents say and the code does not do.           *)
(***************************************************************************)

\* The quantity and cost of a proposal are the sums of its plan's lines.
FinalIsLineSum ==
  status = "AWAITING_APPROVAL" =>
    /\ final.quantity = Sum(plan.lots)
    /\ final.cost = Sum([c \in Ids |-> plan.lots[c] * case.suppliers[c].cost])
=============================================================================
