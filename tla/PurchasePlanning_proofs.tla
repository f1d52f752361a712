---------------------- MODULE PurchasePlanning_proofs ----------------------
(***************************************************************************)
(* Proofs about PurchasePlanning: types, the policy's quantity, and that   *)
(* pruning the frontier never costs a better plan, for any number of       *)
(* suppliers, any terms and any order in which the frontier is expanded.   *)
(***************************************************************************)
EXTENDS PurchasePlanning, PurchasePolicy_proofs

-----------------------------------------------------------------------------
(***************************************************************************)
(* Types.                                                                  *)
(***************************************************************************)

LEMMA NeedType == ASSUME case \in Case PROVE TargetNeed \in Nat
<1>1. case.inputs \in Inputs BY DEF Case
<1> QED BY <1>1, NeedIsNat, FeasibleIsNat DEF TargetNeed

LEMMA SupplierType ==
  ASSUME case \in Case, NEW c \in Ids
  PROVE  case.suppliers[c] \in Supplier
<1>1. case.suppliers \in Seq(Supplier) BY DEF Case
<1> QED BY <1>1 DEF Ids

LEMMA IdsAreNumbers == ASSUME case \in Case PROVE Ids \subseteq Nat \ {0}
<1>1. case.suppliers \in Seq(Supplier) BY DEF Case
<1>2. Ids = 1..Len(case.suppliers) /\ Len(case.suppliers) \in Nat BY <1>1 DEF Ids
<1> QED BY <1>2

LEMMA EligibleAreIds == Eligible \subseteq Ids
BY DEF Eligible, Candidates, PreferredAlone

LEMMA RangeType == ASSUME case \in Case PROVE SearchRange \subseteq Nat
<1> SUFFICES ASSUME NEW q \in SearchRange PROVE q \in Nat OBVIOUS
<1>1. PICK c \in Eligible : q \in 0..(TargetNeed + case.suppliers[c].moq - 1)
  BY DEF SearchRange
<1>2. case.suppliers[c].moq \in Nat
  BY SupplierType, EligibleAreIds DEF Supplier, Positive
<1> QED BY <1>1, <1>2, NeedType

\* A partial plan with one line more is a partial plan.
LEMMA ExtendType ==
  ASSUME case \in Case, NEW s \in PartialPlan, NEW c \in Ids, NEW q \in Nat
  PROVE  Extend(s, c, q) \in PartialPlan
<1>1. /\ case.suppliers[c].cost \in Nat /\ case.suppliers[c].reliability \in Nat
      /\ case.suppliers[c].delivery \in Nat
  BY SupplierType DEF Supplier, Positive
<1>2. /\ s.lots \in [Ids -> Nat] /\ s.quantity \in Nat /\ s.reliability \in Nat
      /\ s.cost \in Nat /\ s.lines \in Nat /\ s.delivery \in Nat
  BY DEF PartialPlan, PartialPlanOf
<1>3. Effective(s, q) \in Nat
  BY <1>2, NeedType DEF Effective, Smaller, AtLeastZero
<1>4. [s.lots EXCEPT ![c] = q] \in [Ids -> Nat] BY <1>2
<1>5. s.quantity + q \in Nat BY <1>2
<1>6. s.reliability + Effective(s, q) * case.suppliers[c].reliability \in Nat
  BY <1>1, <1>2, <1>3
<1>7. s.cost + q * case.suppliers[c].cost \in Nat BY <1>1, <1>2
<1>8. (IF q > 0 THEN s.lines + 1 ELSE s.lines) \in Nat BY <1>2
<1>9. (IF q > 0 /\ case.suppliers[c].delivery > s.delivery
         THEN case.suppliers[c].delivery ELSE s.delivery) \in Nat
  BY <1>1, <1>2
<1> QED BY <1>4, <1>5, <1>6, <1>7, <1>8, <1>9 DEF Extend, PartialPlan, PartialPlanOf

LEMMA OptionType ==
  ASSUME case \in Case, NEW s, NEW c, NEW q \in Options(s, c)
  PROVE  q \in Nat
BY RangeType DEF Options, Lots

LEMMA AddedType ==
  ASSUME TypeOK, turn \in Ids, NEW s \in PartialPlan
  PROVE  Added(s, Options(s, turn)) \subseteq PartialPlan
<1>1. \A q \in Options(s, turn) : Extend(s, turn, q) \in PartialPlan
  BY OptionType, ExtendType DEF TypeOK
<1>2. next \subseteq PartialPlan BY DEF TypeOK
<1> QED BY <1>1, <1>2 DEF Added

\* The supplier whose turn it is exists while options are added.
TurnIsSupplier == stage = "options" => turn \in Ids

LEMMA InitType == Init => TypeOK /\ TurnIsSupplier
<1> SUFFICES ASSUME Init PROVE TypeOK /\ TurnIsSupplier OBVIOUS
<1>1. case \in Case BY CasesAssumption DEF Init
<1>2. final \in [quantity : Nat, cost : Nat] BY DEF Init, NoQuote
<1>3. stage = "policy" /\ status = "EVALUATING" BY DEF Init
<1>4. todo = {} /\ turn = 0 /\ frontier \cup pending \cup next \cup all = {}
      /\ gaveUp = FALSE /\ plan = NoPlan
  BY DEF Init
<1> QED BY <1>1, <1>2, <1>3, <1>4 DEF TypeOK, TurnIsSupplier

LEMMA NextType ==
  ASSUME TypeOK, TurnIsSupplier, [Next]_vars PROVE TypeOK' /\ TurnIsSupplier'
<1> USE DEF TypeOK, TurnIsSupplier
<1>0. case \in Case OBVIOUS
<1>c. ASSUME case' = case PROVE Ids' = Ids /\ PartialPlan' = PartialPlan
  BY <1>c DEF Ids, PartialPlan, PartialPlanOf
<1>1. CASE EndWithoutOrder
  BY <1>1, <1>c DEF EndWithoutOrder, OutcomeWithoutOrder, search
<1>2. CASE StartSearch
  <2>1. EmptyPlan \in PartialPlan BY DEF EmptyPlan, PartialPlan, PartialPlanOf
  <2> QED BY <1>2, <1>c, <2>1, EligibleAreIds DEF StartSearch
<1>3. CASE NextSupplier
  <2>1. PICK c \in todo :
          turn' = c /\ todo' = todo \ {c}
          /\ all' = UNION {{Extend(a, c, q) : q \in Options(a, c)} : a \in all}
    BY <1>3 DEF NextSupplier
  <2>2. \A a \in all : \A q \in Options(a, c) : Extend(a, c, q) \in PartialPlan
    BY OptionType, ExtendType
  <2>3. all' \subseteq PartialPlan BY <2>1, <2>2
  <2> QED BY <1>3, <1>c, <2>1, <2>3 DEF NextSupplier
<1>4. ASSUME NEW s \in pending, AddOptions(s) PROVE TypeOK' /\ TurnIsSupplier'
  <2>1. stage = "options" /\ s \in PartialPlan BY <1>4 DEF AddOptions
  <2>2. Added(s, Options(s, turn)) \subseteq PartialPlan BY <2>1, AddedType
  <2> QED BY <1>4, <1>c, <2>2 DEF AddOptions
<1>5. CASE EndSupplier
  BY <1>5, <1>c DEF EndSupplier
<1>6. CASE Choose
  <2>1. plan' \in PartialPlan \cup {NoPlan} BY <1>6 DEF Choose, Best, Buying
  <2> QED BY <1>6, <1>c, <2>1 DEF Choose, search
<1>7. CASE SavePlan
  <2>1. ASSUME Complete PROVE [quantity |-> Covered(plan), cost |-> plan.cost]
                                \in [quantity : Nat, cost : Nat]
    <3>1. plan \in PartialPlan BY <2>1 DEF Complete
    <3>2. plan.quantity \in Nat /\ plan.cost \in Nat BY <3>1 DEF PartialPlan, PartialPlanOf
    <3> QED BY <3>2, NeedType DEF Covered, Smaller
  <2>2. final' \in [quantity : Nat, cost : Nat] BY <1>7, <2>1 DEF SavePlan, FinalQuote, NoQuote
  <2> QED BY <1>7, <1>c, <2>2 DEF SavePlan, search
<1>8. CASE Finished \/ UNCHANGED vars
  BY <1>8, <1>c DEF Finished, vars
<1> QED BY <1>1, <1>2, <1>3, <1>4, <1>5, <1>6, <1>7, <1>8 DEF Next

\* Every variable keeps its type.
THEOREM TypeCorrect == Spec => []TypeOK
<1>1. Init => TypeOK /\ TurnIsSupplier BY InitType
<1>2. TypeOK /\ TurnIsSupplier /\ [Next]_vars => TypeOK' /\ TurnIsSupplier' BY NextType
<1> QED BY <1>1, <1>2, PTL DEF Spec

\* The decision a review is planned with has the right quantity.
THEOREM PolicyQuantity == Spec => []PolicyQuantityIsRight
<1>1. TypeOK => PolicyQuantityIsRight
  <2>1. TypeOK => case.inputs \in Inputs BY DEF TypeOK, Case
  <2> QED BY <2>1, QuantityRight DEF PolicyQuantityIsRight
<1> QED BY <1>1, TypeCorrect, PTL

-----------------------------------------------------------------------------
(***************************************************************************)
(* Pruning.                                                                *)
(***************************************************************************)

LEMMA NoWorseReflexive == ASSUME NEW s \in PartialPlan PROVE NoWorse(s, s)
BY DEF PartialPlan, PartialPlanOf, NoWorse

LEMMA NoWorseTransitive ==
  ASSUME NEW a \in PartialPlan, NEW b \in PartialPlan, NEW c \in PartialPlan,
         NoWorse(a, b), NoWorse(b, c)
  PROVE  NoWorse(a, c)
BY DEF PartialPlan, PartialPlanOf, NoWorse

\* What is no worse has every option, and stays no worse with it: the search
\* may decide between two partial plans before it knows how they go on.
LEMMA NoWorseExtends ==
  ASSUME case \in Case, NEW l \in PartialPlan, NEW r \in PartialPlan, NoWorse(l, r),
         NEW c \in Ids, NEW q \in Options(r, c)
  PROVE  q \in Options(l, c) /\ NoWorse(Extend(l, c, q), Extend(r, c, q))
<1> DEFINE p == case.suppliers[c]
<1>1. p.cost \in Nat /\ p.reliability \in Nat /\ p.delivery \in Nat
  BY SupplierType DEF Supplier, Positive
<1>2. q \in Nat BY OptionType
<1>3. /\ l.quantity = r.quantity /\ l.reliability >= r.reliability
      /\ l.cost <= r.cost /\ l.lines <= r.lines /\ l.delivery <= r.delivery
  BY DEF NoWorse
<1>4. /\ l.quantity \in Nat /\ l.reliability \in Nat /\ l.cost \in Nat
      /\ l.lines \in Nat /\ l.delivery \in Nat
      /\ r.quantity \in Nat /\ r.reliability \in Nat /\ r.cost \in Nat
      /\ r.lines \in Nat /\ r.delivery \in Nat
  BY DEF PartialPlan, PartialPlanOf
<1>5. case.inputs.budget \in Nat BY DEF Case, Inputs
<1>6. q * p.cost \in Nat BY <1>1, <1>2
<1>7. q \in Options(l, c)
  <2>1. q \in Lots(l, c) BY <1>3 DEF Options, Lots
  <2>2. /\ r.cost + q * p.cost <= case.inputs.budget
        /\ (r.quantity + q) * case.inputs.unitVolume <= case.inputs.storage
    BY DEF Options
  <2>3. l.cost + q * p.cost <= case.inputs.budget BY <1>3, <1>4, <1>5, <1>6, <2>2
  <2> QED BY <1>3, <2>1, <2>2, <2>3 DEF Options
<1>8. Effective(l, q) = Effective(r, q) /\ Effective(r, q) \in Nat
  BY <1>2, <1>3, <1>4, NeedType DEF Effective, Smaller, AtLeastZero
<1>9. Effective(r, q) * p.reliability \in Nat BY <1>1, <1>8
<1> DEFINE x == Extend(l, c, q)
           y == Extend(r, c, q)
<1>10. x.quantity = y.quantity BY <1>3 DEF Extend
<1>11. x.reliability >= y.reliability BY <1>3, <1>4, <1>8, <1>9 DEF Extend
<1>12. x.cost <= y.cost BY <1>3, <1>4, <1>6 DEF Extend
<1>13. x.lines <= y.lines BY <1>2, <1>3, <1>4 DEF Extend
<1>14. x.delivery <= y.delivery BY <1>1, <1>2, <1>3, <1>4 DEF Extend
<1> HIDE DEF x, y
<1>15. NoWorse(x, y) BY <1>10, <1>11, <1>12, <1>13, <1>14 DEF NoWorse
<1> QED BY <1>7, <1>15 DEF x, y

\* What was in the buckets, and what was added, is still matched there.
LEMMA AddedMatches ==
  ASSUME TypeOK, turn \in Ids, NEW s \in PartialPlan,
         NEW e \in next \cup {Extend(s, turn, q) : q \in Options(s, turn)}
  PROVE  \E x \in Added(s, Options(s, turn)) : NoWorse(x, e)
<1> DEFINE Es == {Extend(s, turn, q) : q \in Options(s, turn)}
           new == {x \in Es : ~\E d \in next : Dominates(d, x)}
<1>1. Es \subseteq PartialPlan BY OptionType, ExtendType DEF TypeOK
<1>2. next \subseteq PartialPlan BY DEF TypeOK
<1>3. Added(s, Options(s, turn)) = {d \in next : ~\E x \in new : Dominates(x, d)} \cup new
  BY DEF Added
<1>4. new \subseteq Es OBVIOUS
<1>5. \A d \in Es : d \in new \/ \E y \in next : Dominates(y, d) OBVIOUS
<1>6. e \in next \/ e \in Es OBVIOUS
<1> HIDE DEF Es, new
<1>7. ASSUME NEW d \in next PROVE \E x \in Added(s, Options(s, turn)) : NoWorse(x, d)
  <2>1. CASE \E x \in new : Dominates(x, d) BY <2>1, <1>3 DEF Dominates
  <2>2. CASE ~\E x \in new : Dominates(x, d)
    BY <2>2, <1>2, <1>3, NoWorseReflexive
  <2> QED BY <2>1, <2>2
<1>8. ASSUME NEW d \in Es PROVE \E x \in Added(s, Options(s, turn)) : NoWorse(x, d)
  <2>1. CASE d \in new BY <2>1, <1>1, <1>3, NoWorseReflexive
  <2>2. CASE \E y \in next : Dominates(y, d)
    <3>1. PICK y \in next : NoWorse(y, d) BY <2>2 DEF Dominates
    <3>2. PICK x \in Added(s, Options(s, turn)) : NoWorse(x, y) BY <1>7
    <3>3. x \in PartialPlan BY <3>2, <1>1, <1>2, <1>3, <1>4
    <3> QED BY <3>1, <3>2, <3>3, <1>1, <1>2, NoWorseTransitive
  <2> QED BY <2>1, <2>2, <1>5
<1> QED BY <1>6, <1>7, <1>8

\* Before a supplier's turn, every partial plan is matched by one in the
\* frontier.
FrontierMatches ==
  stage = "suppliers" => \A a \in all : \E f \in frontier : NoWorse(f, a)

\* During it, by one that was added or that is still to be added.
OptionsMatch ==
  stage = "options" =>
    \A a \in all :
      \/ \E x \in next : NoWorse(x, a)
      \/ \E s \in pending : \E q \in Options(s, turn) : NoWorse(Extend(s, turn, q), a)

PlannedLast == stage \in {"policy", "suppliers", "options"} => plan = NoPlan

IInv ==
  /\ TypeOK /\ TurnIsSupplier
  /\ FrontierMatches /\ OptionsMatch /\ PlannedLast
  /\ PruningLosesNothing

\* Nothing ranks before the best of the frontier that something in the
\* frontier matches.
LEMMA BestBeatsMatched ==
  ASSUME case \in Case, NEW best \in PartialPlan, NEW f \in PartialPlan, NEW a \in PartialPlan,
         NoWorse(f, a), ~Before(f, best)
  PROVE  ~Before(a, best)
<1>1. TargetNeed \in Nat BY NeedType
<1>2. Covered(f) = Covered(a) BY DEF Covered, NoWorse
<1>3. Covered(a) \in Nat /\ Covered(best) \in Nat
  BY <1>1 DEF Covered, Smaller, PartialPlan, PartialPlanOf
<1>4. /\ f.reliability >= a.reliability /\ f.cost <= a.cost /\ f.lines <= a.lines
      /\ f.delivery <= a.delivery
  BY DEF NoWorse
<1>5. \A s \in {best, f, a} :
        s.reliability \in Nat /\ s.cost \in Nat /\ s.lines \in Nat /\ s.delivery \in Nat
  BY DEF PartialPlan, PartialPlanOf
<1> QED BY <1>2, <1>3, <1>4, <1>5 DEF Before

LEMMA NextInv == ASSUME IInv, [Next]_vars PROVE IInv'
<1> USE DEF IInv
<1>0. TypeOK' /\ TurnIsSupplier' BY NextType
<1>t. case \in Case /\ frontier \subseteq PartialPlan /\ all \subseteq PartialPlan
      /\ next \subseteq PartialPlan /\ pending \subseteq PartialPlan
  BY DEF TypeOK
<1>1. CASE EndWithoutOrder
  <2>1. stage' = "done" /\ plan' = NoPlan
    BY <1>1 DEF EndWithoutOrder, PlannedLast
  <2> QED BY <1>0, <2>1 DEF FrontierMatches, OptionsMatch, PlannedLast, PruningLosesNothing
<1>2. CASE StartSearch
  <2>1. EmptyPlan \in PartialPlan BY DEF EmptyPlan, PartialPlan, PartialPlanOf
  <2>2. frontier' = {EmptyPlan} /\ all' = {EmptyPlan} /\ stage' = "suppliers" /\ plan' = NoPlan
    BY <1>2 DEF StartSearch, PlannedLast
  <2>3. NoWorse(EmptyPlan, EmptyPlan) BY <2>1, NoWorseReflexive
  <2>4. FrontierMatches' BY <2>2, <2>3 DEF FrontierMatches, NoWorse
  <2> QED BY <1>0, <2>2, <2>4 DEF OptionsMatch, PlannedLast, PruningLosesNothing
<1>3. CASE NextSupplier
  <2>1. PICK c \in todo :
          turn' = c /\ all' = UNION {{Extend(a, c, q) : q \in Options(a, c)} : a \in all}
    BY <1>3 DEF NextSupplier
  <2>2. /\ pending' = frontier /\ stage = "suppliers" /\ stage' = "options"
        /\ case' = case /\ plan' = plan
    BY <1>3 DEF NextSupplier
  <2>3. c \in Ids BY <2>1 DEF TypeOK
  <2>4. ASSUME NEW b \in all'
        PROVE \E s \in frontier : \E q \in Options(s, c) : NoWorse(Extend(s, c, q), b)
    <3>1. PICK a \in all : \E q \in Options(a, c) : b = Extend(a, c, q) BY <2>1
    <3>2. PICK q \in Options(a, c) : b = Extend(a, c, q) BY <3>1
    <3>3. PICK f \in frontier : NoWorse(f, a) BY <2>2 DEF FrontierMatches
    <3>4. q \in Options(f, c) /\ NoWorse(Extend(f, c, q), Extend(a, c, q))
      BY <1>t, <2>3, <3>2, <3>3, NoWorseExtends
    <3> QED BY <3>2, <3>3, <3>4
  <2>5. \A s, q : Extend(s, turn, q)' = Extend(s, turn', q)
    BY <2>2 DEF Extend, Effective, TargetNeed, Alternates
  <2>6. \A s : Options(s, turn)' = Options(s, turn')
    BY <2>2 DEF Options, Lots, SearchRange, Eligible, Candidates, PreferredAlone, TargetNeed,
                Alternates, Ids
  <2>7. \A a \in all' : \E s \in pending' : \E q \in Options(s, turn)' :
          NoWorse(Extend(s, turn, q)', a)
    BY <2>1, <2>2, <2>4, <2>5, <2>6
  <2>8. OptionsMatch' BY <2>7 DEF OptionsMatch, NoWorse
  <2> QED BY <1>0, <2>2, <2>8 DEF FrontierMatches, PlannedLast, PruningLosesNothing
<1>4. ASSUME NEW s \in pending, AddOptions(s) PROVE IInv'
  <2>1. /\ stage = "options" /\ all' = all /\ turn' = turn /\ case' = case /\ plan' = plan
        /\ plan = NoPlan /\ turn \in Ids
    BY <1>4 DEF AddOptions, PlannedLast, TurnIsSupplier
  <2>2. CASE TooComplex(s)
    BY <1>0, <1>4, <2>1, <2>2
       DEF AddOptions, FrontierMatches, OptionsMatch, PlannedLast, PruningLosesNothing
  <2>3. CASE ~TooComplex(s)
    <3>1. /\ next' = Added(s, Options(s, turn)) /\ pending' = pending \ {s}
          /\ stage' = "options"
      BY <1>4, <2>1, <2>3 DEF AddOptions
    <3>2. \A r, q : Extend(r, turn, q)' = Extend(r, turn, q)
      BY <2>1 DEF Extend, Effective, TargetNeed, Alternates
    <3>3. \A r : Options(r, turn)' = Options(r, turn)
      BY <2>1 DEF Options, Lots, SearchRange, Eligible, Candidates, PreferredAlone, TargetNeed,
                  Alternates, Ids
    <3>4. next' \subseteq PartialPlan BY <3>1, <2>1, <1>t, AddedType
    <3>5. \A q \in Options(s, turn) : Extend(s, turn, q) \in PartialPlan
      BY <1>t, <2>1, OptionType, ExtendType
    <3>6. ASSUME NEW a \in all
          PROVE \/ \E x \in next' : NoWorse(x, a)
                \/ \E r \in pending' : \E q \in Options(r, turn) : NoWorse(Extend(r, turn, q), a)
      <4>1. ASSUME NEW e \in next \cup {Extend(s, turn, q) : q \in Options(s, turn)},
                   NoWorse(e, a)
            PROVE  \E x \in next' : NoWorse(x, a)
        <5>1. PICK x \in next' : NoWorse(x, e) BY <3>1, <2>1, <1>t, AddedMatches
        <5>2. x \in PartialPlan /\ e \in PartialPlan /\ a \in PartialPlan
          BY <1>t, <3>4, <3>5
        <5> QED BY <4>1, <5>1, <5>2, NoWorseTransitive
      <4>2. \/ \E x \in next : NoWorse(x, a)
            \/ \E r \in pending : \E q \in Options(r, turn) : NoWorse(Extend(r, turn, q), a)
        BY <2>1 DEF OptionsMatch
      <4>3. CASE \E x \in next : NoWorse(x, a) BY <4>1, <4>3
      <4>4. CASE \E r \in pending : \E q \in Options(r, turn) : NoWorse(Extend(r, turn, q), a)
        <5>1. PICK r \in pending : \E q \in Options(r, turn) : NoWorse(Extend(r, turn, q), a)
          BY <4>4
        <5>2. CASE r = s BY <5>1, <5>2, <4>1
        <5>3. CASE r # s BY <5>1, <5>3, <3>1
        <5> QED BY <5>2, <5>3
      <4> QED BY <4>2, <4>3, <4>4
    <3>7. \A a \in all' : \/ \E x \in next' : NoWorse(x, a)
                          \/ \E r \in pending' : \E q \in Options(r, turn)' :
                               NoWorse(Extend(r, turn, q)', a)
      BY <2>1, <3>2, <3>3, <3>6
    <3>8. OptionsMatch' BY <3>7 DEF OptionsMatch, NoWorse
    <3> QED BY <1>0, <2>1, <3>1, <3>8 DEF FrontierMatches, PlannedLast, PruningLosesNothing
  <2> QED BY <2>2, <2>3
<1>5. CASE EndSupplier
  <2>1. /\ stage = "options" /\ pending = {} /\ frontier' = next /\ stage' = "suppliers"
        /\ all' = all /\ plan' = plan
    BY <1>5 DEF EndSupplier
  <2>2. \A a \in all' : \E f \in frontier' : NoWorse(f, a) BY <2>1 DEF OptionsMatch
  <2>3. FrontierMatches' BY <2>2 DEF FrontierMatches, NoWorse
  <2> QED BY <1>0, <2>1, <2>3 DEF OptionsMatch, PlannedLast, PruningLosesNothing
<1>6. CASE Choose
  <2>1. stage = "suppliers" /\ stage' = "planned" /\ all' = all /\ case' = case
    BY <1>6 DEF Choose, search
  <2>2. CASE plan' = NoPlan
    BY <1>0, <2>1, <2>2 DEF FrontierMatches, OptionsMatch, PlannedLast, PruningLosesNothing
  <2>3. CASE plan' # NoPlan
    <3>1. plan' \in Best(Buying(frontier))
      BY <1>6, <2>1, <2>3 DEF Choose, PlannedLast
    <3>2. plan' \in PartialPlan /\ \A f \in Buying(frontier) : ~Before(f, plan')
      BY <3>1, <1>t DEF Best, Buying
    <3>3. ASSUME NEW a \in Buying(all) PROVE ~Before(a, plan')
      <4>1. a \in all /\ a \in PartialPlan /\ a.quantity > 0 BY <1>t DEF Buying
      <4>2. PICK f \in frontier : NoWorse(f, a) BY <2>1, <4>1 DEF FrontierMatches
      <4>3. f \in Buying(frontier) /\ f \in PartialPlan
        BY <1>t, <4>1, <4>2 DEF Buying, NoWorse
      <4> QED BY <1>t, <3>2, <4>1, <4>2, <4>3, BestBeatsMatched
    <3>4. \A a \in Buying(all)' : ~Before(a, plan)'
      BY <2>1, <3>3 DEF Buying, Before, Covered, TargetNeed, Alternates
    <3>5. PruningLosesNothing' BY <3>4 DEF PruningLosesNothing
    <3> QED BY <1>0, <2>1, <3>5 DEF FrontierMatches, OptionsMatch, PlannedLast
  <2> QED BY <2>2, <2>3
<1>7. CASE SavePlan
  <2>1. /\ stage' = "done" /\ all' = all /\ case' = case /\ plan' = plan
    BY <1>7 DEF SavePlan, search
  <2>2. PruningLosesNothing'
    BY <2>1 DEF PruningLosesNothing, Buying, Before, Covered, TargetNeed, Alternates
  <2> QED BY <1>0, <2>1, <2>2 DEF FrontierMatches, OptionsMatch, PlannedLast
<1>8. CASE Finished \/ UNCHANGED vars
  <2>1. UNCHANGED vars BY <1>8 DEF Finished
  <2> QED BY <1>0, <2>1
          DEF vars, FrontierMatches, OptionsMatch, PlannedLast, PruningLosesNothing, Buying,
              Before, Covered, TargetNeed, Alternates, NoWorse, Extend, Effective, Options, Lots,
              SearchRange, Eligible, Candidates, PreferredAlone, Ids
<1> QED BY <1>1, <1>2, <1>3, <1>4, <1>5, <1>6, <1>7, <1>8 DEF Next

\* However the suppliers' terms are, and in whatever order the frontier is
\* expanded, no partial plan that was dropped would have ranked before the plan
\* that is chosen.
THEOREM PruningIsSafe == Spec => []PruningLosesNothing
<1>1. Init => IInv
  BY InitType DEF Init, IInv, FrontierMatches, OptionsMatch, PlannedLast, PruningLosesNothing
<1>2. IInv /\ [Next]_vars => IInv' BY NextInv
<1>3. IInv => PruningLosesNothing BY DEF IInv
<1> QED BY <1>1, <1>2, <1>3, PTL DEF Spec

-----------------------------------------------------------------------------
(***************************************************************************)
(* Limits.                                                                 *)
(***************************************************************************)

\* A partial plan orders from suppliers that may be asked only, from each a
\* multiple of its minimum order that it has, and as a whole within budget and
\* storage.
WithinLimits(s) ==
  /\ \A c \in Ids : s.lots[c] > 0 =>
       /\ c \in Eligible
       /\ s.lots[c] % case.suppliers[c].moq = 0
       /\ InSupply(s.lots[c], case.suppliers[c].supply)
  /\ s.cost <= case.inputs.budget
  /\ s.quantity * case.inputs.unitVolume <= case.inputs.storage

LimitsInv ==
  /\ TypeOK /\ TurnIsSupplier
  /\ todo \subseteq Eligible
  /\ stage = "options" => turn \in Eligible
  /\ \A s \in frontier \cup pending \cup next : WithinLimits(s)
  /\ plan # NoPlan => WithinLimits(plan)

\* A line the loop adds keeps the limits of the whole.
LEMMA ExtendKeepsLimits ==
  ASSUME case \in Case, NEW s \in PartialPlan, WithinLimits(s),
         NEW c \in Eligible, NEW q \in Options(s, c)
  PROVE  WithinLimits(Extend(s, c, q))
<1>1. s.lots \in [Ids -> Nat] BY DEF PartialPlan, PartialPlanOf
<1>2. /\ q % case.suppliers[c].moq = 0 /\ InSupply(q, case.suppliers[c].supply)
      /\ s.cost + q * case.suppliers[c].cost <= case.inputs.budget
      /\ (s.quantity + q) * case.inputs.unitVolume <= case.inputs.storage
  BY DEF Options, Lots
<1>3. /\ Extend(s, c, q).lots = [s.lots EXCEPT ![c] = q]
      /\ Extend(s, c, q).cost = s.cost + q * case.suppliers[c].cost
      /\ Extend(s, c, q).quantity = s.quantity + q
  BY DEF Extend
<1>4. ASSUME NEW d \in Ids, Extend(s, c, q).lots[d] > 0
      PROVE  /\ d \in Eligible
             /\ Extend(s, c, q).lots[d] % case.suppliers[d].moq = 0
             /\ InSupply(Extend(s, c, q).lots[d], case.suppliers[d].supply)
  <2>1. CASE d = c
    <3>1. Extend(s, c, q).lots[d] = q BY <1>1, <1>3, <2>1
    <3> QED BY <1>2, <2>1, <3>1
  <2>2. CASE d # c
    <3>1. Extend(s, c, q).lots[d] = s.lots[d] BY <1>1, <1>3, <2>2
    <3> QED BY <1>4, <3>1 DEF WithinLimits
  <2> QED BY <2>1, <2>2
<1> QED BY <1>2, <1>3, <1>4 DEF WithinLimits

\* The empty plan, which the search starts from, keeps them.
LEMMA EmptyKeepsLimits == ASSUME case \in Case PROVE WithinLimits(EmptyPlan)
<1>1. case.inputs.budget \in Nat /\ case.inputs.storage \in Nat /\ case.inputs.unitVolume \in Nat
  BY DEF Case, Inputs, Positive
<1>2. \A c \in Ids : EmptyPlan.lots[c] = 0 BY DEF EmptyPlan
<1>3. EmptyPlan.cost = 0 /\ EmptyPlan.quantity = 0 BY DEF EmptyPlan
<1> QED BY <1>1, <1>2, <1>3 DEF WithinLimits

\* The suppliers that may be asked and the limits depend on the case alone.
LEMMA CaseFixesLimits ==
  ASSUME case' = case
  PROVE  /\ Eligible' = Eligible
         /\ \A s : WithinLimits(s)' <=> WithinLimits(s)
<1>1. Eligible' = Eligible /\ Ids' = Ids
  BY DEF Eligible, Candidates, PreferredAlone, TargetNeed, Alternates, Ids
<1> QED BY <1>1 DEF WithinLimits

LEMMA NextLimits == ASSUME LimitsInv, [Next]_vars PROVE LimitsInv'
<1> USE DEF LimitsInv
<1>0. TypeOK' /\ TurnIsSupplier' BY NextType
<1>t. /\ case \in Case /\ next \subseteq PartialPlan /\ pending \subseteq PartialPlan
  BY DEF TypeOK
<1>c. case' = case
  BY DEF Next, vars, EndWithoutOrder, StartSearch, NextSupplier, AddOptions, EndSupplier, Choose,
         SavePlan, Finished
<1>e. Eligible' = Eligible BY <1>c, CaseFixesLimits
<1>w. ASSUME /\ \A s \in frontier' \cup pending' \cup next' : WithinLimits(s)
             /\ plan' # NoPlan => WithinLimits(plan')
             /\ todo' \subseteq Eligible
             /\ stage' = "options" => turn' \in Eligible
      PROVE  LimitsInv'
  <2>1. \A s : WithinLimits(s)' <=> WithinLimits(s) BY <1>c, CaseFixesLimits
  <2>2. (\A s \in frontier \cup pending \cup next : WithinLimits(s))'
    BY <1>w, <1>c, <1>e DEF WithinLimits, Ids
  <2>3. (plan # NoPlan => WithinLimits(plan))' BY <1>w, <1>c, <1>e DEF WithinLimits, Ids
  <2> QED BY <1>0, <1>e, <1>w, <2>2, <2>3
<1>1. CASE EndWithoutOrder BY <1>1, <1>w DEF EndWithoutOrder, search
<1>2. CASE StartSearch BY <1>2, <1>t, <1>w, EmptyKeepsLimits DEF StartSearch
<1>3. CASE NextSupplier BY <1>3, <1>w DEF NextSupplier
<1>4. ASSUME NEW s \in pending, AddOptions(s) PROVE LimitsInv'
  <2>1. ASSUME NEW x \in Added(s, Options(s, turn)) PROVE WithinLimits(x)
    <3>1. turn \in Eligible /\ s \in PartialPlan /\ WithinLimits(s)
      BY <1>4, <1>t DEF AddOptions
    <3>2. \A q \in Options(s, turn) : WithinLimits(Extend(s, turn, q))
      BY <1>t, <3>1, ExtendKeepsLimits
    <3> QED BY <2>1, <3>2 DEF Added
  <2> QED BY <1>4, <1>w, <2>1 DEF AddOptions
<1>5. CASE EndSupplier BY <1>5, <1>w DEF EndSupplier
<1>6. CASE Choose
  <2>1. plan' # NoPlan => WithinLimits(plan') BY <1>6 DEF Choose, Best, Buying
  <2> QED BY <1>6, <1>w, <2>1 DEF Choose, search
<1>7. CASE SavePlan BY <1>7, <1>w DEF SavePlan, search
<1>8. CASE Finished \/ UNCHANGED vars BY <1>8, <1>w DEF Finished, vars
<1> QED BY <1>1, <1>2, <1>3, <1>4, <1>5, <1>6, <1>7, <1>8 DEF Next

\* A chosen plan keeps every supplier's minimum order and availability, and
\* its quantity and cost, as the search adds them up, storage and budget.
THEOREM PlanIsWithinLimits == Spec => [](plan # NoPlan => WithinLimits(plan))
<1>1. Init => LimitsInv
  BY InitType DEF Init, LimitsInv
<1>2. LimitsInv /\ [Next]_vars => LimitsInv' BY NextLimits
<1>3. LimitsInv => (plan # NoPlan => WithinLimits(plan)) BY DEF LimitsInv
<1> QED BY <1>1, <1>2, <1>3, PTL DEF Spec
=============================================================================
