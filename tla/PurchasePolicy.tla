--------------------------- MODULE PurchasePolicy ---------------------------
(***************************************************************************)
(* calculate_decision (domain/policy.py): from the evidence of a review to *)
(* a quantity and a decision, for one supplier's terms.  Integers only:    *)
(* quantities, money in minor units, volume.                               *)
(*                                                                         *)
(* Left out: the currency itself and the wording of facts, reason codes    *)
(* and the confidence label.                                               *)
(***************************************************************************)
EXTENDS Integers

CONSTANT Unlimited  \* the availability of a supplier that names none

ASSUME UnlimitedAssumption == Unlimited \notin Nat

Positive == Nat \ {0}
Supply   == Nat \cup {Unlimited}

\* PurchaseInputs, with its field constraints.
Inputs ==
  [original : Nat, onHand : Nat, reserved : Nat, damaged : Nat, incoming : Nat,
   forecast : Nat, safety : Nat, budget : Nat, storage : Nat, supply : Supply,
   unitCost : Positive, moq : Positive, unitVolume : Positive,
   sameCurrency : BOOLEAN, allFresh : BOOLEAN, complete : BOOLEAN]

AtLeastZero(n) == IF n > 0 THEN n ELSE 0
Smaller(a, b)  == IF a <= b THEN a ELSE b

InSupply(q, supply) == supply = Unlimited \/ q <= supply

Usable(i) == AtLeastZero(i.onHand - i.reserved - i.damaged)
Need(i)   == AtLeastZero(i.forecast + i.safety - (Usable(i) + i.incoming))

\* The units that budget, storage and supplier allow.
NonNeedCap(i) ==
  LET own == Smaller(i.budget \div i.unitCost, i.storage \div i.unitVolume)
  IN IF i.supply = Unlimited THEN own ELSE Smaller(own, i.supply)

\* Variant: a need that is a multiple already is rounded up to the next one.
RoundedPast(n, moq) == ((n + moq) \div moq) * moq

RoundedUp(n, moq)   == ((n + moq - 1) \div moq) * moq
RoundedDown(n, moq) == (n \div moq) * moq

\* The multiple of the minimum order that is proposed, 0 when there is none.
Feasible(i) ==
  LET rounded == RoundedUp(Need(i), i.moq)
  IN IF Need(i) = 0 \/ NonNeedCap(i) < i.moq THEN 0
     ELSE IF rounded <= NonNeedCap(i) THEN rounded
     ELSE RoundedDown(NonNeedCap(i), i.moq)

\* The early returns with an INVESTIGATE decision.
Deficient(i) == ~i.sameCurrency \/ ~i.allFresh \/ ~i.complete

DecisionTypes == {"ACCEPT", "MODIFY", "REJECT", "INVESTIGATE"}

DecisionType(i) ==
  IF Deficient(i) THEN "INVESTIGATE"
  ELSE IF Need(i) = 0 THEN "REJECT"
  ELSE IF Feasible(i) = 0 THEN "INVESTIGATE"
  ELSE IF Feasible(i) = i.original THEN "ACCEPT"
  ELSE "MODIFY"

\* PurchaseDecision; _investigate reports no quantity and no need.
Decide(i) ==
  [type     |-> DecisionType(i),
   need     |-> IF Deficient(i) THEN 0 ELSE Need(i),
   quantity |-> IF Deficient(i) THEN 0 ELSE Feasible(i),
   cost     |-> IF Deficient(i) THEN 0 ELSE Feasible(i) * i.unitCost]

-----------------------------------------------------------------------------
(***************************************************************************)
(* What the quantity is, said without division: an order fits when it is a *)
(* multiple of the minimum order within budget, storage and supply.        *)
(***************************************************************************)

Fits(i, q) ==
  /\ \E n \in 0..q : q = n * i.moq
  /\ q * i.unitCost <= i.budget
  /\ q * i.unitVolume <= i.storage
  /\ InSupply(q, i.supply)

\* q is the least order that fits and covers the need.
LeastCover(i, q) ==
  /\ Fits(i, q) /\ q >= Need(i)
  /\ \A r \in 0..(q - 1) : r >= Need(i) => ~Fits(i, r)

\* q is the greatest order that fits, and does not cover the need: one lot
\* more does not fit (nor, therefore, any order beyond that).
GreatestShort(i, q) ==
  /\ Fits(i, q) /\ q < Need(i)
  /\ ~Fits(i, q + i.moq)

\* What calculate_decision computes: nothing without a need, else the least
\* order that covers it, and the greatest possible one when budget, storage or
\* the supplier do not allow that.
QuantityIsLeast(i) ==
  IF Need(i) = 0 THEN Feasible(i) = 0
  ELSE LeastCover(i, Feasible(i)) \/ GreatestShort(i, Feasible(i))

\* What code and document agree on.  For a need below the minimum order the code
\* orders the minimum if it fits, where spec/05 orders nothing ("If `0 < hard_cap
\* < MOQ`, feasible quantity is `0`", with the need inside hard_cap): here either
\* will do.
QuantityIsRight(i) ==
  IF Need(i) < i.moq THEN /\ Feasible(i) \in {0, i.moq}
                          /\ Fits(i, Feasible(i))
                          /\ Need(i) = 0 => Feasible(i) = 0
  ELSE LeastCover(i, Feasible(i)) \/ GreatestShort(i, Feasible(i))

\* The hard constraints a PurchaseDecision reports as passed.
ConstraintsPass(i) ==
  LET q == Feasible(i) IN
  /\ q = 0 \/ (q >= i.moq /\ q % i.moq = 0)
  /\ q * i.unitCost <= i.budget
  /\ q <= i.storage \div i.unitVolume
  /\ InSupply(q, i.supply)
  /\ q <= Need(i) \/ (q = RoundedUp(Need(i), i.moq) /\ q <= NonNeedCap(i))
=============================================================================
