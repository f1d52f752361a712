---------------------------- MODULE DemandSpike ----------------------------
(***************************************************************************)
(* The demand-change rules (evaluate_demand_spike in domain/policy.py and  *)
(* the inputs evaluate_demand_signal in application/demand.py gives it).   *)
(*                                                                         *)
(* An observation b has the units sold and the hours of its window.  The   *)
(* facts f it is judged against are rows of other systems: the baseline    *)
(* forecast (demand, hours), the revised one, the policy's threshold and   *)
(* safety stock, the stock and the orders still to come.                   *)
(***************************************************************************)
EXTENDS Integers

\* A window is a whole number of hours, and shorter ones count as one hour.
\* The endpoint accepts observations of 24 hours or more.
Observation == [units : Nat, hours : Nat \ (0 .. 23)]
DemandFacts ==
  [fresh : BOOLEAN, supplier : BOOLEAN, threshold : Nat,
   baseline : Nat, baselineHours : Nat \ {0}, revised : Nat,
   safety : Nat, onHand : Nat, unusable : Nat, incoming : Nat]

NotNegative(n) == IF n < 0 THEN 0 ELSE n

Position(f) == NotNegative(f.onHand - f.unusable) + f.incoming
Target(f) == f.revised + f.safety

\* Stale sales, or sales where none were expected.
ToInvestigate(b, f) == ~f.fresh \/ (f.baseline = 0 /\ b.units > 0)

HasVelocity(b, f) == b.units > 0 /\ f.baseline > 0

\* Variant: the rates are rounded before they are compared.
RatioOfRates(b, f) ==
  (((b.units * 10000) \div b.hours) * f.baselineHours) \div f.baseline

\* ratio_bps, by integer cross-multiplication of the two rates.
Ratio(b, f) ==
  (b.units * f.baselineHours * 10000) \div (f.baseline * b.hours)

SpikeDetected(b, f) ==
  ~ToInvestigate(b, f) /\ HasVelocity(b, f) /\ Ratio(b, f) >= f.threshold

SupplementalNeed(f) == NotNegative(Target(f) - Position(f))

Verdicts == {"INVESTIGATE", "SPIKE", "NO_SPIKE"}

Verdict(b, f) ==
  CASE ToInvestigate(b, f) -> "INVESTIGATE"
    [] SpikeDetected(b, f) -> "SPIKE"
    [] OTHER               -> "NO_SPIKE"

\* recommended_quantity of the recommendation a signal leads to.
RecommendedQuantity(b, f) ==
  IF SpikeDetected(b, f) THEN SupplementalNeed(f) ELSE 0

(***************************************************************************)
(* What the rules are to come to, without division or cases.               *)
(***************************************************************************)
\* The sales rate is at least the threshold's multiple of the baseline rate.
RateReached(b, f) ==
  b.units * f.baselineHours * 10000 >= f.threshold * (f.baseline * b.hours)

\* q is the least quantity that fills the gap to the target.
FillsGap(q, f) ==
  /\ Position(f) + q >= Target(f)
  /\ q > 0 => Position(f) + q = Target(f)

\* A spike is found exactly when the fresh rates reach the threshold, however
\* the ratio is rounded; its recommendation fills the gap and no more, and
\* nothing is recommended without one (evaluate_demand_spike).
ExactFor(b, f) ==
  /\ SpikeDetected(b, f) <=>
       /\ f.fresh /\ b.units > 0 /\ f.baseline > 0
       /\ RateReached(b, f)
  /\ IF Verdict(b, f) = "SPIKE"
       THEN FillsGap(RecommendedQuantity(b, f), f)
       ELSE RecommendedQuantity(b, f) = 0
=============================================================================
