------------------------- MODULE MCPurchasePlanning -------------------------
(***************************************************************************)
(* Values of the constants of PurchasePlanning for TLC.                    *)
(***************************************************************************)
EXTENDS PurchasePlanning

Evidence(forecast, budget, storage, supplier) ==
  [original |-> 3, onHand |-> 2, reserved |-> 1, damaged |-> 0, incoming |-> 1,
   forecast |-> forecast, safety |-> 1, budget |-> budget, storage |-> storage,
   supply |-> supplier.supply, unitCost |-> supplier.cost, moq |-> supplier.moq,
   unitVolume |-> 1, sameCurrency |-> TRUE, allFresh |-> TRUE, complete |-> TRUE]

Offer(supply, cost, moq, reliability, delivery) ==
  [active |-> TRUE, fresh |-> TRUE, sameCurrency |-> TRUE, supply |-> supply, cost |-> cost,
   moq |-> moq, reliability |-> reliability, delivery |-> delivery]

Review(scenario, evidence, suppliers) ==
  [scenario |-> scenario, inputs |-> evidence, suppliers |-> suppliers, preferred |-> 1]

\* The policy's boundaries: one supplier, minimum orders around and above the
\* need, each cap below, at and above it.
PolicyCases ==
  {Review("recommendation-review", Evidence(need + 1, budget, storage, o), <<o>>) :
     need \in 0..5, budget \in 1..6, storage \in {1, 3, 4, 7},
     o \in {Offer(s, c, m, 1, 1) : s \in {0, 2, 3, Unlimited}, c \in {1, 2}, m \in 1..4}}

\* Evidence the policy may not decide on.
DeficientCases ==
  {Review("recommendation-review", e, <<Offer(Unlimited, 1, 1, 1, 1)>>) :
     e \in {[Evidence(3, 5, 5, Offer(Unlimited, 1, 1, 1, 1)) EXCEPT !.sameCurrency = s,
                !.allFresh = f, !.complete = c, !.reserved = 3] : s, f, c \in BOOLEAN}}

\* Suppliers that differ in one thing or another, or cannot be asked.
Offers ==
  {Offer(Unlimited, 1, 2, 1, 1), Offer(2, 1, 1, 2, 2), Offer(3, 2, 3, 2, 1),
   Offer(2, 2, 1, 1, 2), [Offer(Unlimited, 1, 1, 2, 1) EXCEPT !.active = FALSE]}

SourcingCases ==
  {Review(scenario, Evidence(need + 1, money[1], money[2], a), <<a, b, c>>) :
     scenario \in {"recommendation-review", "custom-scenario"},
     need \in {3, 5}, money \in {<<5, 9>>, <<9, 4>>, <<9, 9>>},
     a \in Offers, b \in Offers, c \in Offers}

\* The suppliers' rows are read after the evidence and differ from it; the
\* preferred supplier is one of them, or none any more.
DriftCases ==
  {[Review("recommendation-review", Evidence(4, 6, 7, e), <<a, b>>) EXCEPT !.preferred = p] :
     e \in Offers, a \in Offers, b \in Offers, p \in 0..2}

\* A custom scenario whose only supplier delivers by twos, for a need of 3.
OverbuyCases ==
  LET o == Offer(Unlimited, 1, 2, 1, 1) IN
  {Review("custom-scenario", Evidence(4, 9, 9, o), <<o>>)}

MCCases == PolicyCases \cup DeficientCases \cup SourcingCases \cup DriftCases
=============================================================================
