--------------------------- MODULE MCReviewIntake ---------------------------
(***************************************************************************)
(* Values of the constants of ReviewIntake for TLC.                        *)
(***************************************************************************)
EXTENDS ReviewIntake, TLC

CONSTANTS rec1, e1, k1, k2, c1, c2, r1, r2

MCPlanned == {rec1}
MCKeys == {k1, k2}
MCEvents == {e1}
MCCreators == {c1, c2}
MCReceivers == {r1, r2}

Symmetric ==
  Permutations(MCKeys) \cup Permutations(MCCreators) \cup Permutations(MCReceivers)

\* 50 units in two days for 100 a week are exactly 17500 basis points.
MCObserved == e1 :> [units |-> 50, hours |-> 48]
MCWindow == e1 :> "day"

Demand(fresh, supplier, threshold, baseline) ==
  [fresh |-> fresh, supplier |-> supplier, threshold |-> threshold,
   baseline |-> baseline, baselineHours |-> 168, revised |-> 160,
   safety |-> 20, onHand |-> 60, unusable |-> 10, incoming |-> 50]

\* The threshold is reached exactly, or missed by one; sales are stale; sales
\* where none were expected, and no active supplier.
MCFacts ==
  {Demand(TRUE, TRUE, 17500, 100), Demand(TRUE, TRUE, 17501, 100),
   Demand(FALSE, TRUE, 17500, 100), Demand(TRUE, FALSE, 17500, 0)}

SpikeFacts == {Demand(TRUE, TRUE, 17500, 100)}
=============================================================================
