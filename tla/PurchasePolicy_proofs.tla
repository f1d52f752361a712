----------------------- MODULE PurchasePolicy_proofs -----------------------
(***************************************************************************)
(* What calculate_decision computes, for all inputs: the quantity is the   *)
(* right one, and the constraints the decision reports hold.               *)
(***************************************************************************)
EXTENDS PurchasePolicy, TLAPS

-----------------------------------------------------------------------------
(***************************************************************************)
(* Floor division.                                                         *)
(***************************************************************************)

\* The quotient is the greatest number of lots of b in a.
LEMMA Quotient ==
  ASSUME NEW a \in Nat, NEW b \in Positive
  PROVE  /\ a \div b \in Nat
         /\ (a \div b) * b <= a
         /\ a < (a \div b) * b + b
BY SMT DEF Positive

\* A limit on the number of units is a limit on their total price or volume.
LEMMA QuotientBounds ==
  ASSUME NEW a \in Nat, NEW b \in Positive, NEW q \in Nat
  PROVE  q <= a \div b <=> q * b <= a
<1> DEFINE d == a \div b
<1>1. b \in Nat /\ d \in Nat /\ d * b <= a /\ a < d * b + b
  BY Quotient DEF Positive
<1> HIDE DEF d
<1>2. ASSUME q <= d PROVE q * b <= a
  <2>1. q * b <= d * b BY <1>2, <1>1
  <2> QED BY <2>1, <1>1
<1>3. ASSUME ~(q <= d) PROVE ~(q * b <= a)
  <2>1. (d + 1) * b <= q * b BY <1>3, <1>1
  <2>2. (d + 1) * b = d * b + b BY <1>1
  <2> QED BY <2>1, <2>2, <1>1
<1> QED BY <1>2, <1>3 DEF d

\* A multiple of a positive number is at least as large as its factor.
LEMMA Multiple ==
  ASSUME NEW n \in Nat, NEW m \in Positive
  PROVE  n * m \in Nat /\ n <= n * m /\ (n * m) % m = 0
BY SMT DEF Positive

\* The rounded need is the first multiple at or above it.
LEMMA RoundingUp ==
  ASSUME NEW n \in Nat, NEW m \in Positive
  PROVE  \E k \in Nat : /\ RoundedUp(n, m) = k * m
                        /\ n <= k * m
                        /\ k * m < n + m
<1> DEFINE k == (n + m - 1) \div m
<1>1. n + m - 1 \in Nat /\ m \in Nat BY DEF Positive
<1>2. k \in Nat /\ k * m <= n + m - 1 /\ n + m - 1 < k * m + m
  BY <1>1, Quotient
<1>3. RoundedUp(n, m) = k * m BY DEF RoundedUp
<1> HIDE DEF k
<1>4. k * m \in Nat BY <1>1, <1>2
<1>5. n <= k * m /\ k * m < n + m BY <1>1, <1>2, <1>4
<1> QED BY <1>2, <1>3, <1>5

\* The rounded cap is the last multiple at or below it.
LEMMA RoundingDown ==
  ASSUME NEW n \in Nat, NEW m \in Positive
  PROVE  \E k \in Nat : /\ RoundedDown(n, m) = k * m
                        /\ k * m <= n
                        /\ n < k * m + m
BY Quotient DEF RoundedDown

-----------------------------------------------------------------------------
(***************************************************************************)
(* The parts of the calculation.                                           *)
(***************************************************************************)

LEMMA NeedIsNat == ASSUME NEW i \in Inputs PROVE Need(i) \in Nat
BY DEF Inputs, Need, Usable, AtLeastZero

LEMMA CapIsNat == ASSUME NEW i \in Inputs PROVE NonNeedCap(i) \in Nat
<1>1. i.budget \div i.unitCost \in Nat /\ i.storage \div i.unitVolume \in Nat
  BY Quotient DEF Inputs
<1>2. i.supply \in Nat \cup {Unlimited} BY DEF Inputs, Supply
<1> QED BY <1>1, <1>2 DEF NonNeedCap, Smaller

\* The cap is budget, storage and supply at once.
LEMMA CapIsLimits ==
  ASSUME NEW i \in Inputs, NEW q \in Nat
  PROVE  q <= NonNeedCap(i) <=> /\ q * i.unitCost <= i.budget
                                /\ q * i.unitVolume <= i.storage
                                /\ InSupply(q, i.supply)
<1> DEFINE b == i.budget \div i.unitCost
           s == i.storage \div i.unitVolume
<1>1. b \in Nat /\ s \in Nat BY Quotient DEF Inputs
<1>2. i.supply \in Nat \cup {Unlimited} BY DEF Inputs, Supply
<1>3. q <= b <=> q * i.unitCost <= i.budget BY QuotientBounds DEF Inputs
<1>4. q <= s <=> q * i.unitVolume <= i.storage BY QuotientBounds DEF Inputs
<1>5. NonNeedCap(i) = IF i.supply = Unlimited THEN Smaller(b, s)
                      ELSE Smaller(Smaller(b, s), i.supply)
  BY DEF NonNeedCap
<1> HIDE DEF b, s
<1>6. q <= NonNeedCap(i) <=> q <= b /\ q <= s /\ InSupply(q, i.supply)
  BY <1>1, <1>2, <1>5, UnlimitedAssumption DEF Smaller, InSupply
<1> QED BY <1>3, <1>4, <1>6

\* An order fits exactly if it is a multiple of the minimum order and within
\* the cap.
LEMMA FitsIsCapped ==
  ASSUME NEW i \in Inputs, NEW q \in Nat
  PROVE  Fits(i, q) <=> (\E n \in Nat : q = n * i.moq) /\ q <= NonNeedCap(i)
<1>1. i.moq \in Positive BY DEF Inputs
<1>2. (\E n \in 0..q : q = n * i.moq) <=> \E n \in Nat : q = n * i.moq
  BY <1>1, Multiple
<1> QED BY <1>2, CapIsLimits DEF Fits

\* The proposed quantity, by cases.
LEMMA FeasibleCases ==
  ASSUME NEW i \in Inputs
  PROVE  \/ Need(i) = 0 /\ Feasible(i) = 0
         \/ Need(i) > 0 /\ NonNeedCap(i) < i.moq /\ Feasible(i) = 0
         \/ /\ Need(i) > 0 /\ RoundedUp(Need(i), i.moq) <= NonNeedCap(i)
            /\ Feasible(i) = RoundedUp(Need(i), i.moq)
         \/ /\ Need(i) > 0 /\ RoundedUp(Need(i), i.moq) > NonNeedCap(i)
            /\ Feasible(i) = RoundedDown(NonNeedCap(i), i.moq)
<1>1. Need(i) \in Nat /\ NonNeedCap(i) \in Nat /\ i.moq \in Positive
  BY NeedIsNat, CapIsNat DEF Inputs
<1>2. RoundedUp(Need(i), i.moq) \in Nat
  <2>1. PICK k \in Nat : RoundedUp(Need(i), i.moq) = k * i.moq BY <1>1, RoundingUp
  <2> QED BY <2>1, <1>1, Multiple
<1> QED BY <1>1, <1>2 DEF Feasible, Positive

LEMMA FeasibleIsNat == ASSUME NEW i \in Inputs PROVE Feasible(i) \in Nat
<1>1. Need(i) \in Nat /\ NonNeedCap(i) \in Nat /\ i.moq \in Positive
  BY NeedIsNat, CapIsNat DEF Inputs
<1>2. RoundedUp(Need(i), i.moq) \in Nat
  <2>1. PICK k \in Nat : RoundedUp(Need(i), i.moq) = k * i.moq BY <1>1, RoundingUp
  <2> QED BY <2>1, <1>1, Multiple
<1>3. RoundedDown(NonNeedCap(i), i.moq) \in Nat
  <2>1. PICK k \in Nat : RoundedDown(NonNeedCap(i), i.moq) = k * i.moq BY <1>1, RoundingDown
  <2> QED BY <2>1, <1>1, Multiple
<1> QED BY <1>2, <1>3, FeasibleCases

-----------------------------------------------------------------------------
(***************************************************************************)
(* The theorems.                                                           *)
(***************************************************************************)

\* For all inputs calculate_decision proposes the least order that covers the
\* need, or the greatest one that budget, storage and supplier allow.
THEOREM QuantityLeast == \A i \in Inputs : QuantityIsLeast(i)
<1> SUFFICES ASSUME NEW i \in Inputs PROVE QuantityIsLeast(i) OBVIOUS
<1> DEFINE need == Need(i)
           cap == NonNeedCap(i)
           m == i.moq
<1>1. need \in Nat /\ cap \in Nat /\ m \in Positive /\ m \in Nat
  BY NeedIsNat, CapIsNat DEF Inputs, Positive
<1>2. \A q \in Nat : Fits(i, q) <=> (\E n \in Nat : q = n * m) /\ q <= cap
  BY FitsIsCapped
<1>3. CASE need = 0
  BY <1>3, FeasibleCases DEF QuantityIsLeast
<1>4. CASE need > 0 /\ cap < m /\ Feasible(i) = 0
  <2>1. 0 = 0 * m BY <1>1
  <2>2. Fits(i, 0) BY <1>1, <1>2, <2>1
  <2>3. ~Fits(i, 0 + m) BY <1>1, <1>2, <1>4
  <2> QED BY <1>1, <1>4, <2>2, <2>3 DEF QuantityIsLeast, GreatestShort
<1>5. CASE need > 0 /\ RoundedUp(need, m) <= cap /\ Feasible(i) = RoundedUp(need, m)
  <2>1. PICK k \in Nat : /\ RoundedUp(need, m) = k * m
                         /\ need <= k * m /\ k * m < need + m
    BY <1>1, RoundingUp
  <2>2. k * m \in Nat BY <1>1, Multiple
  <2>3. Fits(i, k * m) BY <1>2, <1>5, <2>1, <2>2
  <2>4. ASSUME NEW r \in 0..(k * m - 1), r >= need PROVE ~Fits(i, r)
    <3>1. SUFFICES ASSUME NEW n \in Nat, r = n * m PROVE FALSE BY <1>2, <2>2
    <3>2. n < k
      <4>1. SUFFICES ASSUME k <= n PROVE FALSE OBVIOUS
      <4>2. k * m <= n * m BY <4>1, <1>1
      <4> QED BY <4>2, <3>1, <2>2
    <3>3. (n + 1) * m <= k * m BY <3>2, <1>1
    <3>4. n * m + m <= k * m BY <3>3, <1>1
    <3> QED BY <3>1, <3>4, <2>1, <2>2, <2>4, <1>1
  <2>5. LeastCover(i, k * m) BY <2>1, <2>3, <2>4 DEF LeastCover
  <2> QED BY <1>5, <2>1, <2>5 DEF QuantityIsLeast
<1>6. CASE need > 0 /\ RoundedUp(need, m) > cap /\ Feasible(i) = RoundedDown(cap, m)
  <2>1. PICK k \in Nat : /\ RoundedDown(cap, m) = k * m
                         /\ k * m <= cap /\ cap < k * m + m
    BY <1>1, RoundingDown
  <2>2. PICK u \in Nat : RoundedUp(need, m) = u * m /\ need <= u * m /\ u * m < need + m
    BY <1>1, RoundingUp
  <2>3. k * m \in Nat /\ u * m \in Nat BY <1>1, Multiple
  <2>4. Fits(i, k * m) BY <1>2, <2>1, <2>3
  <2>5. ~Fits(i, k * m + m)
    BY <1>1, <1>2, <2>1, <2>3
  <2>6. k * m < need
    <3>1. k < u
      <4>1. SUFFICES ASSUME u <= k PROVE FALSE OBVIOUS
      <4>2. u * m <= k * m BY <4>1, <1>1
      <4> QED BY <4>2, <2>1, <2>2, <2>3, <1>6, <1>1
    <3>2. (k + 1) * m <= u * m BY <3>1, <1>1
    <3>3. k * m + m <= u * m BY <3>2, <1>1
    <3> QED BY <3>3, <2>2, <2>3, <1>1
  <2>7. GreatestShort(i, k * m) BY <2>4, <2>5, <2>6 DEF GreatestShort
  <2> QED BY <1>6, <2>1, <2>7 DEF QuantityIsLeast
<1> QED BY <1>1, <1>3, <1>4, <1>5, <1>6, FeasibleCases

\* For all inputs the quantity is one that code and document agree on, a need
\* below the minimum order apart, for which it is nothing or the minimum.
THEOREM QuantityRight == \A i \in Inputs : QuantityIsRight(i)
<1> SUFFICES ASSUME NEW i \in Inputs PROVE QuantityIsRight(i) OBVIOUS
<1>1. /\ Need(i) \in Nat /\ NonNeedCap(i) \in Nat /\ Feasible(i) \in Nat
      /\ i.moq \in Positive /\ i.moq \in Nat
  BY NeedIsNat, CapIsNat, FeasibleIsNat DEF Inputs, Positive
<1>2. QuantityIsLeast(i)
  BY QuantityLeast
<1>3. CASE Need(i) < i.moq
  <2>1. Feasible(i) \in {0, i.moq}
    <3>1. CASE Need(i) > 0 /\ Feasible(i) = RoundedUp(Need(i), i.moq)
      <4>1. PICK k \in Nat : /\ RoundedUp(Need(i), i.moq) = k * i.moq
                             /\ k * i.moq < Need(i) + i.moq
        BY <1>1, RoundingUp
      <4>2. ASSUME k >= 2 PROVE FALSE
        <5>1. 2 * i.moq <= k * i.moq BY <1>1, <4>2
        <5> QED BY <1>1, <1>3, <4>1, <5>1, Multiple
      <4>3. k = 0 \/ k = 1 BY <4>2
      <4> QED BY <1>1, <3>1, <4>1, <4>3
    <3>2. CASE /\ Need(i) > 0 /\ RoundedUp(Need(i), i.moq) > NonNeedCap(i)
               /\ Feasible(i) = RoundedDown(NonNeedCap(i), i.moq)
      <4>1. PICK k \in Nat : /\ RoundedUp(Need(i), i.moq) = k * i.moq
                             /\ k * i.moq < Need(i) + i.moq
        BY <1>1, RoundingUp
      <4>2. PICK n \in Nat : RoundedDown(NonNeedCap(i), i.moq) = n * i.moq /\ n * i.moq <= NonNeedCap(i)
        BY <1>1, RoundingDown
      <4>3. ASSUME n >= 2 PROVE FALSE
        <5>1. 2 * i.moq <= n * i.moq BY <1>1, <4>3
        <5> QED BY <1>1, <1>3, <3>2, <4>1, <4>2, <5>1, Multiple
      <4>4. n = 0 \/ n = 1 BY <4>3
      <4> QED BY <1>1, <3>2, <4>2, <4>4
    <3> QED BY <3>1, <3>2, FeasibleCases
  <2>2. Fits(i, Feasible(i))
    <3>1. CASE Need(i) = 0
      <4>1. Feasible(i) = 0 BY <1>2, <3>1 DEF QuantityIsLeast
      <4>2. 0 = 0 * i.moq /\ 0 <= NonNeedCap(i) BY <1>1
      <4> QED BY <4>1, <4>2, FitsIsCapped
    <3>2. CASE Need(i) # 0
      BY <1>2, <3>2 DEF QuantityIsLeast, LeastCover, GreatestShort
    <3> QED BY <3>1, <3>2
  <2>3. Need(i) = 0 => Feasible(i) = 0
    BY <1>2 DEF QuantityIsLeast
  <2> QED BY <1>3, <2>1, <2>2, <2>3 DEF QuantityIsRight
<1>4. CASE ~(Need(i) < i.moq)
  <2>1. Need(i) # 0 BY <1>1, <1>4 DEF Positive
  <2> QED BY <1>2, <1>4, <2>1 DEF QuantityIsLeast, QuantityIsRight
<1> QED BY <1>3, <1>4

\* For all inputs the constraints a PurchaseDecision reports hold.
THEOREM ConstraintsHold == \A i \in Inputs : ConstraintsPass(i)
<1> SUFFICES ASSUME NEW i \in Inputs PROVE ConstraintsPass(i) OBVIOUS
<1> DEFINE q == Feasible(i)
<1>1. /\ Need(i) \in Nat /\ NonNeedCap(i) \in Nat /\ q \in Nat
      /\ i.moq \in Positive /\ i.moq \in Nat
  BY NeedIsNat, CapIsNat, FeasibleIsNat DEF Inputs, Positive
<1>2. \E k \in Nat : q = k * i.moq
  <2>1. 0 = 0 * i.moq BY <1>1
  <2>2. \E k \in Nat : RoundedUp(Need(i), i.moq) = k * i.moq BY <1>1, RoundingUp
  <2>3. \E k \in Nat : RoundedDown(NonNeedCap(i), i.moq) = k * i.moq BY <1>1, RoundingDown
  <2> QED BY <2>1, <2>2, <2>3, FeasibleCases
<1>3. q <= NonNeedCap(i)
  BY <1>1, FeasibleCases, RoundingDown
<1>4. /\ q * i.unitCost <= i.budget
      /\ q * i.unitVolume <= i.storage
      /\ InSupply(q, i.supply)
  BY <1>1, <1>3, CapIsLimits
<1>5. q <= i.storage \div i.unitVolume
  BY <1>1, <1>4, QuotientBounds DEF Inputs
<1>6. q = 0 \/ (q >= i.moq /\ q % i.moq = 0)
  <2>1. PICK k \in Nat : q = k * i.moq BY <1>2
  <2>2. q % i.moq = 0 BY <2>1, <1>1, Multiple
  <2>3. CASE k = 0 BY <2>1, <2>3, <1>1
  <2>4. CASE k >= 1
    <3>1. 1 * i.moq <= k * i.moq BY <2>4, <1>1
    <3> QED BY <3>1, <2>1, <2>2, <1>1
  <2> QED BY <2>3, <2>4
<1>7. q <= Need(i) \/ (q = RoundedUp(Need(i), i.moq) /\ q <= NonNeedCap(i))
  <2>1. CASE Need(i) > 0 /\ RoundedUp(Need(i), i.moq) > NonNeedCap(i)
    <3>1. PICK u \in Nat : RoundedUp(Need(i), i.moq) = u * i.moq /\ u * i.moq < Need(i) + i.moq
      BY <1>1, RoundingUp
    <3>2. PICK k \in Nat : q = k * i.moq BY <1>2
    <3>3. k < u
      <4>1. SUFFICES ASSUME u <= k PROVE FALSE OBVIOUS
      <4>2. u * i.moq <= k * i.moq BY <4>1, <1>1
      <4> QED BY <4>2, <3>1, <3>2, <2>1, <1>1, <1>3
    <3>4. (k + 1) * i.moq <= u * i.moq BY <3>3, <1>1
    <3>5. k * i.moq + i.moq <= u * i.moq BY <3>4, <1>1
    <3> QED BY <3>1, <3>2, <3>5, <1>1
  <2> QED BY <2>1, <1>1, <1>3, FeasibleCases
<1> QED BY <1>4, <1>5, <1>6, <1>7 DEF ConstraintsPass
=============================================================================
