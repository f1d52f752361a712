---------------------------- MODULE NaturalFacts ----------------------------
(***************************************************************************)
(* Facts about natural numbers that the proofs of several modules need.    *)
(* Induction is stated about a set of numbers, so that a proof can name    *)
(* the set of those for which a fact holds.                                *)
(***************************************************************************)
EXTENDS WellFoundedInduction, TLAPS

\* A non-empty set of naturals has a smallest element.
LEMMA NatMin ==
  ASSUME NEW T \in SUBSET Nat, T # {}
  PROVE  \E k \in T : \A m \in T : k <= m
<1> DEFINE R == {ss \in Nat \X Nat : ss[1] < ss[2]}
<1>1. IsWellFoundedOn(R, Nat)
  BY NatLessThanWellFounded DEF OpToRel
<1>2. PICK x \in T : \A y \in T : ~ (<<y, x>> \in R)
  <2> HIDE DEF R
  <2> QED
    BY <1>1, WFMin
<1>3. \A m \in T : x <= m
  <2> TAKE m \in T
  <2>1. m \in Nat /\ x \in Nat
    OBVIOUS
  <2>2. <<m, x>> \notin R
    BY <1>2
  <2>3. ~ (m < x)
    BY <2>1, <2>2
  <2> QED
    BY <2>1, <2>3
<1> QED
  BY <1>3

\* A non-empty set of numbers up to N has a largest element.
LEMMA LargestExists ==
  ASSUME NEW N \in Nat, NEW S \in SUBSET (0..N), S # {}
  PROVE  \E v \in S : \A w \in S : w <= v
<1> DEFINE T == {k \in Nat : N - k \in S}
<1>1. T \in SUBSET Nat
  OBVIOUS
<1>2. T # {}
  <2>1. PICK s \in S : TRUE
    OBVIOUS
  <2>2. N - s \in Nat /\ N - (N - s) = s
    BY <2>1
  <2>3. N - s \in T
    BY <2>1, <2>2
  <2> QED
    BY <2>3
<1>3. PICK k \in T : \A m \in T : k <= m
  BY <1>1, <1>2, NatMin
<1>4. ASSUME NEW w \in S PROVE w <= N - k
  <2>1. N - w \in Nat /\ N - (N - w) = w
    OBVIOUS
  <2>2. N - w \in T
    BY <2>1
  <2>3. k <= N - w
    BY <1>3, <2>2
  <2> QED
    BY <2>1, <2>3
<1> QED
  BY <1>3, <1>4

\* Induction: a set that has 0, and with a number the next one, has them all.
LEMMA SetInduction ==
  ASSUME NEW S, 0 \in S, \A n \in Nat : n \in S => n + 1 \in S
  PROVE  Nat \subseteq S
<1> DEFINE T == Nat \ S
<1>1. SUFFICES ASSUME T # {} PROVE FALSE
  OBVIOUS
<1>2. PICK k \in T : \A m \in T : k <= m
  BY <1>1, NatMin
<1>3. k \in Nat /\ k # 0
  OBVIOUS
<1>4. k - 1 \in Nat /\ k - 1 \in S
  BY <1>2, <1>3
<1>5. (k - 1) + 1 \in S
  BY <1>4
<1> QED
  BY <1>3, <1>5
=============================================================================
