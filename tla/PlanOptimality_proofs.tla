----------------------- MODULE PlanOptimality_proofs -----------------------
(***************************************************************************)
(* Proofs that the search of allocate_sourcing_plan finds the best order   *)
(* there is: what it adds up along the way are the sums over a plan's      *)
(* lines, and no order the suppliers, the budget and the storage allow,    *)
(* within the search's bound or beyond it, ranks before the plan.          *)
(***************************************************************************)
EXTENDS PurchasePlanning_proofs, NaturalFacts, FiniteSetTheorems

-----------------------------------------------------------------------------
(***************************************************************************)
(* Sums.                                                                   *)
(***************************************************************************)

\* The partial sums that SumUpTo defines by recursion exist.
LEMMA SumExists ==
  ASSUME NEW f, NEW n \in Nat
  PROVE  \E g : g = [k \in 0..n |-> IF k = 0 THEN 0 ELSE g[k - 1] + f[k]]
<1> DEFINE S == {m \in Nat : \E g : g = [k \in 0..m |-> IF k = 0 THEN 0 ELSE g[k - 1] + f[k]]}
<1>1. 0 \in S
  <2>1. [k \in 0..0 |-> 0] = [k \in 0..0 |-> IF k = 0 THEN 0 ELSE [j \in 0..0 |-> 0][k - 1] + f[k]]
    OBVIOUS
  <2> QED BY <2>1
<1>2. ASSUME NEW m \in Nat, m \in S PROVE m + 1 \in S
  <2>1. PICK g : g = [k \in 0..m |-> IF k = 0 THEN 0 ELSE g[k - 1] + f[k]]
    BY <1>2
  <2> DEFINE h == [k \in 0..(m + 1) |-> IF k = m + 1 THEN g[m] + f[k] ELSE g[k]]
  <2>2. ASSUME NEW k \in 0..(m + 1)
        PROVE  h[k] = IF k = 0 THEN 0 ELSE h[k - 1] + f[k]
    <3>1. CASE k = 0 BY <2>1, <3>1
    <3>2. CASE k \in 1..m
      <4>1. h[k] = g[k] /\ h[k - 1] = g[k - 1] BY <3>2
      <4>2. k \in 0..m /\ k # 0 BY <3>2
      <4>3. g[k] = g[k - 1] + f[k] BY <2>1, <4>2
      <4> QED BY <4>1, <4>2, <4>3
    <3>3. CASE k = m + 1
      <4>1. h[k] = g[m] + f[k] /\ h[k - 1] = g[m] /\ k # 0 BY <3>3
      <4> QED BY <4>1
    <3> QED BY <3>1, <3>2, <3>3
  <2>3. h = [k \in 0..(m + 1) |-> IF k = 0 THEN 0 ELSE h[k - 1] + f[k]]
    <3>1. h = [k \in 0..(m + 1) |-> h[k]] OBVIOUS
    <3> HIDE DEF h
    <3> QED BY <2>2, <3>1
  <2> HIDE DEF h
  <2> QED BY <2>3
<1> HIDE DEF S
<1>3. Nat \subseteq S BY <1>1, <1>2, SetInduction
<1> QED BY <1>3 DEF S

\* g[k] is the sum of f over 1..k, for every k up to n.
SumsAlong(g, f, n) ==
  \A k \in 0..n : g[k] = IF k = 0 THEN 0 ELSE g[k - 1] + f[k]

LEMMA SumIsLast ==
  ASSUME NEW f, NEW n \in Nat
  PROVE  \E g : SumsAlong(g, f, n) /\ SumUpTo(f, n) = g[n]
<1> DEFINE G == CHOOSE g : g = [k \in 0..n |-> IF k = 0 THEN 0 ELSE g[k - 1] + f[k]]
<1>1. \E g : g = [k \in 0..n |-> IF k = 0 THEN 0 ELSE g[k - 1] + f[k]] BY SumExists
<1>2. G = [k \in 0..n |-> IF k = 0 THEN 0 ELSE G[k - 1] + f[k]] BY <1>1, Zenon
<1>3. SumUpTo(f, n) = G[n] BY Zenon DEF SumUpTo
<1> HIDE DEF G
<1>4. SumsAlong(G, f, n) BY <1>2 DEF SumsAlong
<1> QED BY <1>3, <1>4

\* The partial sums do not depend on how far they go on.
LEMMA SumsAgreeUpTo ==
  ASSUME NEW f, NEW n \in Nat, NEW m \in Nat, n <= m, NEW g, NEW h,
         SumsAlong(g, f, n), SumsAlong(h, f, m)
  PROVE  g[n] = h[n]
<1> DEFINE S == {k \in Nat : k <= n => g[k] = h[k]}
<1>1. 0 \in S BY DEF SumsAlong
<1>2. ASSUME NEW k \in Nat, k \in S PROVE k + 1 \in S
  <2>1. SUFFICES ASSUME k + 1 <= n PROVE g[k + 1] = h[k + 1] OBVIOUS
  <2>2. k + 1 \in 0..n /\ k + 1 \in 0..m /\ k + 1 # 0 /\ (k + 1) - 1 = k BY <2>1
  <2>3. g[k + 1] = g[k] + f[k + 1] BY <2>2 DEF SumsAlong
  <2>4. h[k + 1] = h[k] + f[k + 1] BY <2>2 DEF SumsAlong
  <2>5. g[k] = h[k] BY <1>2, <2>1
  <2> QED BY <2>3, <2>4, <2>5
<1> HIDE DEF S
<1>3. Nat \subseteq S BY <1>1, <1>2, SetInduction
<1> QED BY <1>3 DEF S

\* A sum is the sum before its last term, and that term.
LEMMA SumStep ==
  ASSUME NEW f, NEW n \in Nat
  PROVE  /\ SumUpTo(f, 0) = 0
         /\ n > 0 => SumUpTo(f, n) = SumUpTo(f, n - 1) + f[n]
<1>1. SumUpTo(f, 0) = 0
  <2>1. PICK g : SumsAlong(g, f, 0) /\ SumUpTo(f, 0) = g[0] BY SumIsLast
  <2> QED BY <2>1 DEF SumsAlong
<1>2. ASSUME n > 0 PROVE SumUpTo(f, n) = SumUpTo(f, n - 1) + f[n]
  <2>1. PICK g : SumsAlong(g, f, n) /\ SumUpTo(f, n) = g[n] BY SumIsLast
  <2>2. n - 1 \in Nat /\ n - 1 <= n BY <1>2
  <2>3. PICK h : SumsAlong(h, f, n - 1) /\ SumUpTo(f, n - 1) = h[n - 1]
    BY <2>2, SumIsLast
  <2>4. h[n - 1] = g[n - 1] BY <2>1, <2>2, <2>3, SumsAgreeUpTo
  <2>5. g[n] = g[n - 1] + f[n] BY <1>2, <2>1 DEF SumsAlong
  <2> QED BY <2>1, <2>3, <2>4, <2>5
<1> QED BY <1>1, <1>2

LEMMA SumType ==
  ASSUME NEW f, NEW n \in Nat, \A k \in 1..n : f[k] \in Nat
  PROVE  SumUpTo(f, n) \in Nat
<1> DEFINE S == {m \in Nat : m <= n => SumUpTo(f, m) \in Nat}
<1>1. 0 \in S BY SumStep
<1>2. ASSUME NEW m \in Nat, m \in S PROVE m + 1 \in S
  <2>1. SumUpTo(f, m + 1) = SumUpTo(f, m) + f[m + 1] BY SumStep
  <2> QED BY <1>2, <2>1
<1> HIDE DEF S
<1>3. Nat \subseteq S BY <1>1, <1>2, SetInduction
<1> QED BY <1>3 DEF S

\* Equal terms, equal sums.
LEMMA SumSame ==
  ASSUME NEW f, NEW h, NEW n \in Nat, \A k \in 1..n : f[k] = h[k]
  PROVE  SumUpTo(f, n) = SumUpTo(h, n)
<1> DEFINE S == {m \in Nat : m <= n => SumUpTo(f, m) = SumUpTo(h, m)}
<1>1. 0 \in S BY SumStep
<1>2. ASSUME NEW m \in Nat, m \in S PROVE m + 1 \in S
  <2>1. /\ SumUpTo(f, m + 1) = SumUpTo(f, m) + f[m + 1]
        /\ SumUpTo(h, m + 1) = SumUpTo(h, m) + h[m + 1]
    BY SumStep
  <2> QED BY <1>2, <2>1
<1> HIDE DEF S
<1>3. Nat \subseteq S BY <1>1, <1>2, SetInduction
<1> QED BY <1>3 DEF S

\* Terms that are at most as large have a sum that is at most as large.
LEMMA SumMonotone ==
  ASSUME NEW f, NEW h, NEW n \in Nat,
         \A k \in 1..n : f[k] \in Nat /\ h[k] \in Nat /\ f[k] <= h[k]
  PROVE  SumUpTo(f, n) <= SumUpTo(h, n)
<1> DEFINE S == {m \in Nat : m <= n => SumUpTo(f, m) <= SumUpTo(h, m)}
<1>1. 0 \in S BY SumStep
<1>2. ASSUME NEW m \in Nat, m \in S PROVE m + 1 \in S
  <2>1. SUFFICES ASSUME m + 1 <= n PROVE SumUpTo(f, m + 1) <= SumUpTo(h, m + 1) OBVIOUS
  <2>2. SumUpTo(f, m) \in Nat /\ SumUpTo(h, m) \in Nat BY <2>1, SumType
  <2>3. /\ SumUpTo(f, m + 1) = SumUpTo(f, m) + f[m + 1]
        /\ SumUpTo(h, m + 1) = SumUpTo(h, m) + h[m + 1]
    BY SumStep
  <2>4. f[m + 1] \in Nat /\ h[m + 1] \in Nat /\ f[m + 1] <= h[m + 1] BY <2>1
  <2>5. SumUpTo(f, m) <= SumUpTo(h, m) BY <1>2, <2>1
  <2> QED BY <2>2, <2>3, <2>4, <2>5
<1> HIDE DEF S
<1>3. Nat \subseteq S BY <1>1, <1>2, SetInduction
<1> QED BY <1>3 DEF S

\* Terms that are zero from some number on add nothing.
LEMMA SumZeroTail ==
  ASSUME NEW f, NEW n \in Nat, NEW m \in 0..n, \A k \in 1..n : f[k] \in Nat,
         \A k \in (m + 1)..n : f[k] = 0
  PROVE  SumUpTo(f, n) = SumUpTo(f, m)
<1> DEFINE S == {j \in Nat : m + j <= n => SumUpTo(f, m + j) = SumUpTo(f, m)}
<1>1. 0 \in S OBVIOUS
<1>2. ASSUME NEW j \in Nat, j \in S PROVE j + 1 \in S
  <2>1. SUFFICES ASSUME m + (j + 1) <= n PROVE SumUpTo(f, m + (j + 1)) = SumUpTo(f, m)
    OBVIOUS
  <2>2. m + (j + 1) \in Nat /\ m + (j + 1) > 0 /\ (m + (j + 1)) - 1 = m + j OBVIOUS
  <2>3. SumUpTo(f, m + (j + 1)) = SumUpTo(f, m + j) + f[m + (j + 1)] BY <2>2, SumStep
  <2>4. f[m + (j + 1)] = 0 BY <2>1
  <2>5. SumUpTo(f, m + j) = SumUpTo(f, m) BY <1>2, <2>1
  <2>6. SumUpTo(f, m) \in Nat BY SumType
  <2> QED BY <2>3, <2>4, <2>5, <2>6
<1> HIDE DEF S
<1>3. Nat \subseteq S BY <1>1, <1>2, SetInduction
<1>4. n - m \in Nat /\ m + (n - m) = n OBVIOUS
<1>5. n - m \in S BY <1>3, <1>4
<1> QED BY <1>4, <1>5 DEF S

LEMMA SumZero ==
  ASSUME NEW f, NEW n \in Nat, \A k \in 1..n : f[k] = 0
  PROVE  SumUpTo(f, n) = 0
<1>1. SumUpTo(f, n) = SumUpTo(f, 0) BY SumZeroTail
<1> QED BY <1>1, SumStep

\* Two lists of terms that differ in one have sums that differ by as much.
LEMMA SumPut ==
  ASSUME NEW f, NEW h, NEW n \in Nat, NEW c \in 1..n,
         \A k \in 1..n : f[k] \in Nat /\ h[k] \in Nat,
         \A k \in (1..n) \ {c} : f[k] = h[k]
  PROVE  SumUpTo(h, n) + f[c] = SumUpTo(f, n) + h[c]
<1> DEFINE S == {j \in Nat : c + j <= n =>
                   SumUpTo(h, c + j) + f[c] = SumUpTo(f, c + j) + h[c]}
<1>1. 0 \in S
  <2>1. c - 1 \in Nat /\ \A k \in 1..(c - 1) : f[k] = h[k] OBVIOUS
  <2>2. SumUpTo(f, c - 1) = SumUpTo(h, c - 1) BY <2>1, SumSame
  <2>3. SumUpTo(f, c - 1) \in Nat BY <2>1, SumType
  <2>4. c \in Nat /\ c > 0 OBVIOUS
  <2>5. /\ SumUpTo(f, c) = SumUpTo(f, c - 1) + f[c]
        /\ SumUpTo(h, c) = SumUpTo(h, c - 1) + h[c]
    BY <2>4, SumStep
  <2>6. c + 0 = c OBVIOUS
  <2> QED BY <2>2, <2>3, <2>5, <2>6
<1>2. ASSUME NEW j \in Nat, j \in S PROVE j + 1 \in S
  <2>1. SUFFICES ASSUME c + (j + 1) <= n
        PROVE SumUpTo(h, c + (j + 1)) + f[c] = SumUpTo(f, c + (j + 1)) + h[c]
    OBVIOUS
  <2>2. c + (j + 1) \in Nat /\ c + (j + 1) > 0 /\ (c + (j + 1)) - 1 = c + j OBVIOUS
  <2>3. /\ SumUpTo(f, c + (j + 1)) = SumUpTo(f, c + j) + f[c + (j + 1)]
        /\ SumUpTo(h, c + (j + 1)) = SumUpTo(h, c + j) + h[c + (j + 1)]
    BY <2>2, SumStep
  <2>4. f[c + (j + 1)] = h[c + (j + 1)] /\ f[c + (j + 1)] \in Nat BY <2>1
  <2>5. SumUpTo(h, c + j) + f[c] = SumUpTo(f, c + j) + h[c] BY <1>2, <2>1
  <2>6. SumUpTo(h, c + j) \in Nat /\ SumUpTo(f, c + j) \in Nat BY <2>1, SumType
  <2>7. f[c] \in Nat /\ h[c] \in Nat OBVIOUS
  <2> QED BY <2>3, <2>4, <2>5, <2>6, <2>7
<1> HIDE DEF S
<1>3. Nat \subseteq S BY <1>1, <1>2, SetInduction
<1>4. n - c \in Nat /\ c + (n - c) = n OBVIOUS
<1>5. n - c \in S BY <1>3, <1>4
<1> QED BY <1>4, <1>5 DEF S

-----------------------------------------------------------------------------
(***************************************************************************)
(* The plan of a choice of lots.                                           *)
(***************************************************************************)

Last == Len(case.suppliers)

EffectiveIn(lots, c) == Smaller(lots[c], AtLeastZero(TargetNeed - SumUpTo(lots, c - 1)))

ReliabilityTerms(lots) == [c \in Ids |-> EffectiveIn(lots, c) * case.suppliers[c].reliability]

CostTerms(lots) == [c \in Ids |-> lots[c] * case.suppliers[c].cost]

Used(lots) == {c \in Ids : lots[c] > 0}

DaysOf(lots) == {case.suppliers[c].delivery : c \in Used(lots)}

Longest(days) == IF days = {} THEN 0 ELSE CHOOSE d \in days : \A e \in days : e <= d

LEMMA PlanForFields ==
  ASSUME NEW lots
  PROVE  PlanFor(lots) =
           [lots |-> lots, quantity |-> Sum(lots), reliability |-> Sum(ReliabilityTerms(lots)),
            cost |-> Sum(CostTerms(lots)), lines |-> Cardinality(Used(lots)),
            delivery |-> Longest(DaysOf(lots))]
BY DEF PlanFor, ReliabilityTerms, EffectiveIn, CostTerms, Used, DaysOf, Longest

LEMMA IdsAreInterval == ASSUME case \in Case PROVE Ids = 1..Last /\ Last \in Nat
<1>1. case.suppliers \in Seq(Supplier) BY DEF Case
<1> QED BY <1>1 DEF Ids, Last

LEMMA TermsType ==
  ASSUME case \in Case, NEW c \in Ids
  PROVE  /\ case.suppliers[c].cost \in Nat /\ case.suppliers[c].cost > 0
         /\ case.suppliers[c].moq \in Nat /\ case.suppliers[c].moq > 0
         /\ case.suppliers[c].reliability \in Nat /\ case.suppliers[c].delivery \in Nat
         /\ case.suppliers[c].supply \in Supply
BY SupplierType DEF Supplier, Positive

\* The longest of a non-empty set of numbers that has a bound.
LEMMA LongestIsLongest ==
  ASSUME NEW N \in Nat, NEW D \in SUBSET (0..N)
  PROVE  /\ Longest(D) \in Nat
         /\ \A d \in D : d <= Longest(D)
         /\ D # {} => Longest(D) \in D
         /\ D = {} => Longest(D) = 0
<1>1. CASE D = {} BY <1>1 DEF Longest
<1>2. CASE D # {}
  <2>1. \E d \in D : \A e \in D : e <= d BY <1>2, LargestExists
  <2>2. Longest(D) = CHOOSE d \in D : \A e \in D : e <= d BY <1>2 DEF Longest
  <2>3. Longest(D) \in D /\ \A e \in D : e <= Longest(D) BY <2>1, <2>2, Zenon
  <2>4. \A e \in D : e \in Nat OBVIOUS
  <2> QED BY <1>2, <2>3, <2>4
<1> QED BY <1>1, <1>2

\* A longest delivery time is all that a set of numbers up to it can have.
LEMMA LongestIsUnique ==
  ASSUME NEW N \in Nat, NEW D \in SUBSET (0..N), NEW d \in D, \A e \in D : e <= d
  PROVE  Longest(D) = d
<1>1. Longest(D) \in D /\ \A e \in D : e <= Longest(D) BY LongestIsLongest
<1>2. Longest(D) \in Nat /\ d \in Nat BY LongestIsLongest
<1>3. d <= Longest(D) /\ Longest(D) <= d BY <1>1
<1> QED BY <1>2, <1>3

\* The suppliers' delivery times have a bound.
LEMMA DaysAreBounded ==
  ASSUME case \in Case
  PROVE  \E N \in Nat : \A c \in Ids : case.suppliers[c].delivery <= N
<1> DEFINE S == {m \in Nat : \E N \in Nat : \A c \in Ids :
                                 c <= m => case.suppliers[c].delivery <= N}
<1>1. 0 \in S BY IdsAreInterval
<1>2. ASSUME NEW m \in Nat, m \in S PROVE m + 1 \in S
  <2>1. PICK N \in Nat : \A c \in Ids : c <= m => case.suppliers[c].delivery <= N BY <1>2
  <2>2. CASE m + 1 \in Ids
    <3> DEFINE M == IF case.suppliers[m + 1].delivery <= N THEN N
                    ELSE case.suppliers[m + 1].delivery
    <3>1. M \in Nat /\ N <= M /\ case.suppliers[m + 1].delivery <= M BY <2>2, TermsType
    <3> HIDE DEF M
    <3>2. ASSUME NEW c \in Ids, c <= m + 1 PROVE case.suppliers[c].delivery <= M
      <4>1. c \in Nat /\ case.suppliers[c].delivery \in Nat BY IdsAreInterval, TermsType
      <4>2. c = m + 1 \/ c <= m BY <3>2, <4>1
      <4> QED BY <2>1, <3>1, <4>1, <4>2
    <3> QED BY <3>1, <3>2
  <2>3. CASE m + 1 \notin Ids
    <3>1. \A c \in Ids : c <= m + 1 => c <= m BY <2>3, IdsAreInterval
    <3> QED BY <2>1, <3>1
  <2> QED BY <2>2, <2>3
<1> HIDE DEF S
<1>3. Nat \subseteq S BY <1>1, <1>2, SetInduction
<1>4. Last \in S /\ \A c \in Ids : c <= Last BY <1>3, IdsAreInterval
<1> QED BY <1>4 DEF S

LEMMA UsedIsFinite ==
  ASSUME case \in Case, NEW lots \in [Ids -> Nat]
  PROVE  IsFiniteSet(Used(lots)) /\ Used(lots) \subseteq Ids
<1>1. Used(lots) \subseteq Ids BY DEF Used
<1>2. IsFiniteSet(Ids) BY IdsAreInterval, FS_Interval
<1> QED BY <1>1, <1>2, FS_Subset

\* A line's effective part is at most the line.
LEMMA EffectiveType ==
  ASSUME case \in Case, NEW lots \in [Ids -> Nat], NEW c \in Ids
  PROVE  EffectiveIn(lots, c) \in Nat
<1>1. c - 1 \in Nat /\ \A k \in 1..(c - 1) : lots[k] \in Nat BY IdsAreInterval
<1>2. SumUpTo(lots, c - 1) \in Nat BY <1>1, SumType
<1>3. lots[c] \in Nat OBVIOUS
<1> QED BY <1>2, <1>3, NeedType DEF EffectiveIn, Smaller, AtLeastZero

LEMMA TermsAreNat ==
  ASSUME case \in Case, NEW lots \in [Ids -> Nat]
  PROVE  \A c \in Ids : /\ CostTerms(lots)[c] \in Nat
                        /\ CostTerms(lots)[c] = lots[c] * case.suppliers[c].cost
                        /\ ReliabilityTerms(lots)[c] \in Nat
                        /\ ReliabilityTerms(lots)[c]
                             = EffectiveIn(lots, c) * case.suppliers[c].reliability
<1> SUFFICES ASSUME NEW c \in Ids
             PROVE  /\ CostTerms(lots)[c] \in Nat
                    /\ CostTerms(lots)[c] = lots[c] * case.suppliers[c].cost
                    /\ ReliabilityTerms(lots)[c] \in Nat
                    /\ ReliabilityTerms(lots)[c]
                         = EffectiveIn(lots, c) * case.suppliers[c].reliability
  OBVIOUS
<1>1. lots[c] \in Nat /\ EffectiveIn(lots, c) \in Nat BY EffectiveType
<1>2. case.suppliers[c].cost \in Nat /\ case.suppliers[c].reliability \in Nat BY TermsType
<1> QED BY <1>1, <1>2 DEF CostTerms, ReliabilityTerms

LEMMA PlanForType ==
  ASSUME case \in Case, NEW lots \in [Ids -> Nat]
  PROVE  PlanFor(lots) \in PartialPlan
<1>1. Ids = 1..Last /\ Last \in Nat BY IdsAreInterval
<1>2. Sum(lots) \in Nat BY <1>1, SumType DEF Sum, Last
<1>3. Sum(ReliabilityTerms(lots)) \in Nat BY <1>1, TermsAreNat, SumType DEF Sum, Last
<1>4. Sum(CostTerms(lots)) \in Nat BY <1>1, TermsAreNat, SumType DEF Sum, Last
<1>5. Cardinality(Used(lots)) \in Nat BY UsedIsFinite, FS_CardinalityType
<1>6. Longest(DaysOf(lots)) \in Nat
  <2>1. PICK N \in Nat : \A c \in Ids : case.suppliers[c].delivery <= N BY DaysAreBounded
  <2>2. DaysOf(lots) \in SUBSET (0..N) BY <2>1, TermsType DEF DaysOf, Used
  <2> QED BY <2>2, LongestIsLongest
<1> QED BY <1>2, <1>3, <1>4, <1>5, <1>6, PlanForFields DEF PartialPlan, PartialPlanOf

\* The plan of no lots is the empty plan.
LEMMA PlanForNothing ==
  ASSUME case \in Case
  PROVE  PlanFor([c \in Ids |-> 0]) = EmptyPlan
<1> DEFINE none == [c \in Ids |-> 0]
<1>1. Ids = 1..Last /\ Last \in Nat BY IdsAreInterval
<1>2. none \in [Ids -> Nat] /\ \A c \in Ids : none[c] = 0 OBVIOUS
<1> HIDE DEF none
<1>3. Sum(none) = 0 BY <1>1, <1>2, SumZero DEF Sum, Last
<1>4. Sum(CostTerms(none)) = 0
  <2>1. \A c \in Ids : CostTerms(none)[c] = 0
    <3> SUFFICES ASSUME NEW c \in Ids PROVE CostTerms(none)[c] = 0 OBVIOUS
    <3>1. CostTerms(none)[c] = 0 * case.suppliers[c].cost BY <1>2, TermsAreNat
    <3> QED BY <3>1, TermsType
  <2> QED BY <1>1, <2>1, SumZero DEF Sum, Last
<1>5. Sum(ReliabilityTerms(none)) = 0
  <2>1. \A c \in Ids : ReliabilityTerms(none)[c] = 0
    <3> SUFFICES ASSUME NEW c \in Ids PROVE ReliabilityTerms(none)[c] = 0 OBVIOUS
    <3>1. SumUpTo(none, c - 1) = 0
      <4>1. c - 1 \in Nat /\ \A k \in 1..(c - 1) : none[k] = 0 BY <1>1, <1>2
      <4> QED BY <4>1, SumZero
    <3>2. EffectiveIn(none, c) = 0
      BY <1>2, <3>1, NeedType DEF EffectiveIn, Smaller, AtLeastZero
    <3>3. ReliabilityTerms(none)[c] = 0 * case.suppliers[c].reliability
      BY <1>2, <3>2, TermsAreNat
    <3> QED BY <3>3, TermsType
  <2> QED BY <1>1, <2>1, SumZero DEF Sum, Last
<1>6. Used(none) = {} BY <1>2 DEF Used
<1>7. Cardinality(Used(none)) = 0 BY <1>6, FS_EmptySet
<1>8. Longest(DaysOf(none)) = 0 BY <1>6 DEF DaysOf, Longest
<1>9. PlanFor(none) = [lots |-> none, quantity |-> 0, reliability |-> 0, cost |-> 0,
                       lines |-> 0, delivery |-> 0]
  BY <1>3, <1>4, <1>5, <1>7, <1>8, PlanForFields
<1> QED BY <1>9 DEF EmptyPlan, none

\* Suppliers from c on have no line.
EmptyFrom(lots, c) == \A d \in Ids : d >= c => lots[d] = 0

\* What Extend adds to a partial plan is what one line more adds to the sums,
\* when no later supplier has a line yet.
LEMMA PutQuantity ==
  ASSUME case \in Case, NEW lots \in [Ids -> Nat], NEW c \in Ids, NEW q \in Nat, lots[c] = 0
  PROVE  Sum([lots EXCEPT ![c] = q]) = Sum(lots) + q
<1> DEFINE put == [lots EXCEPT ![c] = q]
<1>1. Ids = 1..Last /\ Last \in Nat BY IdsAreInterval
<1>2. /\ \A k \in Ids : put[k] \in Nat /\ lots[k] \in Nat
      /\ \A k \in Ids \ {c} : lots[k] = put[k]
      /\ put[c] = q
  OBVIOUS
<1> HIDE DEF put
<1>3. SumUpTo(put, Last) + lots[c] = SumUpTo(lots, Last) + put[c]
  BY <1>1, <1>2, SumPut
<1>4. SumUpTo(put, Last) \in Nat /\ SumUpTo(lots, Last) \in Nat BY <1>1, <1>2, SumType
<1>5. Sum(put) = Sum(lots) + q BY <1>2, <1>3, <1>4 DEF Sum, Last
<1> QED BY <1>5 DEF put

LEMMA PutCost ==
  ASSUME case \in Case, NEW lots \in [Ids -> Nat], NEW c \in Ids, NEW q \in Nat, lots[c] = 0
  PROVE  Sum(CostTerms([lots EXCEPT ![c] = q]))
           = Sum(CostTerms(lots)) + q * case.suppliers[c].cost
<1> DEFINE put == [lots EXCEPT ![c] = q]
<1>1. Ids = 1..Last /\ Last \in Nat BY IdsAreInterval
<1>2. /\ put \in [Ids -> Nat]
      /\ \A k \in Ids \ {c} : lots[k] = put[k]
      /\ put[c] = q
  OBVIOUS
<1> HIDE DEF put
<1>3. \A k \in Ids : CostTerms(lots)[k] \in Nat /\ CostTerms(put)[k] \in Nat
  BY <1>2, TermsAreNat
<1>4. \A k \in Ids \ {c} : CostTerms(lots)[k] = CostTerms(put)[k]
  BY <1>2, TermsAreNat
<1>5. SumUpTo(CostTerms(put), Last) + CostTerms(lots)[c]
        = SumUpTo(CostTerms(lots), Last) + CostTerms(put)[c]
  BY <1>1, <1>3, <1>4, SumPut
<1>6. SumUpTo(CostTerms(put), Last) \in Nat /\ SumUpTo(CostTerms(lots), Last) \in Nat
  BY <1>1, <1>3, SumType
<1>7. CostTerms(lots)[c] = 0 /\ CostTerms(put)[c] = q * case.suppliers[c].cost
  <2>1. CostTerms(lots)[c] = 0 * case.suppliers[c].cost BY TermsAreNat
  <2> QED BY <1>2, <2>1, TermsAreNat, TermsType
<1>8. q * case.suppliers[c].cost \in Nat BY <1>3, <1>7
<1>9. Sum(CostTerms(put)) = Sum(CostTerms(lots)) + q * case.suppliers[c].cost
  BY <1>5, <1>6, <1>7, <1>8 DEF Sum, Last
<1> QED BY <1>9 DEF put

LEMMA PutReliability ==
  ASSUME case \in Case, NEW lots \in [Ids -> Nat], NEW c \in Ids, NEW q \in Nat,
         EmptyFrom(lots, c)
  PROVE  Sum(ReliabilityTerms([lots EXCEPT ![c] = q]))
           = Sum(ReliabilityTerms(lots))
             + Smaller(q, AtLeastZero(TargetNeed - Sum(lots))) * case.suppliers[c].reliability
<1> DEFINE put == [lots EXCEPT ![c] = q]
           part == Smaller(q, AtLeastZero(TargetNeed - Sum(lots)))
<1>1. Ids = 1..Last /\ Last \in Nat /\ c \in 1..Last BY IdsAreInterval
<1>2. /\ put \in [Ids -> Nat]
      /\ \A k \in Ids \ {c} : lots[k] = put[k]
      /\ put[c] = q
  OBVIOUS
<1> HIDE DEF put
<1>3. \A k \in Ids : ReliabilityTerms(lots)[k] \in Nat /\ ReliabilityTerms(put)[k] \in Nat
  BY <1>2, TermsAreNat
<1>4. lots[c] = 0 /\ \A k \in Ids : k >= c => lots[k] = 0 BY <1>1 DEF EmptyFrom
<1>n. TargetNeed \in Nat BY NeedType
<1>5. \A k \in Ids \ {c} : EffectiveIn(lots, k) = EffectiveIn(put, k)
  <2> SUFFICES ASSUME NEW k \in Ids \ {c} PROVE EffectiveIn(lots, k) = EffectiveIn(put, k)
    OBVIOUS
  <2>1. CASE k < c
    <3>1. k - 1 \in Nat /\ \A j \in 1..(k - 1) : lots[j] = put[j] BY <1>1, <1>2, <2>1
    <3>2. SumUpTo(lots, k - 1) = SumUpTo(put, k - 1) BY <3>1, SumSame
    <3> QED BY <1>2, <3>2 DEF EffectiveIn
  <2>2. CASE k > c
    <3>1. lots[k] = 0 /\ put[k] = 0 BY <1>1, <1>2, <1>4, <2>2
    <3>2. /\ k - 1 \in Nat
          /\ \A j \in 1..(k - 1) : lots[j] \in Nat
          /\ \A j \in 1..(k - 1) : put[j] \in Nat
      BY <1>1, <1>2
    <3>3. SumUpTo(lots, k - 1) \in Nat /\ SumUpTo(put, k - 1) \in Nat BY <3>2, SumType
    <3> QED BY <1>n, <3>1, <3>3 DEF EffectiveIn, Smaller, AtLeastZero
  <2> QED BY <1>1, <2>1, <2>2
<1>6. \A k \in Ids \ {c} : ReliabilityTerms(lots)[k] = ReliabilityTerms(put)[k]
  BY <1>2, <1>5, TermsAreNat
<1>7. Sum(lots) = SumUpTo(lots, c - 1) /\ Sum(lots) \in Nat
  <2>1. c - 1 \in 0..Last /\ \A k \in ((c - 1) + 1)..Last : lots[k] = 0 BY <1>1, <1>4
  <2>2. \A k \in 1..Last : lots[k] \in Nat BY <1>1
  <2> QED BY <1>1, <2>1, <2>2, SumZeroTail, SumType DEF Sum, Last
<1>8. EffectiveIn(lots, c) = 0 /\ EffectiveIn(put, c) = part
  <2>1. SumUpTo(put, c - 1) = SumUpTo(lots, c - 1)
    <3>1. c - 1 \in Nat /\ \A j \in 1..(c - 1) : put[j] = lots[j] BY <1>1, <1>2
    <3> QED BY <3>1, SumSame
  <2> QED BY <1>2, <1>4, <1>7, <1>n, <2>1 DEF EffectiveIn, Smaller, AtLeastZero
<1>p. part \in Nat BY <1>7, <1>n DEF Smaller, AtLeastZero
<1> HIDE DEF part
<1>9. SumUpTo(ReliabilityTerms(put), Last) + ReliabilityTerms(lots)[c]
        = SumUpTo(ReliabilityTerms(lots), Last) + ReliabilityTerms(put)[c]
  BY <1>1, <1>3, <1>6, SumPut
<1>10. /\ SumUpTo(ReliabilityTerms(put), Last) \in Nat
       /\ SumUpTo(ReliabilityTerms(lots), Last) \in Nat
  BY <1>1, <1>3, SumType
<1>11. /\ ReliabilityTerms(lots)[c] = 0
       /\ ReliabilityTerms(put)[c] = part * case.suppliers[c].reliability
  <2>1. ReliabilityTerms(lots)[c] = 0 * case.suppliers[c].reliability BY <1>8, TermsAreNat
  <2> QED BY <1>2, <1>8, <2>1, TermsAreNat, TermsType
<1>12. part * case.suppliers[c].reliability \in Nat BY <1>3, <1>11
<1>13. Sum(ReliabilityTerms(put))
         = Sum(ReliabilityTerms(lots)) + part * case.suppliers[c].reliability
  BY <1>9, <1>10, <1>11, <1>12 DEF Sum, Last
<1> QED BY <1>13 DEF put, part

LEMMA PutLines ==
  ASSUME case \in Case, NEW lots \in [Ids -> Nat], NEW c \in Ids, NEW q \in Nat, lots[c] = 0
  PROVE  LET put == [lots EXCEPT ![c] = q] IN
         /\ Cardinality(Used(put))
              = IF q > 0 THEN Cardinality(Used(lots)) + 1 ELSE Cardinality(Used(lots))
         /\ Longest(DaysOf(put))
              = IF q > 0 /\ case.suppliers[c].delivery > Longest(DaysOf(lots))
                THEN case.suppliers[c].delivery ELSE Longest(DaysOf(lots))
<1> DEFINE put == [lots EXCEPT ![c] = q]
           d == case.suppliers[c].delivery
<1>1. \A k \in Ids : put[k] = IF k = c THEN q ELSE lots[k] OBVIOUS
<1>2. c \notin Used(lots) BY DEF Used
<1> SUFFICES /\ Cardinality(Used(put))
                  = IF q > 0 THEN Cardinality(Used(lots)) + 1 ELSE Cardinality(Used(lots))
             /\ Longest(DaysOf(put))
                  = IF q > 0 /\ d > Longest(DaysOf(lots)) THEN d ELSE Longest(DaysOf(lots))
  OBVIOUS
<1> HIDE DEF put
<1>3. CASE q = 0
  <2>1. Used(put) = Used(lots) BY <1>1, <1>3 DEF Used
  <2> QED BY <1>3, <2>1 DEF DaysOf
<1>4. CASE q > 0
  <2>1. Used(put) = Used(lots) \cup {c} BY <1>1, <1>4 DEF Used
  <2>2. Cardinality(Used(put)) = Cardinality(Used(lots)) + 1
    BY <1>2, <2>1, UsedIsFinite, FS_AddElement
  <2>3. DaysOf(put) = DaysOf(lots) \cup {d} BY <2>1 DEF DaysOf
  <2>4. PICK N \in Nat : \A k \in Ids : case.suppliers[k].delivery <= N BY DaysAreBounded
  <2>5. DaysOf(lots) \in SUBSET (0..N) /\ d \in 0..N BY <2>4, TermsType DEF DaysOf, Used
  <2>6. DaysOf(put) \in SUBSET (0..N) BY <2>3, <2>5
  <2> DEFINE l == Longest(DaysOf(lots))
  <2>7. /\ l \in Nat /\ \A e \in DaysOf(lots) : e <= l
        /\ DaysOf(lots) # {} => l \in DaysOf(lots)
        /\ DaysOf(lots) = {} => l = 0
    BY <2>5, LongestIsLongest
  <2> HIDE DEF d, l
  <2>8. CASE d > l
    <3>1. d \in DaysOf(put) /\ \A e \in DaysOf(put) : e <= d BY <2>3, <2>5, <2>7, <2>8
    <3>2. Longest(DaysOf(put)) = d BY <2>6, <3>1, LongestIsUnique
    <3> QED BY <1>4, <2>2, <2>8, <3>2 DEF l
  <2>9. CASE d <= l
    <3>1. l \in DaysOf(put)
      <4>1. CASE DaysOf(lots) = {} BY <4>1, <2>3, <2>5, <2>7, <2>9
      <4>2. CASE DaysOf(lots) # {} BY <4>2, <2>3, <2>7
      <4> QED BY <4>1, <4>2
    <3>2. \A e \in DaysOf(put) : e <= l BY <2>3, <2>7, <2>9
    <3>3. Longest(DaysOf(put)) = l BY <2>6, <3>1, <3>2, LongestIsUnique
    <3>4. ~(d > l) BY <2>5, <2>7, <2>9
    <3> QED BY <1>4, <2>2, <3>3, <3>4 DEF l
  <2> QED BY <2>5, <2>7, <2>8, <2>9
<1> QED BY <1>3, <1>4

\* The search adds a line up as the sums do.
LEMMA PutExtends ==
  ASSUME case \in Case, NEW lots \in [Ids -> Nat], NEW c \in Ids, NEW q \in Nat,
         EmptyFrom(lots, c)
  PROVE  PlanFor([lots EXCEPT ![c] = q]) = Extend(PlanFor(lots), c, q)
<1> DEFINE put == [lots EXCEPT ![c] = q]
<1>1. lots[c] = 0 BY IdsAreInterval DEF EmptyFrom
<1>2. Sum(put) = Sum(lots) + q BY <1>1, PutQuantity
<1>3. Sum(CostTerms(put)) = Sum(CostTerms(lots)) + q * case.suppliers[c].cost
  BY <1>1, PutCost
<1>4. Sum(ReliabilityTerms(put))
        = Sum(ReliabilityTerms(lots))
          + Smaller(q, AtLeastZero(TargetNeed - Sum(lots))) * case.suppliers[c].reliability
  BY PutReliability
<1>5. /\ Cardinality(Used(put))
           = IF q > 0 THEN Cardinality(Used(lots)) + 1 ELSE Cardinality(Used(lots))
      /\ Longest(DaysOf(put))
           = IF q > 0 /\ case.suppliers[c].delivery > Longest(DaysOf(lots))
             THEN case.suppliers[c].delivery ELSE Longest(DaysOf(lots))
  BY <1>1, PutLines
<1> HIDE DEF put
<1>6. PlanFor(put) =
        [lots |-> put, quantity |-> Sum(put), reliability |-> Sum(ReliabilityTerms(put)),
         cost |-> Sum(CostTerms(put)), lines |-> Cardinality(Used(put)),
         delivery |-> Longest(DaysOf(put))]
  BY PlanForFields
<1>7. PlanFor(lots) =
        [lots |-> lots, quantity |-> Sum(lots), reliability |-> Sum(ReliabilityTerms(lots)),
         cost |-> Sum(CostTerms(lots)), lines |-> Cardinality(Used(lots)),
         delivery |-> Longest(DaysOf(lots))]
  BY PlanForFields
<1>8. Extend(PlanFor(lots), c, q) =
        [lots |-> put, quantity |-> Sum(put), reliability |-> Sum(ReliabilityTerms(put)),
         cost |-> Sum(CostTerms(put)), lines |-> Cardinality(Used(put)),
         delivery |-> Longest(DaysOf(put))]
  BY <1>2, <1>3, <1>4, <1>5, <1>7 DEF Extend, Effective, put
<1> QED BY <1>6, <1>8 DEF put

-----------------------------------------------------------------------------
(***************************************************************************)
(* The search.                                                             *)
(***************************************************************************)

Buys == Decide(case.inputs).type \in {"ACCEPT", "MODIFY"}

\* The suppliers that had their turn, the one whose options are being added
\* included.
Served == Eligible \ todo

\* s has its sums, and lines of the suppliers in D only.
AddsUp(s, D) == s = PlanFor(s.lots) /\ \A d \in Ids : s.lots[d] > 0 => d \in D

\* The lines of the suppliers in D.
PartOf(lots, D) == [c \in Ids |-> IF c \in D THEN lots[c] ELSE 0]

\* a does what p does, as far as the need asks for it, and is no worse.
Covers(a, p) ==
  /\ a.quantity <= p.quantity
  /\ a.quantity = p.quantity \/ a.quantity >= TargetNeed
  /\ a.reliability >= p.reliability
  /\ a.cost <= p.cost
  /\ a.lines <= p.lines
  /\ a.delivery <= p.delivery

\* Whatever order is allowed, a partial plan in A covers its lines in D.
Reaches(A, D) ==
  \A lots \in [Ids -> Nat] : Allowed(lots) => \E a \in A : Covers(a, PlanFor(PartOf(lots, D)))

NothingAllowed == \A lots \in [Ids -> Nat] : ~Allowed(lots)

NoneBefore(s) == \A lots \in [Ids -> Nat] : Allowed(lots) => ~Before(PlanFor(lots), s)

Searching == stage \in {"suppliers", "options"}

\* Suppliers have their turns in the order of their numbers.
TurnsInOrder ==
  /\ Searching => \A d \in Served : \A t \in todo : d < t
  /\ stage = "options" => /\ turn \in Served
                          /\ \A d \in Served \ {turn} : d < turn

SearchAddsUp ==
  /\ stage = "suppliers" => \A s \in frontier : AddsUp(s, Served)
  /\ stage = "options" => /\ \A s \in pending : AddsUp(s, Served \ {turn})
                          /\ \A s \in next : AddsUp(s, Served)
  /\ plan # NoPlan => plan = PlanFor(plan.lots) /\ plan.quantity > 0

SearchReaches ==
  Searching => /\ Reaches(all, Served)
               /\ \A a \in all : a.quantity = 0 \/ a.quantity \in SearchRange

\* Where a plan can be, and what was decided.
StagesInOrder ==
  /\ stage \in {"policy", "suppliers", "options"} => ~gaveUp
  /\ stage \in {"suppliers", "options", "planned"} => Buys
  /\ plan # NoPlan => Buys /\ ~gaveUp /\ stage \in {"planned", "done"}
  /\ stage = "policy" => plan = NoPlan

OutcomeIsBest ==
  (stage \in {"planned", "done"} /\ Buys /\ ~gaveUp) =>
    IF plan = NoPlan THEN NothingAllowed ELSE NoneBefore(plan)

\* What SavePlan leaves behind.
OutcomeIsSaved ==
  (stage = "done" /\ Buys) =>
    /\ status = IF Complete THEN "AWAITING_APPROVAL" ELSE "NEEDS_ATTENTION"
    /\ final = FinalQuote

BestInv ==
  /\ IInv /\ LimitsInv /\ case \in Cases
  /\ TurnsInOrder /\ SearchAddsUp /\ SearchReaches
  /\ StagesInOrder /\ OutcomeIsBest /\ OutcomeIsSaved

\* A line of the next supplier keeps a partial plan's sums right.
LEMMA AddsUpExtends ==
  ASSUME case \in Case, NEW s \in PartialPlan, NEW D, NEW c \in Ids, NEW q \in Nat,
         AddsUp(s, D), \A d \in Ids : d \in D => d < c
  PROVE  AddsUp(Extend(s, c, q), D \cup {c})
<1>1. s.lots \in [Ids -> Nat] BY DEF PartialPlan, PartialPlanOf
<1>2. EmptyFrom(s.lots, c)
  <2> SUFFICES ASSUME NEW d \in Ids, d >= c PROVE s.lots[d] = 0 BY DEF EmptyFrom
  <2>1. d \in Nat /\ c \in Nat /\ s.lots[d] \in Nat BY <1>1, IdsAreInterval
  <2>2. d \notin D BY <2>1
  <2>3. ~(s.lots[d] > 0) BY <2>2 DEF AddsUp
  <2> QED BY <2>1, <2>3
<1>3. PlanFor([s.lots EXCEPT ![c] = q]) = Extend(s, c, q)
  <2>1. PlanFor([s.lots EXCEPT ![c] = q]) = Extend(PlanFor(s.lots), c, q)
    BY <1>1, <1>2, PutExtends
  <2> QED BY <2>1 DEF AddsUp
<1>4. Extend(s, c, q).lots = [s.lots EXCEPT ![c] = q] BY DEF Extend
<1>5. \A d \in Ids : [s.lots EXCEPT ![c] = q][d] > 0 => d \in D \cup {c}
  BY <1>1 DEF AddsUp
<1> QED BY <1>3, <1>4, <1>5 DEF AddsUp

LEMMA AddsUpWidens ==
  ASSUME NEW s, NEW D, NEW E, AddsUp(s, D), D \subseteq E
  PROVE  AddsUp(s, E)
BY DEF AddsUp

\* Some of an order costs no more and needs no more space.
LEMMA PartIsSmaller ==
  ASSUME case \in Case, NEW lots \in [Ids -> Nat], NEW D
  PROVE  /\ PartOf(lots, D) \in [Ids -> Nat]
         /\ PlanFor(PartOf(lots, D)).cost <= PlanFor(lots).cost
         /\ PlanFor(PartOf(lots, D)).quantity <= Sum(lots)
<1> DEFINE part == PartOf(lots, D)
<1>1. Ids = 1..Last /\ Last \in Nat BY IdsAreInterval
<1>2. part \in [Ids -> Nat] /\ \A c \in Ids : part[c] <= lots[c] BY DEF PartOf
<1> HIDE DEF part
<1>3. Sum(part) <= Sum(lots) BY <1>1, <1>2, SumMonotone DEF Sum, Last
<1>4. \A c \in Ids : CostTerms(part)[c] <= CostTerms(lots)[c]
  <2> SUFFICES ASSUME NEW c \in Ids PROVE CostTerms(part)[c] <= CostTerms(lots)[c] OBVIOUS
  <2>1. /\ CostTerms(part)[c] = part[c] * case.suppliers[c].cost
        /\ CostTerms(lots)[c] = lots[c] * case.suppliers[c].cost
    BY <1>2, TermsAreNat
  <2>2. part[c] \in Nat /\ lots[c] \in Nat /\ part[c] <= lots[c] BY <1>2
  <2>3. case.suppliers[c].cost \in Nat BY TermsType
  <2> QED BY <2>1, <2>2, <2>3
<1>5. \A c \in Ids : CostTerms(part)[c] \in Nat /\ CostTerms(lots)[c] \in Nat
  BY <1>2, TermsAreNat
<1>6. Sum(CostTerms(part)) <= Sum(CostTerms(lots))
  BY <1>1, <1>4, <1>5, SumMonotone DEF Sum, Last
<1>7. /\ PlanFor(part).cost = Sum(CostTerms(part)) /\ PlanFor(part).quantity = Sum(part)
      /\ PlanFor(lots).cost = Sum(CostTerms(lots))
  BY PlanForFields
<1>8. part \in [Ids -> Nat] /\ PlanFor(part).cost <= PlanFor(lots).cost
      /\ PlanFor(part).quantity <= Sum(lots)
  BY <1>2, <1>3, <1>6, <1>7
<1> QED BY <1>8 DEF part

\* A multiple that is at most as large as another one, and whatever number of
\* units is still asked for, rounded up.
LEMMA CoveringLot ==
  ASSUME NEW n \in Nat, NEW m \in Positive, NEW gap \in Nat, n % m = 0
  PROVE  \E q \in Nat : /\ q <= n /\ q % m = 0
                        /\ q = n \/ q >= gap
                        /\ q < gap + m
                        /\ q = 0 => n = 0 \/ gap = 0
<1>1. PICK k \in Nat : RoundedUp(gap, m) = k * m /\ gap <= k * m /\ k * m < gap + m
  BY RoundingUp
<1>2. k * m \in Nat /\ (k * m) % m = 0 /\ m \in Nat /\ m > 0
  <2>1. m \in Nat /\ m > 0 BY DEF Positive
  <2> QED BY <2>1, Multiple
<1>3. CASE n <= k * m
  <2>1. n < gap + m BY <1>1, <1>2, <1>3
  <2> QED BY <2>1
<1>4. CASE n > k * m BY <1>1, <1>2, <1>4
<1> QED BY <1>2, <1>3, <1>4

\* Where a partial plan covers another one, it has for any further line of the
\* other one a line with which it still does.
LEMMA CoveringLine ==
  ASSUME case \in Case, NEW a \in PartialPlan, NEW p \in PartialPlan, Covers(a, p),
         NEW c \in Ids, NEW n \in Nat, n % case.suppliers[c].moq = 0
  PROVE  \E q \in Nat : /\ q <= n /\ q % case.suppliers[c].moq = 0
                        /\ q = 0 \/ a.quantity + q < TargetNeed + case.suppliers[c].moq
                        /\ Covers(Extend(a, c, q), Extend(p, c, n))
<1> DEFINE t == case.suppliers[c]
           gap == AtLeastZero(TargetNeed - a.quantity)
<1>1. /\ t.cost \in Nat /\ t.reliability \in Nat /\ t.delivery \in Nat /\ t.moq \in Positive
      /\ t.moq \in Nat
  BY TermsType DEF Positive
<1>2. TargetNeed \in Nat BY NeedType
<1>3. /\ a.quantity \in Nat /\ a.reliability \in Nat /\ a.cost \in Nat /\ a.lines \in Nat
      /\ a.delivery \in Nat
      /\ p.quantity \in Nat /\ p.reliability \in Nat /\ p.cost \in Nat /\ p.lines \in Nat
      /\ p.delivery \in Nat
  BY DEF PartialPlan, PartialPlanOf
<1>4. /\ a.quantity <= p.quantity
      /\ a.quantity = p.quantity \/ a.quantity >= TargetNeed
      /\ a.reliability >= p.reliability /\ a.cost <= p.cost /\ a.lines <= p.lines
      /\ a.delivery <= p.delivery
  BY DEF Covers
<1>5. gap \in Nat BY <1>2, <1>3 DEF AtLeastZero
<1>6. PICK q \in Nat : /\ q <= n /\ q % t.moq = 0
                       /\ q = n \/ q >= gap
                       /\ q < gap + t.moq
                       /\ q = 0 => n = 0 \/ gap = 0
  BY <1>1, <1>5, CoveringLot
<1>7. gap = IF TargetNeed > a.quantity THEN TargetNeed - a.quantity ELSE 0
  BY <1>2, <1>3 DEF AtLeastZero
<1> DEFINE r == IF gap = 0 THEN 0 ELSE q
           x == Extend(a, c, r)
           y == Extend(p, c, n)
<1>8. r \in Nat /\ r <= n /\ r % t.moq = 0
  <2>1. 0 % t.moq = 0 BY <1>1 DEF Positive
  <2> QED BY <1>6, <2>1
<1>9. r = 0 \/ a.quantity + r < TargetNeed + t.moq BY <1>1, <1>2, <1>3, <1>6, <1>7
<1>10. r > 0 => n > 0 BY <1>8
<1>11. Effective(a, r) = Smaller(r, gap) /\ Effective(a, r) \in Nat
  BY <1>5, <1>8 DEF Effective, Smaller
<1>12. Effective(a, r) >= Effective(p, n) /\ Effective(p, n) \in Nat
  <2>1. Effective(p, n) = Smaller(n, IF TargetNeed > p.quantity THEN TargetNeed - p.quantity ELSE 0)
    BY <1>2, <1>3 DEF Effective, AtLeastZero
  <2>2. CASE gap = 0
    <3>1. p.quantity >= TargetNeed BY <1>2, <1>3, <1>4, <1>7, <2>2
    <3> QED BY <1>2, <1>3, <1>11, <2>1, <2>2, <3>1 DEF Smaller
  <2>3. CASE gap # 0
    <3>1. p.quantity = a.quantity /\ r = q BY <1>2, <1>3, <1>4, <1>7, <2>3
    <3>2. Effective(p, n) = Smaller(n, gap) BY <1>7, <2>1, <3>1
    <3> QED BY <1>5, <1>6, <1>11, <3>1, <3>2 DEF Smaller
  <2> QED BY <2>2, <2>3
<1>13. Effective(a, r) * t.reliability >= Effective(p, n) * t.reliability
       /\ Effective(a, r) * t.reliability \in Nat /\ Effective(p, n) * t.reliability \in Nat
  BY <1>1, <1>11, <1>12
<1>14. r * t.cost <= n * t.cost /\ r * t.cost \in Nat /\ n * t.cost \in Nat BY <1>1, <1>8
<1>15. a.quantity + r <= p.quantity + n
       /\ (a.quantity + r = p.quantity + n \/ a.quantity + r >= TargetNeed)
  <2>1. CASE gap = 0 BY <1>2, <1>3, <1>4, <1>7, <2>1
  <2>2. CASE gap # 0 BY <1>2, <1>3, <1>4, <1>6, <1>7, <2>2
  <2> QED BY <2>1, <2>2
<1>16. /\ x.quantity = a.quantity + r /\ x.reliability = a.reliability + Effective(a, r) * t.reliability
       /\ x.cost = a.cost + r * t.cost
       /\ x.lines = IF r > 0 THEN a.lines + 1 ELSE a.lines
       /\ x.delivery = IF r > 0 /\ t.delivery > a.delivery THEN t.delivery ELSE a.delivery
  BY DEF Extend
<1>17. /\ y.quantity = p.quantity + n /\ y.reliability = p.reliability + Effective(p, n) * t.reliability
       /\ y.cost = p.cost + n * t.cost
       /\ y.lines = IF n > 0 THEN p.lines + 1 ELSE p.lines
       /\ y.delivery = IF n > 0 /\ t.delivery > p.delivery THEN t.delivery ELSE p.delivery
  BY DEF Extend
<1> HIDE DEF t, gap, r, x, y
<1>18. x.reliability >= y.reliability BY <1>3, <1>4, <1>13, <1>16, <1>17
<1>19. x.cost <= y.cost BY <1>3, <1>4, <1>14, <1>16, <1>17
<1>20. x.lines <= y.lines BY <1>3, <1>4, <1>8, <1>10, <1>16, <1>17
<1>21. x.delivery <= y.delivery BY <1>1, <1>3, <1>4, <1>8, <1>10, <1>16, <1>17
<1>22. Covers(x, y) BY <1>15, <1>16, <1>17, <1>18, <1>19, <1>20, <1>21 DEF Covers
<1> QED BY <1>8, <1>9, <1>22 DEF t, x, y

\* The options of a supplier are enough to cover what any allowed order has up
\* to its line: the bound on the total quantity, the budget and the storage
\* leave the option that is needed.
LEMMA OptionCovers ==
  ASSUME case \in Case, NEW lots \in [Ids -> Nat], Allowed(lots), NEW D \in SUBSET Ids,
         NEW c \in Eligible, \A d \in D : d < c,
         NEW a \in PartialPlan, a.quantity = 0 \/ a.quantity \in SearchRange,
         Covers(a, PlanFor(PartOf(lots, D)))
  PROVE  \E q \in Options(a, c) : Covers(Extend(a, c, q), PlanFor(PartOf(lots, D \cup {c})))
<1> DEFINE part == PartOf(lots, D)
           more == PartOf(lots, D \cup {c})
           p == PlanFor(part)
           t == case.suppliers[c]
<1>1. c \in Ids /\ c \in Nat BY EligibleAreIds, IdsAreInterval
<1>2. lots[c] \in Nat /\ part \in [Ids -> Nat] /\ more \in [Ids -> Nat]
  BY <1>1, PartIsSmaller
<1>3. p \in PartialPlan BY <1>2, PlanForType
<1>4. PlanFor(more) = Extend(p, c, lots[c])
  <2>1. more = [part EXCEPT ![c] = lots[c]] BY <1>1 DEF PartOf
  <2>2. EmptyFrom(part, c)
    <3> SUFFICES ASSUME NEW d \in Ids, d >= c PROVE part[d] = 0 BY DEF EmptyFrom
    <3>1. d \in Nat BY IdsAreInterval
    <3>2. d \notin D BY <1>1, <3>1
    <3> QED BY <3>2 DEF PartOf
  <2> HIDE DEF part, more
  <2> QED BY <1>1, <1>2, <2>1, <2>2, PutExtends
<1>5. /\ lots[c] % t.moq = 0 /\ InSupply(lots[c], t.supply)
      /\ PlanFor(lots).cost <= case.inputs.budget
      /\ Sum(lots) * case.inputs.unitVolume <= case.inputs.storage
  BY <1>1 DEF Allowed
<1>6. PICK q \in Nat : /\ q <= lots[c] /\ q % t.moq = 0
                       /\ q = 0 \/ a.quantity + q < TargetNeed + t.moq
                       /\ Covers(Extend(a, c, q), Extend(p, c, lots[c]))
  BY <1>1, <1>2, <1>3, <1>5, CoveringLine
<1>7. Covers(Extend(a, c, q), PlanFor(more)) BY <1>4, <1>6
<1>8. /\ PlanFor(more).cost <= PlanFor(lots).cost /\ PlanFor(more).quantity <= Sum(lots)
  BY PartIsSmaller
<1>9. /\ PlanFor(more).cost \in Nat /\ PlanFor(more).quantity \in Nat
      /\ PlanFor(lots).cost \in Nat /\ PlanFor(lots).quantity \in Nat
  <2>1. PlanFor(more) \in PartialPlan /\ PlanFor(lots) \in PartialPlan
    BY <1>2, PlanForType
  <2> QED BY <2>1 DEF PartialPlan, PartialPlanOf
<1>10. Sum(lots) \in Nat BY <1>9, PlanForFields
<1>11. a.quantity \in Nat /\ a.cost \in Nat BY DEF PartialPlan, PartialPlanOf
<1>12. t.cost \in Nat /\ t.moq \in Nat /\ t.moq > 0 /\ t.supply \in Supply BY <1>1, TermsType
<1>13. /\ a.quantity + q <= PlanFor(more).quantity
       /\ a.cost + q * t.cost <= PlanFor(more).cost
  BY <1>7 DEF Covers, Extend
<1>14. /\ case.inputs.budget \in Nat /\ case.inputs.storage \in Nat
       /\ case.inputs.unitVolume \in Nat
  BY DEF Case, Inputs, Positive
<1>15. TargetNeed \in Nat BY NeedType
<1> HIDE DEF part, more, p, t
<1>16. a.cost + q * t.cost <= case.inputs.budget
  <2>1. q * t.cost \in Nat BY <1>12
  <2> QED BY <1>5, <1>8, <1>9, <1>11, <1>13, <1>14, <2>1
<1>17. (a.quantity + q) * case.inputs.unitVolume <= case.inputs.storage
  <2>1. a.quantity + q <= Sum(lots) BY <1>8, <1>9, <1>10, <1>11, <1>13
  <2>2. (a.quantity + q) * case.inputs.unitVolume <= Sum(lots) * case.inputs.unitVolume
    BY <1>10, <1>11, <1>14, <2>1
  <2>3. (a.quantity + q) * case.inputs.unitVolume \in Nat
        /\ Sum(lots) * case.inputs.unitVolume \in Nat
    BY <1>10, <1>11, <1>14
  <2> QED BY <1>5, <1>14, <2>2, <2>3
<1>18. q \in SearchRange /\ a.quantity + q \in SearchRange
  <2>1. \A k \in Nat : k < TargetNeed + t.moq => k \in SearchRange
    BY <1>12, <1>15 DEF SearchRange, t
  <2>2. CASE q = 0
    <3>1. 0 \in SearchRange BY <1>12, <1>15, <2>1
    <3> QED BY <1>11, <2>2, <3>1
  <2>3. CASE q # 0 BY <1>6, <1>11, <1>12, <1>15, <2>1, <2>3
  <2> QED BY <2>2, <2>3
<1>19. InSupply(q, t.supply)
  BY <1>2, <1>5, <1>6, <1>12 DEF InSupply, Supply
<1>20. q \in Options(a, c)
  BY <1>6, <1>16, <1>17, <1>18, <1>19 DEF Options, Lots, t
<1> QED BY <1>7, <1>20 DEF more

\* What does not rank before a plan covers nothing that does.
LEMMA CoveredIsNotBefore ==
  ASSUME case \in Case, NEW a \in PartialPlan, NEW p \in PartialPlan, NEW best \in PartialPlan,
         Covers(a, p), ~Before(a, best)
  PROVE  ~Before(p, best)
<1>1. TargetNeed \in Nat BY NeedType
<1>2. \A s \in {a, p, best} : /\ s.quantity \in Nat /\ s.reliability \in Nat /\ s.cost \in Nat
                              /\ s.lines \in Nat /\ s.delivery \in Nat
  BY DEF PartialPlan, PartialPlanOf
<1>3. Covered(a) = Covered(p) BY <1>1, <1>2 DEF Covers, Covered, Smaller
<1>4. Covered(p) \in Nat /\ Covered(best) \in Nat BY <1>1, <1>2 DEF Covered, Smaller
<1>5. a.reliability >= p.reliability /\ a.cost <= p.cost /\ a.lines <= p.lines
      /\ a.delivery <= p.delivery
  BY DEF Covers
<1> QED BY <1>2, <1>3, <1>4, <1>5 DEF Before

\* An order has lines of eligible suppliers only.
LEMMA AllowedPart ==
  ASSUME case \in Case, NEW lots \in [Ids -> Nat], Allowed(lots)
  PROVE  PartOf(lots, Eligible) = lots
<1>1. \A c \in Ids : lots[c] \in Nat /\ (lots[c] > 0 => c \in Eligible) BY DEF Allowed
<1>2. \A c \in Ids : (IF c \in Eligible THEN lots[c] ELSE 0) = lots[c]
  <2> SUFFICES ASSUME NEW c \in Ids PROVE (IF c \in Eligible THEN lots[c] ELSE 0) = lots[c]
    OBVIOUS
  <2>1. c \in Eligible \/ lots[c] = 0 BY <1>1
  <2> QED BY <2>1
<1>3. lots = [c \in Ids |-> lots[c]] OBVIOUS
<1> QED BY <1>2, <1>3 DEF PartOf

\* A decision to buy has something to buy.
LEMMA TargetIsPositive == ASSUME case \in Case, Buys PROVE TargetNeed \in Nat /\ TargetNeed > 0
<1>1. case.inputs \in Inputs BY DEF Case
<1>2. Need(case.inputs) \in Nat /\ Feasible(case.inputs) \in Nat
  BY <1>1, NeedIsNat, FeasibleIsNat
<1>3. Need(case.inputs) # 0 /\ Feasible(case.inputs) # 0 BY DEF Buys, Decide, DecisionType
<1> QED BY <1>2, <1>3 DEF TargetNeed

\* What depends on the case alone.
LEMMA CaseFixesSearch ==
  ASSUME case' = case
  PROVE  /\ \A s, D : AddsUp(s, D)' <=> AddsUp(s, D)
         /\ Eligible' = Eligible /\ SearchRange' = SearchRange /\ Ids' = Ids
         /\ Buys' <=> Buys
<1>1. Ids' = Ids BY DEF Ids
<1>2. Eligible' = Eligible BY CaseFixesLimits
<1>3. SearchRange' = SearchRange BY <1>2 DEF SearchRange, TargetNeed, Alternates
<1>4. \A s, D : AddsUp(s, D)' <=> AddsUp(s, D)
  <2>1. \A s : PlanFor(s.lots)' = PlanFor(s.lots)
    BY DEF PlanFor, Ids, TargetNeed, Alternates, Sum
  <2> QED BY <1>1, <2>1 DEF AddsUp
<1>5. Buys' <=> Buys BY DEF Buys
<1> QED BY <1>1, <1>2, <1>3, <1>4, <1>5

LEMMA CaseFixesOrders ==
  ASSUME case' = case
  PROVE  /\ \A A, D : Reaches(A, D)' <=> Reaches(A, D)
         /\ NothingAllowed' <=> NothingAllowed
         /\ \A s : NoneBefore(s)' <=> NoneBefore(s)
<1>1. \A lots : PlanFor(lots)' = PlanFor(lots)
  BY DEF PlanFor, Ids, TargetNeed, Alternates, Sum
<1>2. Ids' = Ids BY DEF Ids
<1>3. Eligible' = Eligible BY CaseFixesLimits
<1>4. \A f : Sum(f)' = Sum(f) BY DEF Sum
<1>5. \A lots : Allowed(lots)' <=> Allowed(lots) BY <1>1, <1>2, <1>3, <1>4 DEF Allowed
<1>6. \A lots, D : PartOf(lots, D)' = PartOf(lots, D) BY <1>2 DEF PartOf
<1>7. \A a, p : Covers(a, p)' <=> Covers(a, p) BY DEF Covers, TargetNeed, Alternates
<1>8. \A a, p : Before(a, p)' <=> Before(a, p) BY DEF Before, Covered, TargetNeed, Alternates
<1>9. \A lots, D : PlanFor(PartOf(lots, D))' = PlanFor(PartOf(lots, D))
  BY <1>2 DEF PlanFor, Ids, TargetNeed, Alternates, Sum, PartOf
<1>10. \A A, D : Reaches(A, D)' <=> Reaches(A, D)
  BY <1>2, <1>5, <1>7, <1>9 DEF Reaches
<1>11. NothingAllowed' <=> NothingAllowed BY <1>2, <1>5 DEF NothingAllowed
<1>12. \A s : NoneBefore(s)' <=> NoneBefore(s) BY <1>1, <1>2, <1>5, <1>8 DEF NoneBefore
<1> QED BY <1>10, <1>11, <1>12

LEMMA CaseIsFixed == ASSUME [Next]_vars PROVE case' = case
BY DEF Next, vars, EndWithoutOrder, StartSearch, NextSupplier, AddOptions, EndSupplier, Choose,
       SavePlan, Finished

LEMMA InitBest == Init => BestInv
<1> SUFFICES ASSUME Init PROVE BestInv OBVIOUS
<1>1. IInv
  BY InitType DEF Init, IInv, FrontierMatches, OptionsMatch, PlannedLast, PruningLosesNothing
<1>2. LimitsInv BY InitType DEF Init, LimitsInv
<1>3. stage = "policy" /\ plan = NoPlan /\ gaveUp = FALSE /\ case \in Cases BY DEF Init
<1> QED
  BY <1>1, <1>2, <1>3
     DEF BestInv, TurnsInOrder, SearchAddsUp, SearchReaches, StagesInOrder, OutcomeIsBest,
         OutcomeIsSaved, Searching

\* The next supplier comes after all that had their turn, and before the rest.
LEMMA NextTurns == ASSUME BestInv, [Next]_vars PROVE TurnsInOrder'
<1> USE DEF BestInv
<1>t. case \in Case /\ todo \subseteq Ids /\ todo \subseteq Eligible /\ Eligible \subseteq Nat
  BY EligibleAreIds, IdsAreNumbers DEF LimitsInv, TypeOK
<1>s. Served' = Eligible \ todo' BY CaseIsFixed, CaseFixesSearch DEF Served
<1>u. ASSUME UNCHANGED <<todo, turn>>, stage' \in {stage, "policy", "planned", "done"}
      PROVE TurnsInOrder'
  BY <1>s, <1>u DEF TurnsInOrder, Searching, Served
<1>1. CASE EndWithoutOrder BY <1>1, <1>u DEF EndWithoutOrder, search
<1>2. CASE StartSearch
  <2>1. stage' = "suppliers" /\ todo' = Eligible BY <1>2 DEF StartSearch
  <2> QED BY <1>s, <2>1 DEF TurnsInOrder, Searching
<1>3. CASE NextSupplier
  <2>1. PICK c \in todo : (\A d \in todo : c <= d) /\ turn' = c /\ todo' = todo \ {c}
    BY <1>3 DEF NextSupplier
  <2>2. stage' = "options" /\ \A d \in Served : \A t \in todo : d < t
    BY <1>3 DEF NextSupplier, TurnsInOrder, Searching
  <2>3. Served' = Served \cup {c} /\ c \notin Served /\ c \in Nat
    BY <1>s, <1>t, <2>1 DEF Served
  <2>4. \A d \in Served' : \A t \in todo' : d < t
    <3> SUFFICES ASSUME NEW d \in Served', NEW t \in todo' PROVE d < t OBVIOUS
    <3>1. t \in todo /\ t # c /\ t \in Nat /\ c <= t BY <1>t, <2>1
    <3> QED BY <2>2, <2>3, <3>1
  <2>5. \A d \in Served' \ {c} : d < c BY <2>2, <2>3
  <2> QED BY <2>1, <2>2, <2>3, <2>4, <2>5 DEF TurnsInOrder
<1>4. ASSUME NEW x \in pending, AddOptions(x) PROVE TurnsInOrder'
  BY <1>4, <1>u DEF AddOptions
<1>5. CASE EndSupplier
  <2>1. stage' = "suppliers" /\ todo' = todo BY <1>5 DEF EndSupplier
  <2>2. \A d \in Served : \A t \in todo : d < t
    BY <1>5 DEF EndSupplier, TurnsInOrder, Searching
  <2> QED BY <1>s, <2>1, <2>2 DEF TurnsInOrder, Served
<1>6. CASE Choose BY <1>6, <1>u DEF Choose, search
<1>7. CASE SavePlan BY <1>7, <1>u DEF SavePlan, search
<1>8. CASE Finished \/ UNCHANGED vars BY <1>8, <1>u DEF Finished, vars
<1> QED BY <1>1, <1>2, <1>3, <1>4, <1>5, <1>6, <1>7, <1>8 DEF Next

\* What the search keeps has the sums over its lines.
LEMMA NextAddsUp == ASSUME BestInv, [Next]_vars PROVE SearchAddsUp'
<1> USE DEF BestInv
<1>t. /\ case \in Case /\ frontier \subseteq PartialPlan /\ pending \subseteq PartialPlan
      /\ next \subseteq PartialPlan
  BY DEF LimitsInv, TypeOK
<1>c. case' = case BY CaseIsFixed
<1>s. Served' = Eligible \ todo' BY <1>c, CaseFixesSearch DEF Served
<1>w. ASSUME stage' = "suppliers" => \A s \in frontier' : AddsUp(s, Eligible \ todo'),
             stage' = "options" => \A s \in pending' : AddsUp(s, (Eligible \ todo') \ {turn'}),
             stage' = "options" => \A s \in next' : AddsUp(s, Eligible \ todo'),
             plan' # NoPlan => plan' = PlanFor(plan'.lots) /\ plan'.quantity > 0
      PROVE  SearchAddsUp'
  <2>1. (stage = "suppliers" => \A s \in frontier : AddsUp(s, Served))'
    BY <1>w, <1>c, <1>s, CaseFixesSearch
  <2>2. (stage = "options" => /\ \A s \in pending : AddsUp(s, Served \ {turn})
                              /\ \A s \in next : AddsUp(s, Served))'
    BY <1>w, <1>c, <1>s, CaseFixesSearch
  <2>3. PlanFor(plan.lots)' = PlanFor(plan'.lots)
    BY <1>c DEF PlanFor, Ids, TargetNeed, Alternates, Sum
  <2>4. (plan # NoPlan => plan = PlanFor(plan.lots) /\ plan.quantity > 0)'
    BY <1>w, <2>3
  <2> QED BY <2>1, <2>2, <2>4 DEF SearchAddsUp
<1>p. plan # NoPlan => plan = PlanFor(plan.lots) /\ plan.quantity > 0 BY DEF SearchAddsUp
<1>1. CASE EndWithoutOrder
  <2>1. stage' = "done" /\ plan' = plan BY <1>1 DEF EndWithoutOrder
  <2> QED BY <1>p, <1>w, <2>1
<1>2. CASE StartSearch
  <2>1. stage' = "suppliers" /\ frontier' = {EmptyPlan} /\ plan' = plan
    BY <1>2 DEF StartSearch
  <2>2. EmptyPlan.lots = [c \in Ids |-> 0] BY DEF EmptyPlan
  <2>3. AddsUp(EmptyPlan, Eligible \ todo')
    BY <1>t, <2>2, PlanForNothing DEF AddsUp
  <2> QED BY <1>p, <1>w, <2>1, <2>3
<1>3. CASE NextSupplier
  <2>1. PICK c \in todo : turn' = c /\ todo' = todo \ {c} BY <1>3 DEF NextSupplier
  <2>2. /\ stage = "suppliers" /\ stage' = "options" /\ pending' = frontier /\ next' = {}
        /\ plan' = plan
    BY <1>3 DEF NextSupplier
  <2>3. c \in Eligible BY <2>1 DEF LimitsInv
  <2>4. (Eligible \ todo') \ {turn'} = Served BY <2>1, <2>3 DEF Served
  <2>5. \A s \in pending' : AddsUp(s, (Eligible \ todo') \ {turn'})
    BY <2>2, <2>4 DEF SearchAddsUp
  <2> QED BY <1>p, <1>w, <2>2, <2>5
<1>4. ASSUME NEW x \in pending, AddOptions(x) PROVE SearchAddsUp'
  <2>1. /\ stage = "options" /\ plan' = plan /\ todo' = todo /\ turn' = turn
    BY <1>4 DEF AddOptions
  <2>2. CASE TooComplex(x)
    <3>1. stage' = "planned" BY <1>4, <2>2 DEF AddOptions
    <3> QED BY <1>p, <1>w, <2>1, <3>1
  <2>3. CASE ~TooComplex(x)
    <3>1. next' = Added(x, Options(x, turn)) /\ pending' = pending \ {x} /\ stage' = "options"
      BY <1>4, <2>1, <2>3 DEF AddOptions
    <3>2. turn \in Eligible /\ turn \in Ids /\ turn \in Served
          /\ \A d \in Served \ {turn} : d < turn
      BY <2>1, EligibleAreIds DEF LimitsInv, TurnsInOrder
    <3>3. ASSUME NEW q \in Options(x, turn) PROVE AddsUp(Extend(x, turn, q), Served)
      <4>1. AddsUp(x, Served \ {turn}) /\ x \in PartialPlan
        BY <1>t, <2>1 DEF SearchAddsUp
      <4>2. q \in Nat BY <1>t, OptionType
      <4>3. AddsUp(Extend(x, turn, q), (Served \ {turn}) \cup {turn})
        BY <1>t, <3>2, <4>1, <4>2, AddsUpExtends
      <4>4. (Served \ {turn}) \cup {turn} = Served BY <3>2
      <4> QED BY <4>3, <4>4
    <3>4. \A s \in next' : AddsUp(s, Served)
      BY <2>1, <3>1, <3>3 DEF Added, SearchAddsUp
    <3>5. \A s \in pending' : AddsUp(s, Served \ {turn}) BY <2>1, <3>1 DEF SearchAddsUp
    <3> QED BY <1>p, <1>w, <2>1, <3>1, <3>4, <3>5 DEF Served
  <2> QED BY <2>2, <2>3
<1>5. CASE EndSupplier
  <2>1. /\ stage = "options" /\ stage' = "suppliers" /\ frontier' = next /\ todo' = todo
        /\ plan' = plan
    BY <1>5 DEF EndSupplier
  <2> QED BY <1>p, <1>w, <2>1 DEF SearchAddsUp, Served
<1>6. CASE Choose
  <2>1. /\ stage = "suppliers" /\ stage' = "planned"
        /\ plan' = plan \/ plan' \in Best(Buying(frontier))
    BY <1>6 DEF Choose
  <2>2. ASSUME plan' \in Best(Buying(frontier))
        PROVE plan' = PlanFor(plan'.lots) /\ plan'.quantity > 0
    <3>1. plan' \in frontier /\ plan'.quantity > 0 BY <2>2 DEF Best, Buying
    <3>2. AddsUp(plan', Served) BY <2>1, <3>1 DEF SearchAddsUp
    <3> QED BY <3>1, <3>2 DEF AddsUp
  <2>3. plan' # NoPlan => plan' = PlanFor(plan'.lots) /\ plan'.quantity > 0
    BY <1>p, <2>1, <2>2
  <2> QED BY <1>w, <2>1, <2>3
<1>7. CASE SavePlan
  <2>1. stage' = "done" /\ plan' = plan BY <1>7 DEF SavePlan
  <2> QED BY <1>p, <1>w, <2>1
<1>8. CASE Finished \/ UNCHANGED vars
  <2>1. UNCHANGED <<stage, frontier, pending, next, plan, todo, turn>>
    BY <1>8 DEF Finished, vars
  <2> QED BY <1>p, <1>w, <2>1 DEF SearchAddsUp, Served
<1> QED BY <1>1, <1>2, <1>3, <1>4, <1>5, <1>6, <1>7, <1>8 DEF Next

\* Whatever is allowed stays covered, with every supplier's turn.
LEMMA NextReaches == ASSUME BestInv, [Next]_vars PROVE SearchReaches'
<1> USE DEF BestInv
<1>t. case \in Case /\ all \subseteq PartialPlan BY DEF LimitsInv, TypeOK
<1>c. case' = case BY CaseIsFixed
<1>s. Served' = Eligible \ todo' BY <1>c, CaseFixesSearch DEF Served
<1>w. ASSUME stage' \in {"suppliers", "options"} =>
               /\ Reaches(all', Eligible \ todo')
               /\ \A a \in all' : a.quantity = 0 \/ a.quantity \in SearchRange
      PROVE  SearchReaches'
  <2>1. Searching' => Reaches(all, Served)'
    BY <1>w, <1>c, <1>s, CaseFixesOrders DEF Searching
  <2>2. Searching' => (\A a \in all : a.quantity = 0 \/ a.quantity \in SearchRange)'
    BY <1>w, <1>c, CaseFixesSearch DEF Searching
  <2> QED BY <2>1, <2>2 DEF SearchReaches
<1>u. ASSUME Searching, UNCHANGED <<all, todo>> PROVE SearchReaches'
  BY <1>u, <1>w DEF SearchReaches, Served
<1>1. CASE EndWithoutOrder BY <1>1, <1>w DEF EndWithoutOrder
<1>2. CASE StartSearch
  <2>1. all' = {EmptyPlan} /\ todo' = Eligible BY <1>2 DEF StartSearch
  <2>2. EmptyPlan.quantity = 0 /\ EmptyPlan \in PartialPlan
    BY DEF EmptyPlan, PartialPlan, PartialPlanOf
  <2>3. \A lots \in [Ids -> Nat] : PlanFor(PartOf(lots, {})) = EmptyPlan
    BY <1>t, PlanForNothing DEF PartOf
  <2>4. Covers(EmptyPlan, EmptyPlan) BY DEF Covers, EmptyPlan
  <2>5. Reaches({EmptyPlan}, {}) BY <2>3, <2>4 DEF Reaches
  <2>6. Eligible \ todo' = {} BY <2>1
  <2> QED BY <1>w, <2>1, <2>2, <2>5, <2>6
<1>3. CASE NextSupplier
  <2>1. PICK c \in todo :
          /\ \A d \in todo : c <= d
          /\ turn' = c /\ todo' = todo \ {c}
          /\ all' = UNION {{Extend(a, c, q) : q \in Options(a, c)} : a \in all}
    BY <1>3 DEF NextSupplier
  <2>2. stage = "suppliers" BY <1>3 DEF NextSupplier
  <2>3. c \in Eligible /\ c \in Ids BY <2>1, EligibleAreIds DEF LimitsInv
  <2>4. Eligible \ todo' = Served \cup {c} BY <2>1, <2>3 DEF Served
  <2>5. Served \subseteq Ids /\ \A d \in Served : d < c
    BY <2>1, <2>2, EligibleAreIds DEF TurnsInOrder, Searching, Served
  <2>6. \A a \in all : a.quantity = 0 \/ a.quantity \in SearchRange
    BY <2>2 DEF SearchReaches, Searching
  <2>7. ASSUME NEW lots \in [Ids -> Nat], Allowed(lots)
        PROVE  \E b \in all' : Covers(b, PlanFor(PartOf(lots, Served \cup {c})))
    <3>1. PICK a \in all : Covers(a, PlanFor(PartOf(lots, Served)))
      BY <2>2, <2>7 DEF SearchReaches, Searching, Reaches
    <3>2. a \in PartialPlan BY <1>t
    <3>3. PICK q \in Options(a, c) :
            Covers(Extend(a, c, q), PlanFor(PartOf(lots, Served \cup {c})))
      BY <1>t, <2>3, <2>5, <2>6, <2>7, <3>1, <3>2, OptionCovers
    <3>4. Extend(a, c, q) \in all' BY <2>1
    <3> QED BY <3>3, <3>4
  <2>8. Reaches(all', Served \cup {c}) BY <2>7 DEF Reaches
  <2>9. ASSUME NEW b \in all' PROVE b.quantity \in SearchRange
    <3>1. PICK a \in all : \E q \in Options(a, c) : b = Extend(a, c, q) BY <2>1
    <3>2. PICK q \in Options(a, c) : b = Extend(a, c, q) BY <3>1
    <3>3. a.quantity + q \in SearchRange BY DEF Options, Lots
    <3> QED BY <3>2, <3>3 DEF Extend
  <2> QED BY <1>w, <2>4, <2>8, <2>9
<1>4. ASSUME NEW x \in pending, AddOptions(x) PROVE SearchReaches'
  BY <1>4, <1>u DEF AddOptions, Searching
<1>5. CASE EndSupplier BY <1>5, <1>u DEF EndSupplier, Searching
<1>6. CASE Choose BY <1>6, <1>w DEF Choose
<1>7. CASE SavePlan BY <1>7, <1>w DEF SavePlan
<1>8. CASE Finished \/ UNCHANGED vars
  <2>1. UNCHANGED <<stage, all, todo>> BY <1>8 DEF Finished, vars
  <2> QED BY <1>u, <1>w, <2>1 DEF Searching
<1> QED BY <1>1, <1>2, <1>3, <1>4, <1>5, <1>6, <1>7, <1>8 DEF Next

LEMMA NextStages == ASSUME BestInv, [Next]_vars PROVE StagesInOrder'
<1> USE DEF BestInv, StagesInOrder
<1>c. case' = case /\ (Buys' <=> Buys) BY CaseIsFixed, CaseFixesSearch
<1>1. CASE EndWithoutOrder BY <1>1, <1>c DEF EndWithoutOrder
<1>2. CASE StartSearch
  <2>1. Buys BY <1>2 DEF StartSearch, Buys
  <2> QED BY <1>2, <1>c, <2>1 DEF StartSearch
<1>3. CASE NextSupplier BY <1>3, <1>c DEF NextSupplier
<1>4. ASSUME NEW x \in pending, AddOptions(x) PROVE StagesInOrder'
  BY <1>4, <1>c DEF AddOptions
<1>5. CASE EndSupplier BY <1>5, <1>c DEF EndSupplier
<1>6. CASE Choose BY <1>6, <1>c DEF Choose
<1>7. CASE SavePlan BY <1>7, <1>c DEF SavePlan
<1>8. CASE Finished \/ UNCHANGED vars BY <1>8, <1>c DEF Finished, vars
<1> QED BY <1>1, <1>2, <1>3, <1>4, <1>5, <1>6, <1>7, <1>8 DEF Next

\* The best of the frontier is the best there is.
LEMMA ChosenIsBest ==
  ASSUME BestInv, Choose
  PROVE  IF plan' = NoPlan THEN NothingAllowed ELSE NoneBefore(plan')
<1> USE DEF BestInv
<1>t. /\ case \in Case /\ case \in Cases /\ frontier \subseteq PartialPlan
      /\ all \subseteq PartialPlan
  BY DEF LimitsInv, TypeOK
<1>1. stage = "suppliers" /\ todo = {} /\ plan = NoPlan
  BY DEF Choose, IInv, PlannedLast
<1>2. Served = Eligible BY <1>1 DEF Served
<1>3. TargetNeed \in Nat /\ TargetNeed > 0
  BY <1>t, <1>1, TargetIsPositive DEF StagesInOrder
\* Every order is covered by a partial plan that buys, and that one is matched
\* in the frontier.
<1>4. ASSUME NEW lots \in [Ids -> Nat], Allowed(lots)
      PROVE  \E a \in PartialPlan : \E f \in Buying(frontier) :
               Covers(a, PlanFor(lots)) /\ NoWorse(f, a)
  <2>1. PICK a \in all : Covers(a, PlanFor(PartOf(lots, Served)))
    BY <1>1, <1>4 DEF SearchReaches, Searching, Reaches
  <2>2. Covers(a, PlanFor(lots)) BY <1>t, <1>2, <1>4, <2>1, AllowedPart
  <2>3. PlanFor(lots).quantity > 0 BY <1>4, PlanForFields DEF Allowed
  <2>4. a \in PartialPlan /\ a.quantity \in Nat BY <1>t DEF PartialPlan, PartialPlanOf
  <2>5. a.quantity > 0 BY <1>3, <2>2, <2>3, <2>4 DEF Covers
  <2>6. PICK f \in frontier : NoWorse(f, a) BY <1>1 DEF IInv, FrontierMatches
  <2>7. f \in Buying(frontier) BY <2>5, <2>6 DEF Buying, NoWorse
  <2> QED BY <2>2, <2>4, <2>6, <2>7
<1>5. CASE Buying(frontier) = {}
  <2>1. plan' = NoPlan BY <1>1, <1>5 DEF Choose
  <2>2. NothingAllowed BY <1>4, <1>5 DEF NothingAllowed
  <2> QED BY <2>1, <2>2
<1>6. CASE Buying(frontier) # {}
  <2>1. plan' \in Best(Buying(frontier)) BY <1>6 DEF Choose
  <2>2. plan' \in PartialPlan /\ \A f \in Buying(frontier) : ~Before(f, plan')
    BY <1>t, <2>1 DEF Best, Buying
  <2>3. plan' # NoPlan
    BY <1>t, <2>2, NoPlanAssumption DEF PartialPlan, Ids
  <2>4. ASSUME NEW lots \in [Ids -> Nat], Allowed(lots) PROVE ~Before(PlanFor(lots), plan')
    <3>1. PICK a \in PartialPlan : \E f \in Buying(frontier) :
                                     Covers(a, PlanFor(lots)) /\ NoWorse(f, a)
      BY <1>4, <2>4
    <3>2. PICK f \in Buying(frontier) : Covers(a, PlanFor(lots)) /\ NoWorse(f, a) BY <3>1
    <3>3. f \in PartialPlan /\ PlanFor(lots) \in PartialPlan
      BY <1>t, PlanForType DEF Buying
    <3>4. ~Before(a, plan') BY <1>t, <2>2, <3>2, <3>3, BestBeatsMatched
    <3> QED BY <1>t, <2>2, <3>2, <3>3, <3>4, CoveredIsNotBefore
  <2> QED BY <2>3, <2>4 DEF NoneBefore
<1> QED BY <1>5, <1>6

LEMMA NextOutcome == ASSUME BestInv, [Next]_vars PROVE OutcomeIsBest' /\ OutcomeIsSaved'
<1> USE DEF BestInv
<1>c. /\ case' = case /\ (Buys' <=> Buys) /\ (NothingAllowed' <=> NothingAllowed)
      /\ \A s : NoneBefore(s)' <=> NoneBefore(s)
  BY CaseIsFixed, CaseFixesSearch, CaseFixesOrders
<1>w. ASSUME (stage' \in {"planned", "done"} /\ Buys /\ ~gaveUp') =>
               IF plan' = NoPlan THEN NothingAllowed ELSE NoneBefore(plan')
      PROVE  OutcomeIsBest'
  BY <1>w, <1>c DEF OutcomeIsBest
<1>v. ASSUME plan' = plan PROVE (Complete' <=> Complete) /\ FinalQuote' = FinalQuote
  BY <1>c, <1>v DEF Complete, FinalQuote, Covered, TargetNeed, Alternates, NoQuote
<1>1. CASE EndWithoutOrder
  <2>1. ~Buys BY <1>1 DEF EndWithoutOrder, Buys
  <2> QED BY <1>c, <1>w, <2>1 DEF OutcomeIsSaved
<1>2. CASE StartSearch
  BY <1>2, <1>w DEF StartSearch, OutcomeIsSaved
<1>3. CASE NextSupplier BY <1>3, <1>w DEF NextSupplier, OutcomeIsSaved
<1>4. ASSUME NEW x \in pending, AddOptions(x) PROVE OutcomeIsBest' /\ OutcomeIsSaved'
  BY <1>4, <1>w DEF AddOptions, OutcomeIsSaved
<1>5. CASE EndSupplier BY <1>5, <1>w DEF EndSupplier, OutcomeIsSaved
<1>6. CASE Choose
  <2>1. OutcomeIsBest' BY <1>6, <1>w, ChosenIsBest
  <2> QED BY <1>6, <2>1 DEF Choose, OutcomeIsSaved
<1>7. CASE SavePlan
  <2>1. /\ stage = "planned" /\ stage' = "done" /\ UNCHANGED <<gaveUp, plan>>
        /\ status' = IF Complete THEN "AWAITING_APPROVAL" ELSE "NEEDS_ATTENTION"
        /\ final' = FinalQuote
    BY <1>7 DEF SavePlan
  <2>2. OutcomeIsBest' BY <1>w, <2>1 DEF OutcomeIsBest
  <2>3. OutcomeIsSaved' BY <1>v, <2>1 DEF OutcomeIsSaved
  <2> QED BY <2>2, <2>3
<1>8. CASE Finished \/ UNCHANGED vars
  <2>1. UNCHANGED <<stage, status, gaveUp, plan, final>> BY <1>8 DEF Finished, vars
  <2>2. OutcomeIsBest' BY <1>w, <2>1 DEF OutcomeIsBest
  <2>3. OutcomeIsSaved' BY <1>c, <1>v, <2>1 DEF OutcomeIsSaved
  <2> QED BY <2>2, <2>3
<1> QED BY <1>1, <1>2, <1>3, <1>4, <1>5, <1>6, <1>7, <1>8 DEF Next

LEMMA BestAlways == Spec => []BestInv
<1>1. Init => BestInv BY InitBest
<1>2. BestInv /\ [Next]_vars => BestInv'
  <2> SUFFICES ASSUME BestInv, [Next]_vars PROVE BestInv' OBVIOUS
  <2>1. IInv' BY NextInv DEF BestInv
  <2>2. LimitsInv' BY NextLimits DEF BestInv
  <2>3. (case \in Cases)' BY CaseIsFixed DEF BestInv
  <2> QED
    BY <2>1, <2>2, <2>3, NextTurns, NextAddsUp, NextReaches, NextStages, NextOutcome DEF BestInv
<1> QED BY <1>1, <1>2, PTL DEF Spec

-----------------------------------------------------------------------------
(***************************************************************************)
(* What is promised of the plan.                                           *)
(***************************************************************************)

\* A chosen plan is the plan of its lots, and those are allowed.
LEMMA ChosenPlan ==
  ASSUME BestInv, plan # NoPlan
  PROVE  /\ case \in Case /\ Buys /\ TargetNeed \in Nat /\ TargetNeed > 0
         /\ plan \in PartialPlan /\ plan.lots \in [Ids -> Nat]
         /\ plan = PlanFor(plan.lots) /\ plan.quantity = Sum(plan.lots)
         /\ Allowed(plan.lots) /\ NoneBefore(plan)
<1> USE DEF BestInv
<1>1. case \in Case /\ plan \in PartialPlan BY DEF LimitsInv, TypeOK
<1>2. plan.lots \in [Ids -> Nat] BY <1>1 DEF PartialPlan, PartialPlanOf
<1>3. plan = PlanFor(plan.lots) /\ plan.quantity > 0 BY DEF SearchAddsUp
<1>4. plan.quantity = Sum(plan.lots)
  <2>1. PlanFor(plan.lots).quantity = Sum(plan.lots) BY PlanForFields
  <2> QED BY <1>3, <2>1
<1>5. Buys /\ ~gaveUp /\ stage \in {"planned", "done"} BY DEF StagesInOrder
<1>6. NoneBefore(plan) BY <1>5 DEF OutcomeIsBest
<1>7. WithinLimits(plan) BY DEF LimitsInv
<1>8. ASSUME NEW c \in Ids
      PROVE  /\ plan.lots[c] > 0 => c \in Eligible
             /\ plan.lots[c] % case.suppliers[c].moq = 0
             /\ InSupply(plan.lots[c], case.suppliers[c].supply)
  <2>1. CASE plan.lots[c] > 0 BY <1>7, <2>1 DEF WithinLimits
  <2>2. CASE plan.lots[c] = 0
    <3>1. case.suppliers[c].moq \in Nat \ {0} /\ case.suppliers[c].supply \in Supply
      BY <1>1, TermsType
    <3>2. 0 % case.suppliers[c].moq = 0 BY <3>1
    <3> QED BY <2>2, <3>1, <3>2 DEF InSupply, Supply
  <2> QED BY <1>2, <2>1, <2>2
<1>9. PlanFor(plan.lots).cost <= case.inputs.budget BY <1>3, <1>7 DEF WithinLimits
<1>10. Sum(plan.lots) * case.inputs.unitVolume <= case.inputs.storage
  BY <1>4, <1>7 DEF WithinLimits
<1>11. Allowed(plan.lots) BY <1>3, <1>4, <1>8, <1>9, <1>10 DEF Allowed
<1> QED BY <1>1, <1>2, <1>3, <1>4, <1>5, <1>6, <1>11, TargetIsPositive

\* A plan keeps every line's minimum order and availability and the budget and
\* storage of the whole, counted from its lines.
THEOREM PlanWithinLimits == Spec => []PlanKeepsLimits
<1>1. BestInv => PlanKeepsLimits BY ChosenPlan DEF PlanKeepsLimits
<1> QED BY <1>1, BestAlways, PTL

\* The search finds an order if there is one, and none that is allowed, of
\* whatever size, ranks before it.
THEOREM PlanIsOptimal ==
  Spec => []((stage = "done" /\ Buys /\ ~gaveUp) =>
               IF plan = NoPlan THEN NothingAllowed
               ELSE plan = PlanFor(plan.lots) /\ Allowed(plan.lots) /\ NoneBefore(plan))
<1>1. BestInv => ((stage = "done" /\ Buys /\ ~gaveUp) =>
                    IF plan = NoPlan THEN NothingAllowed
                    ELSE plan = PlanFor(plan.lots) /\ Allowed(plan.lots) /\ NoneBefore(plan))
  BY ChosenPlan DEF BestInv, OutcomeIsBest
<1> QED BY <1>1, BestAlways, PTL

\* The same against the orders the model checker compares with.
THEOREM PlanBest == Spec => []PlanIsBest
<1>1. BestInv => PlanIsBest
  <2> SUFFICES ASSUME BestInv, stage = "done", Buys, ~gaveUp
               PROVE  IF plan = NoPlan THEN Allocations = {}
                      ELSE /\ plan = PlanFor(plan.lots)
                           /\ \A lots \in Allocations : ~Before(PlanFor(lots), plan)
    BY DEF PlanIsBest, Buys
  <2>1. \A lots \in Allocations : lots \in [Ids -> Nat] /\ Allowed(lots)
    BY LimitsAssumption DEF Allocations
  <2>2. CASE plan = NoPlan
    BY <2>1, <2>2 DEF BestInv, OutcomeIsBest, NothingAllowed
  <2>3. CASE plan # NoPlan
    BY <2>1, <2>3, ChosenPlan DEF NoneBefore
  <2> QED BY <2>2, <2>3
<1> QED BY <1>1, BestAlways, PTL

\* Multiples are a whole factor apart.
LEMMA LessOneLot ==
  ASSUME NEW m \in Positive, NEW q \in Nat, q % m = 0, q > 0
  PROVE  q >= m /\ (q - m) % m = 0
<1> DEFINE k == q \div m
<1>1. m \in Nat /\ m > 0 BY DEF Positive
<1>2. q = k * m /\ k \in Nat BY <1>1
<1> HIDE DEF k
<1>3. k >= 1 BY <1>1, <1>2
<1>4. k - 1 \in Nat /\ k * m = (k - 1) * m + m BY <1>1, <1>2, <1>3
<1>5. (k - 1) * m \in Nat /\ ((k - 1) * m) % m = 0 BY <1>4, Multiple
<1> QED BY <1>1, <1>2, <1>4, <1>5

LEMMA SameLots ==
  ASSUME NEW m \in Positive, NEW a \in Nat, NEW b \in Nat, a % m = 0, b % m = 0,
         a <= b, b < a + m
  PROVE  a = b
<1>1. m \in Nat /\ m > 0 BY DEF Positive
<1>2. (b - a) % m = 0
  <2> DEFINE j == a \div m
             k == b \div m
  <2>1. a = j * m /\ b = k * m /\ j \in Nat /\ k \in Nat BY <1>1
  <2> HIDE DEF j, k
  <2>2. j <= k BY <1>1, <2>1
  <2>3. k - j \in Nat /\ b - a = (k - j) * m BY <1>1, <2>1, <2>2
  <2> QED BY <2>3, Multiple
<1>3. b - a \in Nat /\ b - a < m BY <1>1
<1> QED BY <1>1, <1>2, <1>3, LessOneLot

\* An order that still covers the need with a smaller last line ranks before
\* it: the smaller line is as effective and cheaper.
LEMMA LessIsBetter ==
  ASSUME case \in Case, TargetNeed > 0, NEW lots \in [Ids -> Nat], Allowed(lots),
         NEW last \in Ids, \A d \in Ids : d > last => lots[d] = 0,
         NEW r \in Nat, r < lots[last], r % case.suppliers[last].moq = 0,
         Sum(lots) - lots[last] + r >= TargetNeed
  PROVE  \E less \in [Ids -> Nat] : Allowed(less) /\ Before(PlanFor(less), PlanFor(lots))
<1> DEFINE base == [lots EXCEPT ![last] = 0]
           less == [lots EXCEPT ![last] = r]
           s == PlanFor(base)
           q == lots[last]
           t == case.suppliers[last]
<1>1. base \in [Ids -> Nat] /\ less \in [Ids -> Nat] /\ q \in Nat /\ base[last] = 0 OBVIOUS
<1>2. EmptyFrom(base, last) BY IdsAreInterval DEF EmptyFrom
<1>3. PlanFor(less) = Extend(s, last, r)
  <2>1. less = [base EXCEPT ![last] = r] OBVIOUS
  <2> HIDE DEF base, less
  <2> QED BY <1>1, <1>2, <2>1, PutExtends
<1>4. PlanFor(lots) = Extend(s, last, q)
  <2>1. lots = [base EXCEPT ![last] = q] OBVIOUS
  <2>2. PlanFor([base EXCEPT ![last] = q]) = Extend(s, last, q)
    <3> HIDE DEF base, q
    <3> QED BY <1>1, <1>2, PutExtends
  <2> QED BY <2>1, <2>2
<1>5. s \in PartialPlan
  <2> HIDE DEF base
  <2> QED BY <1>1, PlanForType
<1>6. s.quantity \in Nat /\ s.reliability \in Nat /\ s.cost \in Nat
  BY <1>5 DEF PartialPlan, PartialPlanOf
<1>7. /\ t.cost \in Nat /\ t.cost > 0 /\ t.supply \in Supply BY TermsType
<1>8. TargetNeed \in Nat BY NeedType
<1>9. r < q /\ \A k \in Ids : less[k] = IF k = last THEN r ELSE lots[k] OBVIOUS
<1>10. /\ PlanFor(less).quantity = s.quantity + r /\ PlanFor(lots).quantity = s.quantity + q
       /\ PlanFor(less).cost = s.cost + r * t.cost /\ PlanFor(lots).cost = s.cost + q * t.cost
       /\ PlanFor(less).reliability = s.reliability + Effective(s, r) * t.reliability
       /\ PlanFor(lots).reliability = s.reliability + Effective(s, q) * t.reliability
  <2> HIDE DEF base, less, s, q
  <2> QED BY <1>3, <1>4 DEF Extend
<1>11. PlanFor(less).quantity = Sum(less) /\ PlanFor(lots).quantity = Sum(lots)
  BY PlanForFields
<1>12. /\ InSupply(q, t.supply)
       /\ PlanFor(lots).cost <= case.inputs.budget
       /\ Sum(lots) * case.inputs.unitVolume <= case.inputs.storage
  BY DEF Allowed
<1>13. /\ \A k \in Ids : /\ lots[k] > 0 => k \in Eligible
                         /\ lots[k] % case.suppliers[k].moq = 0
                         /\ InSupply(lots[k], case.suppliers[k].supply)
  BY DEF Allowed
<1>14. r % t.moq = 0 /\ Sum(lots) - q + r >= TargetNeed OBVIOUS
<1>15. last \in Eligible BY <1>1, <1>9, <1>13
<1> HIDE DEF base, less, s, q, t
<1>16. s.quantity + r >= TargetNeed BY <1>1, <1>6, <1>10, <1>11, <1>14
<1>17. Effective(s, r) = Effective(s, q)
  BY <1>1, <1>6, <1>8, <1>9, <1>16 DEF Effective, Smaller, AtLeastZero
<1>18. r * t.cost < q * t.cost /\ r * t.cost \in Nat /\ q * t.cost \in Nat
  BY <1>1, <1>7, <1>9
<1>19. PlanFor(less).cost < PlanFor(lots).cost BY <1>6, <1>10, <1>18
<1>20. Covered(PlanFor(less)) = TargetNeed /\ Covered(PlanFor(lots)) = TargetNeed
  <2>1. Smaller(s.quantity + r, TargetNeed) = TargetNeed
        /\ Smaller(s.quantity + q, TargetNeed) = TargetNeed
    BY <1>1, <1>6, <1>8, <1>9, <1>16 DEF Smaller
  <2> QED BY <1>10, <2>1 DEF Covered
<1>21. Before(PlanFor(less), PlanFor(lots))
  BY <1>10, <1>17, <1>19, <1>20 DEF Before
<1>22. Sum(less) <= Sum(lots) /\ Sum(less) > 0 /\ Sum(less) \in Nat /\ Sum(lots) \in Nat
  BY <1>1, <1>6, <1>8, <1>9, <1>10, <1>11, <1>16
<1>23. Sum(less) * case.inputs.unitVolume <= case.inputs.storage
  <2>1. case.inputs.unitVolume \in Nat /\ case.inputs.storage \in Nat
    BY DEF Case, Inputs, Positive
  <2>2. Sum(less) * case.inputs.unitVolume <= Sum(lots) * case.inputs.unitVolume
        /\ Sum(less) * case.inputs.unitVolume \in Nat
        /\ Sum(lots) * case.inputs.unitVolume \in Nat
    BY <1>22, <2>1
  <2> QED BY <1>12, <2>1, <2>2
<1>24. PlanFor(less).cost <= case.inputs.budget
  <2>1. case.inputs.budget \in Nat BY DEF Case, Inputs
  <2>2. PlanFor(less).cost \in Nat /\ PlanFor(lots).cost \in Nat BY <1>6, <1>10, <1>18
  <2> QED BY <1>12, <1>19, <2>1, <2>2
<1>25. ASSUME NEW k \in Ids
       PROVE  /\ less[k] > 0 => k \in Eligible
              /\ less[k] % case.suppliers[k].moq = 0
              /\ InSupply(less[k], case.suppliers[k].supply)
  <2>1. CASE k = last
    <3>1. InSupply(r, t.supply) BY <1>1, <1>7, <1>9, <1>12 DEF InSupply, Supply
    <3> QED BY <1>9, <1>14, <1>15, <2>1, <3>1 DEF t
  <2>2. CASE k # last BY <1>9, <1>13, <2>2
  <2> QED BY <2>1, <2>2
<1>26. Allowed(less) BY <1>22, <1>23, <1>24, <1>25 DEF Allowed
<1> QED BY <1>1, <1>21, <1>26

\* A plan's last line alone rounds beyond the need: without it, or with one
\* minimum order less of it, a plan that already covers the need would rank
\* before the chosen one.
THEOREM FinalLineRounds == Spec => []OnlyFinalLineRounds
<1>1. BestInv => OnlyFinalLineRounds
  <2> SUFFICES ASSUME BestInv, plan # NoPlan
               PROVE  \E last \in Lines(plan) :
                        /\ \A c \in Lines(plan) : c <= last
                        /\ plan.quantity - plan.lots[last] < TargetNeed
                        /\ plan.quantity < TargetNeed + case.suppliers[last].moq
    BY DEF OnlyFinalLineRounds
  <2> DEFINE lots == plan.lots
  <2>1. /\ case \in Case /\ TargetNeed \in Nat /\ TargetNeed > 0
        /\ lots \in [Ids -> Nat] /\ plan = PlanFor(lots) /\ plan.quantity = Sum(lots)
        /\ Allowed(lots) /\ NoneBefore(plan)
    BY ChosenPlan
  <2>2. Ids = 1..Last /\ Last \in Nat BY <2>1, IdsAreInterval
  <2>3. Lines(plan) = {c \in Ids : lots[c] > 0} BY <2>1 DEF Lines
  <2> HIDE DEF lots
  <2>4. Lines(plan) # {}
    <3>1. SUFFICES ASSUME Lines(plan) = {} PROVE FALSE OBVIOUS
    <3>2. \A c \in 1..Last : lots[c] = 0
      <4> SUFFICES ASSUME NEW c \in 1..Last PROVE lots[c] = 0 OBVIOUS
      <4>1. lots[c] \in Nat /\ ~(lots[c] > 0) BY <2>1, <2>2, <2>3, <3>1
      <4> QED BY <4>1
    <3>3. Sum(lots) = 0 BY <2>2, <3>2, SumZero DEF Sum, Last
    <3> QED BY <2>1, <3>3 DEF Allowed
  <2>5. PICK last \in Lines(plan) : \A c \in Lines(plan) : c <= last
    <3>1. Lines(plan) \in SUBSET (0..Last) BY <2>2, <2>3
    <3> QED BY <2>2, <2>4, <3>1, LargestExists
  <2> DEFINE q == lots[last]
             m == case.suppliers[last].moq
  <2>6. last \in Ids /\ last \in Nat /\ q \in Nat /\ q > 0 BY <2>1, <2>2, <2>3
  <2>7. \A d \in Ids : d > last => lots[d] = 0
    <3> SUFFICES ASSUME NEW d \in Ids, d > last PROVE lots[d] = 0 OBVIOUS
    <3>1. lots[d] \in Nat /\ d \in Nat BY <2>1, <2>2
    <3>2. d \notin Lines(plan) BY <2>5, <2>6, <3>1
    <3> QED BY <2>3, <3>1, <3>2
  <2>8. m \in Nat /\ m > 0 /\ q % m = 0 BY <2>1, <2>6, TermsType DEF Allowed
  <2>9. Sum(lots) \in Nat
    <3>1. plan \in PartialPlan BY ChosenPlan
    <3> QED BY <2>1, <3>1 DEF PartialPlan, PartialPlanOf
  <2>10. ASSUME NEW r \in Nat, r < q, r % m = 0, Sum(lots) - q + r >= TargetNeed PROVE FALSE
    <3>1. PICK less \in [Ids -> Nat] : Allowed(less) /\ Before(PlanFor(less), PlanFor(lots))
      BY <2>1, <2>6, <2>7, <2>10, LessIsBetter
    <3> QED BY <2>1, <3>1 DEF NoneBefore
  <2> HIDE DEF q, m
  <2>11. Sum(lots) - q < TargetNeed
    <3>1. 0 % m = 0 BY <2>8
    <3>2. ~(Sum(lots) - q + 0 >= TargetNeed) BY <2>6, <2>10, <3>1
    <3> QED BY <2>1, <2>6, <2>9, <3>2
  <2>12. Sum(lots) < TargetNeed + m
    <3>1. q >= m /\ (q - m) % m = 0 /\ q - m \in Nat
      <4>1. m \in Positive BY <2>8 DEF Positive
      <4>2. q >= m /\ (q - m) % m = 0 BY <2>6, <2>8, <4>1, LessOneLot
      <4> QED BY <2>6, <2>8, <4>2
    <3>2. ~(Sum(lots) - q + (q - m) >= TargetNeed) BY <2>6, <2>8, <2>10, <3>1
    <3> QED BY <2>1, <2>6, <2>8, <2>9, <3>2
  <2> QED BY <2>1, <2>5, <2>11, <2>12 DEF q, m, lots
<1> QED BY <1>1, BestAlways, PTL

\* In a recommendation review whose preferred supplier's terms are still those
\* of the evidence, that supplier alone is asked, and it can deliver what the
\* policy decided.
LEMMA PolicyOrderIsAllowed ==
  ASSUME case \in Case, Buys, ~Alternates, PreferredIsUnchanged
  PROVE  /\ Eligible = {case.preferred}
         /\ TargetNeed = Feasible(case.inputs)
         /\ TargetNeed % case.suppliers[case.preferred].moq = 0
         /\ Allowed([[c \in Ids |-> 0] EXCEPT ![case.preferred] = TargetNeed])
<1> DEFINE i == case.inputs
           pref == case.preferred
           p == case.suppliers[pref]
           none == [c \in Ids |-> 0]
           put == [none EXCEPT ![pref] = TargetNeed]
<1>1. TargetNeed = Feasible(i) BY DEF TargetNeed
<1>2. i \in Inputs BY DEF Case
<1>3. TargetNeed \in Nat /\ TargetNeed > 0 BY TargetIsPositive
<1>4. /\ pref \in Ids /\ p.active /\ p.fresh /\ p.sameCurrency
      /\ p.cost = i.unitCost /\ p.moq = i.moq /\ p.supply = i.supply
  BY DEF PreferredIsUnchanged
<1>5. /\ p.cost \in Nat /\ p.moq \in Nat /\ p.moq > 0 /\ p.supply \in Supply
  BY <1>4, TermsType
<1>6. ConstraintsPass(i) BY <1>2, ConstraintsHold
<1>7. /\ TargetNeed >= p.moq /\ TargetNeed % p.moq = 0
      /\ TargetNeed * p.cost <= i.budget
      /\ TargetNeed <= i.storage \div i.unitVolume
      /\ InSupply(TargetNeed, p.supply)
  BY <1>1, <1>3, <1>4, <1>6 DEF ConstraintsPass
<1>8. i.budget \in Nat /\ i.storage \in Nat /\ i.unitVolume \in Positive BY <1>2 DEF Inputs
<1>9. TargetNeed * i.unitVolume <= i.storage BY <1>3, <1>7, <1>8, QuotientBounds
<1>10. p.supply = Unlimited \/ p.supply >= TargetNeed BY <1>7 DEF InSupply
<1>11. PreferredAlone BY <1>4, <1>7, <1>10 DEF PreferredAlone
<1>12. Eligible \subseteq {pref} BY <1>11 DEF Eligible, Candidates
<1>13. pref \in Eligible
  <2>1. p.supply = Unlimited \/ p.supply >= p.moq
    BY <1>3, <1>5, <1>7, <1>10, UnlimitedAssumption DEF Supply
  <2>2. p.moq * p.cost <= i.budget
    <3>1. \A a, b, k \in Nat : a <= b => a * k <= b * k /\ a * k \in Nat /\ b * k \in Nat
      OBVIOUS
    <3> HIDE DEF p, i
    <3>2. /\ p.moq * p.cost <= TargetNeed * p.cost /\ p.moq * p.cost \in Nat
          /\ TargetNeed * p.cost \in Nat
      BY <1>3, <1>5, <1>7, <3>1
    <3> QED BY <1>7, <1>8, <3>2
  <2>3. p.moq <= i.storage \div i.unitVolume
    <3>1. i.storage \div i.unitVolume \in Nat BY <1>8, Quotient
    <3> QED BY <1>3, <1>5, <1>7, <3>1
  <2>4. pref \in Candidates BY <1>11 DEF Candidates
  <2> QED BY <1>4, <2>1, <2>2, <2>3, <2>4 DEF Eligible
<1>14. Eligible = {pref} BY <1>12, <1>13
<1>15. none \in [Ids -> Nat] /\ none[pref] = 0 /\ put \in [Ids -> Nat] BY <1>3, <1>4
<1>16. EmptyFrom(none, pref) BY DEF EmptyFrom
<1>17. PlanFor(put) = Extend(EmptyPlan, pref, TargetNeed)
  <2>1. PlanFor(none) = EmptyPlan BY PlanForNothing
  <2> HIDE DEF none, pref
  <2> QED BY <1>3, <1>4, <1>15, <1>16, <2>1, PutExtends
<1>18. PlanFor(put).quantity = TargetNeed /\ PlanFor(put).cost = TargetNeed * p.cost
  <2>1. /\ PlanFor(put).quantity = 0 + TargetNeed
        /\ PlanFor(put).cost = 0 + TargetNeed * p.cost
    BY <1>17 DEF Extend, EmptyPlan
  <2> QED BY <1>3, <1>5, <2>1
<1>19. Sum(put) = TargetNeed
  <2>1. PlanFor(put).quantity = Sum(put) BY PlanForFields
  <2> QED BY <1>18, <2>1
<1>20. ASSUME NEW c \in Ids
       PROVE  /\ put[c] > 0 => c \in Eligible
              /\ put[c] % case.suppliers[c].moq = 0
              /\ InSupply(put[c], case.suppliers[c].supply)
  <2>1. CASE c = pref
    <3>1. put[c] = TargetNeed BY <1>4, <2>1
    <3> QED BY <1>7, <1>13, <2>1, <3>1
  <2>2. CASE c # pref
    <3>1. put[c] = 0 BY <2>2
    <3>2. case.suppliers[c].moq \in Nat \ {0} /\ case.suppliers[c].supply \in Supply
      BY TermsType
    <3>3. 0 % case.suppliers[c].moq = 0 BY <3>2
    <3> HIDE DEF put
    <3> QED BY <3>1, <3>2, <3>3 DEF InSupply, Supply
  <2> QED BY <2>1, <2>2
<1> HIDE DEF i, p, put
<1>21. Allowed(put)
  BY <1>3, <1>7, <1>9, <1>18, <1>19, <1>20 DEF Allowed, i
<1> QED BY <1>1, <1>7, <1>14, <1>21 DEF i, p, put

\* A plan with lines of one supplier only.
LEMMA OneLinePlan ==
  ASSUME case \in Case, NEW lots \in [Ids -> Nat], NEW c \in Ids,
         \A d \in Ids : d # c => lots[d] = 0
  PROVE  /\ PlanFor(lots).quantity = lots[c]
         /\ PlanFor(lots).cost = lots[c] * case.suppliers[c].cost
<1> DEFINE none == [d \in Ids |-> 0]
<1>1. lots = [none EXCEPT ![c] = lots[c]] OBVIOUS
<1>2. none \in [Ids -> Nat] /\ EmptyFrom(none, c) /\ lots[c] \in Nat BY DEF EmptyFrom
<1>3. PlanFor(none) = EmptyPlan BY PlanForNothing
<1>4. PlanFor([none EXCEPT ![c] = lots[c]]) = Extend(EmptyPlan, c, lots[c])
  <2> HIDE DEF none
  <2> QED BY <1>2, <1>3, PutExtends
<1>5. PlanFor(lots) = Extend(EmptyPlan, c, lots[c]) BY <1>1, <1>4
<1>6. /\ PlanFor(lots).quantity = 0 + lots[c]
      /\ PlanFor(lots).cost = 0 + lots[c] * case.suppliers[c].cost
  BY <1>5 DEF Extend, EmptyPlan
<1>7. lots[c] * case.suppliers[c].cost \in Nat BY <1>2, TermsType
<1> QED BY <1>2, <1>6, <1>7

\* In a recommendation review the plan asks for what the policy decided, at
\* its price, when the preferred supplier's terms are still those of the
\* evidence: the limits of the policy leave the order it proposes, and the plan
\* is the best within them.
THEOREM PlanAgrees == Spec => []PlanAgreesWithPolicy
<1>1. BestInv /\ OnlyFinalLineRounds => PlanAgreesWithPolicy
  <2> DEFINE d == Decide(case.inputs)
             pref == case.preferred
             m == case.suppliers[pref].moq
             order == [[c \in Ids |-> 0] EXCEPT ![pref] = TargetNeed]
  <2> SUFFICES ASSUME BestInv, OnlyFinalLineRounds, stage = "done", ~Alternates, ~gaveUp,
                      Buys, PreferredIsUnchanged
               PROVE  /\ status = "AWAITING_APPROVAL"
                      /\ final = [quantity |-> d.quantity, cost |-> d.cost]
                      /\ Lines(plan) = {pref}
    BY DEF PlanAgreesWithPolicy, Buys
  <2>1. case \in Case BY DEF BestInv, LimitsInv, TypeOK
  <2>2. /\ Eligible = {pref} /\ TargetNeed = Feasible(case.inputs) /\ TargetNeed % m = 0
        /\ Allowed(order)
    BY <2>1, PolicyOrderIsAllowed
  <2>3. pref \in Ids /\ case.suppliers[pref].cost = case.inputs.unitCost
    BY DEF PreferredIsUnchanged
  <2>4. TargetNeed \in Nat /\ TargetNeed > 0 BY <2>1, TargetIsPositive
  <2>5. order \in [Ids -> Nat] /\ order[pref] = TargetNeed
        /\ \A c \in Ids : c # pref => order[c] = 0
    BY <2>3, <2>4
  <2> HIDE DEF order, pref, m, d
  <2>6. plan # NoPlan
    BY <2>2, <2>5 DEF BestInv, OutcomeIsBest, NothingAllowed
  <2> DEFINE lots == plan.lots
  <2>7. /\ plan \in PartialPlan /\ lots \in [Ids -> Nat] /\ plan = PlanFor(lots)
        /\ Allowed(lots) /\ NoneBefore(plan)
    BY <2>6, ChosenPlan
  <2>8. \A c \in Ids : c # pref => lots[c] = 0
    <3> SUFFICES ASSUME NEW c \in Ids, c # pref PROVE lots[c] = 0 OBVIOUS
    <3>1. ~(lots[c] > 0) /\ lots[c] \in Nat BY <2>2, <2>7 DEF Allowed
    <3> QED BY <3>1
  <2>9. plan.quantity = lots[pref] /\ plan.cost = lots[pref] * case.suppliers[pref].cost
        /\ lots[pref] \in Nat
    <3> HIDE DEF lots
    <3> QED BY <2>1, <2>3, <2>7, <2>8, OneLinePlan
  <2>10. Lines(plan) \subseteq {pref} BY <2>7, <2>8 DEF Lines
  <2>11. PICK last \in Lines(plan) : plan.quantity < TargetNeed + case.suppliers[last].moq
    BY <2>6 DEF OnlyFinalLineRounds
  <2>12. last = pref /\ Lines(plan) = {pref} BY <2>10, <2>11
  <2>13. lots[pref] < TargetNeed + m BY <2>9, <2>11, <2>12 DEF m
  <2>14. lots[pref] >= TargetNeed
    <3>1. PlanFor(order).quantity = TargetNeed BY <2>1, <2>3, <2>5, OneLinePlan
    <3>2. Covered(PlanFor(order)) = TargetNeed BY <2>4, <3>1 DEF Covered, Smaller
    <3>3. ~(Covered(PlanFor(order)) > Covered(plan))
      BY <2>2, <2>5, <2>7 DEF NoneBefore, Before
    <3>4. ~(TargetNeed > Smaller(lots[pref], TargetNeed))
      BY <2>9, <3>2, <3>3 DEF Covered
    <3> QED BY <2>4, <2>9, <3>4 DEF Smaller
  <2>15. lots[pref] = TargetNeed
    <3>1. m \in Positive BY <2>1, <2>3, TermsType DEF m, Positive
    <3>2. lots[pref] % m = 0 BY <2>3, <2>7 DEF Allowed, m
    <3> QED BY <2>2, <2>4, <2>9, <2>13, <2>14, <3>1, <3>2, SameLots
  <2>16. Covered(plan) = TargetNeed BY <2>4, <2>9, <2>15 DEF Covered, Smaller
  <2>17. Complete BY <2>4, <2>6, <2>16 DEF Complete
  <2>18. status = "AWAITING_APPROVAL" /\ final = FinalQuote
    BY <2>17 DEF BestInv, OutcomeIsSaved
  <2>19. final = [quantity |-> TargetNeed, cost |-> TargetNeed * case.inputs.unitCost]
    BY <2>3, <2>9, <2>15, <2>16, <2>17, <2>18 DEF FinalQuote
  <2>20. ~Deficient(case.inputs) BY DEF Buys, Decide, DecisionType
  <2>21. d.quantity = TargetNeed /\ d.cost = TargetNeed * case.inputs.unitCost
    BY <2>2, <2>20 DEF d, Decide
  <2> QED BY <2>12, <2>18, <2>19, <2>21
<1> QED BY <1>1, BestAlways, FinalLineRounds, PTL
=============================================================================
