------------------------ MODULE ReviewIntake_proofs ------------------------
(***************************************************************************)
(* Proofs about ReviewIntake and DemandSpike, however requests overlap.    *)
(***************************************************************************)
EXTENDS ReviewIntake, NaturalFacts, TLAPS

\* A request in flight was made for a recommendation that exists, and adopts
\* a review that is there.
CallsNameRows ==
  \A c \in Creators : creator[c] # NoCall =>
    /\ creator[c].rec \in recommendations
    /\ creator[c].step = "adopt" =>
         /\ creator[c].review \in DOMAIN reviews
         /\ creator[c].key \in BuyerKeys
         /\ reviews[creator[c].review].key \in BuyerKeys \cup {NoKey}

\* The key of a signal is only on reviews of its recommendation.
SignalKeysStay ==
  \A i \in DOMAIN reviews, e \in Events :
    reviews[i].key = SignalKey(e) => reviews[i].rec = e

\* The invariant that holds however requests overlap.
IInv == TypeOK /\ CallsNameRows /\ SignalKeysStay /\ EventLeadsToOneReview

-----------------------------------------------------------------------------
(***************************************************************************)
(* Demand                                                                  *)
(***************************************************************************)
\* A rounded quotient reaches a whole bound exactly when the quotient does.
LEMMA QuotientReaches ==
  ASSUME NEW x \in Nat, NEW d \in Nat \ {0}, NEW t \in Nat
  PROVE  x \div d >= t <=> x >= t * d
<1> DEFINE q == x \div d
           r == x % d
<1>1. q \in Nat /\ r \in Nat /\ x = d * q + r /\ r < d
  OBVIOUS
<1> HIDE DEF q, r
<1>2. ASSUME q >= t PROVE x >= t * d
  BY <1>1, <1>2
<1>3. ASSUME q < t PROVE x < t * d
  <2>1. q + 1 <= t
    BY <1>1, <1>3
  <2>2. (q + 1) * d <= t * d
    BY <1>1, <2>1
  <2>3. (q + 1) * d = d * q + d
    BY <1>1
  <2> QED
    BY <1>1, <2>2, <2>3
<1>4. x >= t * d => ~(x < t * d)
  OBVIOUS
<1> QED
  BY <1>1, <1>2, <1>3, <1>4 DEF q

LEMMA ProductIsNat ==
  ASSUME NEW a \in Nat, NEW b \in Nat
  PROVE  a * b \in Nat /\ (a > 0 /\ b > 0 => a * b > 0)
  OBVIOUS

\* Every observation is judged exactly, whatever the facts.
LEMMA Exact ==
  ASSUME NEW b \in Observation, NEW f \in DemandFacts
  PROVE  ExactFor(b, f)
<1>1. /\ b.units \in Nat /\ b.hours \in Nat /\ b.hours > 0
      /\ f.baseline \in Nat /\ f.baselineHours \in Nat /\ f.threshold \in Nat
      /\ f.revised \in Nat /\ f.safety \in Nat /\ f.incoming \in Nat
      /\ f.onHand \in Nat /\ f.unusable \in Nat /\ f.fresh \in BOOLEAN
  BY DEF Observation, DemandFacts
<1>2. ASSUME f.baseline > 0
      PROVE  Ratio(b, f) >= f.threshold <=> RateReached(b, f)
  <2> DEFINE x == b.units * f.baselineHours * 10000
             d == f.baseline * b.hours
  <2>1. x \in Nat
    BY <1>1, ProductIsNat
  <2>2. d \in Nat \ {0}
    BY <1>1, <1>2, ProductIsNat
  <2> HIDE DEF x, d
  <2>3. x \div d >= f.threshold <=> x >= f.threshold * d
    BY <1>1, <2>1, <2>2, QuotientReaches
  <2> QED
    BY <2>3 DEF x, d, Ratio, RateReached
<1>3. SpikeDetected(b, f) <=>
        f.fresh /\ b.units > 0 /\ f.baseline > 0 /\ RateReached(b, f)
  BY <1>1, <1>2 DEF SpikeDetected, ToInvestigate, HasVelocity
<1>4. FillsGap(SupplementalNeed(f), f)
  BY <1>1 DEF FillsGap, SupplementalNeed, NotNegative, Position, Target
<1>5. Verdict(b, f) = "SPIKE" <=> SpikeDetected(b, f)
  BY DEF Verdict, SpikeDetected
<1> QED
  BY <1>3, <1>4, <1>5 DEF ExactFor, RecommendedQuantity

\* In every state, each event is judged exactly.
THEOREM QualificationExact == Spec => []QualificationIsExact
<1> USE IntakeAssumption
<1>1. ASSUME facts \in AllFacts PROVE QualificationIsExact
  BY <1>1, Exact DEF QualificationIsExact
<1>2. Init => facts \in AllFacts
  BY DEF Init
<1>3. facts \in AllFacts /\ [Next]_vars => (facts \in AllFacts)'
  BY DEF Next, vars, rows, Replay, RequestReview, FindNone, FindActive, AdoptKey,
         InsertReview, ReceiveSignal, FindSales, WriteSignal, Evaluate,
         RecordSignal, StartReview, CloseReview, FactsChange, Crash, RollBack
<1> QED
  BY <1>1, <1>2, <1>3, PTL DEF Spec

-----------------------------------------------------------------------------
(***************************************************************************)
(* Rows                                                                    *)
(***************************************************************************)
\* A row more at the end.
LEMMA Appended ==
  ASSUME NEW s \in Seq(Review), NEW x \in Review
  PROVE  LET t == Append(s, x) IN
         /\ t \in Seq(Review) /\ Len(t) = Len(s) + 1
         /\ DOMAIN t = DOMAIN s \cup {Len(s) + 1}
         /\ Len(s) + 1 \notin DOMAIN s
         /\ \A i \in DOMAIN s : t[i] = s[i]
         /\ t[Len(s) + 1] = x
  OBVIOUS

\* Another row in its place.
LEMMA Replaced ==
  ASSUME NEW s \in Seq(Review), NEW i \in DOMAIN s, NEW x \in Review
  PROVE  LET t == [s EXCEPT ![i] = x] IN
         /\ t \in Seq(Review) /\ Len(t) = Len(s) /\ DOMAIN t = DOMAIN s
         /\ \A j \in DOMAIN s \ {i} : t[j] = s[j]
         /\ t[i] = x
  OBVIOUS

\* What a step does to the reviews: a new one for rec, ...
Adds(rec, key, since) ==
  /\ reviews' \in Seq(Review) /\ Len(reviews') = Len(reviews) + 1
  /\ Len(reviews) < MaxReviews
  /\ DOMAIN reviews' = DOMAIN reviews \cup {Len(reviews) + 1}
  /\ \A i \in DOMAIN reviews : reviews'[i] = reviews[i]
  /\ reviews'[Len(reviews) + 1]
       = [rec |-> rec, key |-> key, status |-> "CREATED", since |-> since]
  /\ scheduled' = scheduled \cup {Len(reviews) + 1}

\* ... or another key or status of one that is there.
Changes(i, key, status) ==
  /\ i \in DOMAIN reviews
  /\ reviews' \in Seq(Review) /\ Len(reviews') = Len(reviews)
  /\ DOMAIN reviews' = DOMAIN reviews
  /\ \A j \in DOMAIN reviews \ {i} : reviews'[j] = reviews[j]
  /\ reviews'[i].rec = reviews[i].rec /\ reviews'[i].since = reviews[i].since
  /\ reviews'[i].key = key /\ reviews'[i].status = status
  /\ scheduled' \subseteq scheduled

Keeps == UNCHANGED <<reviews, scheduled>>

LEMMA AddsReview ==
  ASSUME TypeOK, NEW rec \in Recommendations, NEW key \in Keys,
         NEW since \in 0 .. MaxReviews, Len(reviews) < MaxReviews,
         reviews' = Append(reviews, NewReview(rec, key, since)),
         Launch(Len(reviews) + 1)
  PROVE  Adds(rec, key, since)
<1>1. NewReview(rec, key, since) \in Review /\ reviews \in Seq(Review)
  BY DEF NewReview, Review, TypeOK
<1> QED
  BY <1>1, Appended DEF Adds, NewReview, Launch

LEMMA ChangesStatus ==
  ASSUME TypeOK, NEW i \in DOMAIN reviews, NEW status \in {"ACTIVE", "CLOSED"},
         SetStatus(i, status), scheduled' \subseteq scheduled
  PROVE  Changes(i, reviews[i].key, status)
<1> DEFINE x == [reviews[i] EXCEPT !.status = status]
<1>1. reviews \in Seq(Review) /\ reviews[i] \in Review
  BY DEF TypeOK
<1>2. /\ x \in Review /\ x.rec = reviews[i].rec /\ x.since = reviews[i].since
      /\ x.key = reviews[i].key /\ x.status = status
  BY <1>1 DEF Review
<1>3. reviews' = [reviews EXCEPT ![i] = x]
  BY DEF SetStatus
<1> HIDE DEF x
<1> QED
  BY <1>1, <1>2, <1>3, Replaced DEF Changes

LEMMA ChangesKey ==
  ASSUME TypeOK, NEW i \in DOMAIN reviews, NEW key \in Keys,
         reviews' = [reviews EXCEPT ![i] = [@ EXCEPT !.key = key]],
         UNCHANGED scheduled
  PROVE  Changes(i, key, reviews[i].status)
<1> DEFINE x == [reviews[i] EXCEPT !.key = key]
<1>1. reviews \in Seq(Review) /\ reviews[i] \in Review
  BY DEF TypeOK
<1>2. /\ x \in Review /\ x.rec = reviews[i].rec /\ x.since = reviews[i].since
      /\ x.key = key /\ x.status = reviews[i].status
  BY <1>1 DEF Review
<1>3. reviews' = [reviews EXCEPT ![i] = x]
  OBVIOUS
<1> HIDE DEF x
<1> QED
  BY <1>1, <1>2, <1>3, Replaced DEF Changes

(***************************************************************************)
(* What a step can do to the rows.                                         *)
(***************************************************************************)
\* A buyer's review of a recommendation that exists.
BuyerInserts ==
  \E c \in Creators :
    /\ creator[c] # NoCall /\ creator[c].step = "insert" /\ creator'[c] = NoCall
    /\ creator[c].key # NoKey => ~HasKey(creator[c].key)
    /\ Adds(creator[c].rec, creator[c].key, creator[c].since)
    /\ answers' = Answered(creator[c].key, Len(reviews) + 1)
    /\ UNCHANGED <<recommendations, signals, overwritten, stranded>>

\* A review takes a buyer's key.
BuyerAdopts ==
  \E c \in Creators :
    /\ creator[c] # NoCall /\ creator[c].step = "adopt" /\ creator'[c] = NoCall
    /\ \A j \in DOMAIN reviews \ {creator[c].review} : reviews[j].key # creator[c].key
    /\ Changes(creator[c].review, creator[c].key, reviews[creator[c].review].status)
    /\ answers' = Answered(creator[c].key, creator[c].review)
    /\ overwritten \subseteq overwritten'
    /\ overwritten' \subseteq overwritten \cup {creator[c].review}
    /\ creator[c].review \notin overwritten' =>
         reviews[creator[c].review].key \in {creator[c].key, creator[c].seen}
    /\ UNCHANGED <<recommendations, signals, scheduled, stranded>>

\* A signal makes its recommendation and review.
SignalInserts ==
  \E e \in Events :
    /\ ~ReferenceTaken(e)
    /\ Adds(e, SignalKey(e), Len(reviews))
    /\ signals' = signals \cup {e}
    /\ recommendations' = recommendations \cup {e}
    /\ UNCHANGED <<answers, overwritten, stranded>>

\* The workflow starts a review or closes it.
WorkflowMoves ==
  \E i \in DOMAIN reviews :
    /\ \/ /\ Changes(i, reviews[i].key, "ACTIVE")
          /\ i \in scheduled /\ scheduled' = scheduled \ {i}
       \/ /\ Changes(i, reviews[i].key, "CLOSED")
          /\ reviews[i].status = "ACTIVE" /\ UNCHANGED scheduled
    /\ UNCHANGED <<recommendations, signals, answers, overwritten, stranded>>

\* No review changes; at most a signal is recorded or a task is lost.
NoReviewMoves ==
  /\ UNCHANGED <<recommendations, reviews, overwritten>>
  /\ \/ UNCHANGED <<scheduled, stranded>>
     \/ scheduled' = {} /\ stranded' = stranded \cup scheduled
  /\ signals \subseteq signals' /\ signals' \subseteq Events
  /\ \/ answers' = answers
     \/ \E i \in DOMAIN reviews :
          /\ reviews[i].key \in BuyerKeys
          /\ answers' = answers \cup {<<reviews[i].key, i>>}

\* What a signal saves.
LEMMA SaveEffect ==
  ASSUME TypeOK, NEW e \in Events, NEW verdict, CanSave(e, verdict),
         Save(e, verdict), Len(reviews) < MaxReviews,
         UNCHANGED <<answers, overwritten, stranded>>
  PROVE  SignalInserts \/ NoReviewMoves
<1>1. CASE verdict = "NO_SPIKE"
  BY <1>1 DEF Save, NoReviewMoves, TypeOK
<1>2. CASE verdict # "NO_SPIKE"
  <2>1. /\ SignalKey(e) \in Keys /\ e \in Recommendations
        /\ Len(reviews) \in 0 .. MaxReviews
    BY DEF Keys, Recommendations, TypeOK
  <2>2. Adds(e, SignalKey(e), Len(reviews))
    BY <1>2, <2>1, AddsReview DEF Save
  <2> QED
    BY <1>2, <2>2 DEF Save, CanSave, SignalInserts
<1> QED
  BY <1>1, <1>2

\* Every step has one of five effects.
LEMMA RowSteps ==
  ASSUME TypeOK, CallsNameRows, Next
  PROVE  BuyerInserts \/ BuyerAdopts \/ SignalInserts \/ WorkflowMoves \/ NoReviewMoves
<1> USE IntakeAssumption
<1>0. signals \subseteq Events /\ BuyerKeys \cup {NoKey} \subseteq Keys
  BY DEF TypeOK, Keys
<1>1. ASSUME NEW rec \in Recommendations, NEW key \in BuyerKeys, Replay(rec, key)
      PROVE  NoReviewMoves
  BY <1>0, <1>1 DEF Replay, NoReviewMoves, Answered, rows
<1>2. ASSUME NEW c \in Creators, NEW rec \in Recommendations,
             NEW key \in BuyerKeys \cup {NoKey}, RequestReview(c, rec, key)
      PROVE  NoReviewMoves
  BY <1>0, <1>2 DEF RequestReview, NoReviewMoves, rows
<1>3. ASSUME NEW c \in Creators, FindNone(c) PROVE NoReviewMoves
  BY <1>0, <1>3 DEF FindNone, NoReviewMoves, rows
<1>4. ASSUME NEW c \in Creators, FindActive(c) PROVE NoReviewMoves
  <2>1. UNCHANGED <<recommendations, reviews, signals, scheduled, overwritten, stranded>>
    BY <1>4 DEF FindActive, rows
  <2>2. creator[c].key \in BuyerKeys \cup {NoKey}
    BY <1>4 DEF FindActive, TypeOK, CreateCalls
  <2>3. PICK i \in ActiveReviews(creator[c].rec) :
          \/ answers' = answers
          \/ /\ ~Adoptable(i, creator[c].key) /\ ~Refused(i, creator[c].key)
             /\ answers' = Answered(creator[c].key, i)
    BY <1>4 DEF FindActive
  <2>4. i \in DOMAIN reviews
    BY DEF ActiveReviews
  <2> QED
    BY <1>0, <2>1, <2>2, <2>3, <2>4 DEF NoReviewMoves, Adoptable, Refused, Answered
<1>5. ASSUME NEW c \in Creators, AdoptKey(c) PROVE BuyerAdopts \/ NoReviewMoves
  <2> DEFINE i == creator[c].review
             key == creator[c].key
  <2>1. /\ creator[c] # NoCall /\ creator[c].step = "adopt"
        /\ UNCHANGED <<recommendations, signals, scheduled, stranded>>
        /\ creator'[c] = NoCall
    BY <1>5 DEF AdoptKey, TypeOK
  <2>2. i \in DOMAIN reviews /\ key \in BuyerKeys
    BY <2>1 DEF CallsNameRows
  <2>3. CASE \E j \in DOMAIN reviews \ {i} : reviews[j].key = key
    BY <1>0, <1>5, <2>1, <2>3 DEF AdoptKey, NoReviewMoves
  <2>4. CASE ~\E j \in DOMAIN reviews \ {i} : reviews[j].key = key
    <3>1. /\ reviews' = [reviews EXCEPT ![i] = [@ EXCEPT !.key = key]]
          /\ answers' = Answered(key, i)
          /\ overwritten' = IF reviews[i].key \in {key, creator[c].seen}
                              THEN overwritten ELSE overwritten \cup {i}
      BY <1>5, <2>4 DEF AdoptKey
    <3>2. Changes(i, key, reviews[i].status)
      BY <1>0, <2>1, <2>2, <3>1, ChangesKey
    <3> QED
      BY <2>1, <2>4, <3>1, <3>2 DEF BuyerAdopts
  <2> QED
    BY <2>3, <2>4
<1>6. ASSUME NEW c \in Creators, InsertReview(c) PROVE BuyerInserts \/ NoReviewMoves
  <2> DEFINE rec == creator[c].rec
             key == creator[c].key
  <2>1. /\ creator[c] # NoCall /\ creator[c].step = "insert"
        /\ Len(reviews) < MaxReviews /\ creator'[c] = NoCall
        /\ UNCHANGED <<recommendations, signals, overwritten, stranded>>
    BY <1>6 DEF InsertReview, TypeOK
  <2>2. rec \in Recommendations /\ key \in Keys /\ creator[c].since \in 0 .. MaxReviews
    BY <1>0, <2>1 DEF TypeOK, CreateCalls
  <2>3. CASE KeyTaken(key)
    BY <1>0, <1>6, <2>1, <2>3 DEF InsertReview, NoReviewMoves
  <2>4. CASE ~KeyTaken(key)
    <3>1. /\ reviews' = Append(reviews, NewReview(rec, key, creator[c].since))
          /\ Launch(Len(reviews) + 1)
          /\ answers' = Answered(key, Len(reviews) + 1)
      BY <1>6, <2>4 DEF InsertReview
    <3>2. Adds(rec, key, creator[c].since)
      BY <2>1, <2>2, <3>1, AddsReview
    <3> QED
      BY <2>1, <2>4, <3>1, <3>2 DEF BuyerInserts, KeyTaken
  <2> QED
    BY <2>3, <2>4
<1>7. ASSUME NEW r \in Receivers, NEW e \in Events, ReceiveSignal(r, e)
      PROVE  NoReviewMoves
  BY <1>0, <1>7 DEF ReceiveSignal, NoReviewMoves, rows
<1>8. ASSUME NEW r \in Receivers, FindSales(r) PROVE NoReviewMoves
  BY <1>0, <1>8 DEF FindSales, NoReviewMoves, rows
<1>9. ASSUME NEW r \in Receivers, WriteSignal(r) PROVE SignalInserts \/ NoReviewMoves
  <2> DEFINE e == receiver[r].event
             verdict == Verdict(Observed[e], facts)
  <2>1. /\ e \in Events /\ Len(reviews) < MaxReviews
        /\ UNCHANGED <<answers, overwritten, stranded>>
    BY <1>9 DEF WriteSignal, TypeOK, SignalCalls
  <2>2. (CanSave(e, verdict) /\ Save(e, verdict)) \/ RollBack
    BY <1>9 DEF WriteSignal
  <2> HIDE DEF e, verdict
  <2>3. CASE RollBack
    BY <1>0, <2>1, <2>3 DEF RollBack, rows, NoReviewMoves
  <2> QED
    BY <2>1, <2>2, <2>3, SaveEffect
<1>10. ASSUME NEW r \in Receivers, Evaluate(r) PROVE NoReviewMoves
  BY <1>0, <1>10 DEF Evaluate, NoReviewMoves, rows
<1>11. ASSUME NEW r \in Receivers, RecordSignal(r) PROVE SignalInserts \/ NoReviewMoves
  <2> DEFINE e == receiver[r].event
             verdict == receiver[r].verdict
  <2>1. /\ e \in Events /\ Len(reviews) < MaxReviews
        /\ UNCHANGED <<answers, overwritten, stranded>>
    BY <1>11 DEF RecordSignal, TypeOK, SignalCalls
  <2>2. (CanSave(e, verdict) /\ Save(e, verdict)) \/ RollBack
    BY <1>11 DEF RecordSignal
  <2> HIDE DEF e, verdict
  <2>3. CASE RollBack
    BY <1>0, <2>1, <2>3 DEF RollBack, rows, NoReviewMoves
  <2> QED
    BY <2>1, <2>2, <2>3, SaveEffect
<1>12. ASSUME NEW i \in DOMAIN reviews, StartReview(i) PROVE WorkflowMoves
  <2>1. /\ SetStatus(i, "ACTIVE") /\ i \in scheduled
        /\ scheduled' = scheduled \ {i} /\ scheduled' \subseteq scheduled
    BY <1>12 DEF StartReview
  <2>2. Changes(i, reviews[i].key, "ACTIVE")
    BY <2>1, ChangesStatus
  <2> QED
    BY <1>12, <2>1, <2>2 DEF StartReview, WorkflowMoves
<1>13. ASSUME NEW i \in DOMAIN reviews, CloseReview(i) PROVE WorkflowMoves
  <2>1. /\ SetStatus(i, "CLOSED") /\ scheduled' \subseteq scheduled
        /\ reviews[i].status = "ACTIVE"
    BY <1>13 DEF CloseReview
  <2>2. Changes(i, reviews[i].key, "CLOSED")
    BY <2>1, ChangesStatus
  <2> QED
    BY <1>13, <2>1, <2>2 DEF CloseReview, WorkflowMoves
<1>14. FactsChange => NoReviewMoves
  BY <1>0 DEF FactsChange, NoReviewMoves, rows
<1>15. Crash => NoReviewMoves
  BY <1>0 DEF Crash, NoReviewMoves, rows
<1> QED
  BY <1>1, <1>2, <1>3, <1>4, <1>5, <1>6, <1>7, <1>8, <1>9, <1>10, <1>11, <1>12,
     <1>13, <1>14, <1>15 DEF Next

\* Rows stay; a review keeps its recommendation, and a signal's its key.
LEMMA RowsGrow ==
  ASSUME TypeOK, CallsNameRows,
         BuyerInserts \/ BuyerAdopts \/ SignalInserts \/ WorkflowMoves \/ NoReviewMoves
  PROVE  /\ recommendations \subseteq recommendations'
         /\ signals \subseteq signals'
         /\ DOMAIN reviews \subseteq DOMAIN reviews'
         /\ \A i \in DOMAIN reviews :
              /\ reviews'[i].rec = reviews[i].rec
              /\ \/ reviews'[i].key = reviews[i].key
                 \/ {reviews[i].key, reviews'[i].key} \subseteq BuyerKeys \cup {NoKey}
<1>1. CASE BuyerInserts
  BY <1>1 DEF BuyerInserts, Adds
<1>2. CASE BuyerAdopts
  BY <1>2 DEF BuyerAdopts, Changes, CallsNameRows
<1>3. CASE SignalInserts
  BY <1>3 DEF SignalInserts, Adds
<1>4. CASE WorkflowMoves
  BY <1>4 DEF WorkflowMoves, Changes
<1>5. CASE NoReviewMoves
  BY <1>5 DEF NoReviewMoves
<1> QED
  BY <1>1, <1>2, <1>3, <1>4, <1>5

\* The types of the rows after a step.
LEMMA RowTypes ==
  ASSUME TypeOK, CallsNameRows,
         BuyerInserts \/ BuyerAdopts \/ SignalInserts \/ WorkflowMoves \/ NoReviewMoves
  PROVE  /\ recommendations' \subseteq Recommendations
         /\ reviews' \in Seq(Review) /\ Len(reviews') <= MaxReviews
         /\ signals' \subseteq Events
         /\ scheduled' \subseteq DOMAIN reviews'
         /\ answers' \subseteq BuyerKeys \X (1 .. MaxReviews)
         /\ overwritten' \subseteq DOMAIN reviews'
         /\ stranded' \subseteq DOMAIN reviews'
<1> USE IntakeAssumption
<1>0. /\ reviews \in Seq(Review) /\ Len(reviews) \in Nat /\ Len(reviews) <= MaxReviews
      /\ DOMAIN reviews = 1 .. Len(reviews)
      /\ scheduled \subseteq DOMAIN reviews
      /\ recommendations \subseteq Recommendations /\ signals \subseteq Events
      /\ answers \subseteq BuyerKeys \X (1 .. MaxReviews)
      /\ overwritten \subseteq DOMAIN reviews /\ stranded \subseteq DOMAIN reviews
  BY DEF TypeOK
<1>1. CASE BuyerInserts
  <2>1. PICK c \in Creators :
          /\ creator[c] # NoCall
          /\ Adds(creator[c].rec, creator[c].key, creator[c].since)
          /\ answers' = Answered(creator[c].key, Len(reviews) + 1)
          /\ UNCHANGED <<recommendations, signals, overwritten, stranded>>
    BY <1>1 DEF BuyerInserts
  <2>2. creator[c].key \in BuyerKeys \cup {NoKey}
    BY <2>1 DEF TypeOK, CreateCalls
  <2>3. answers' \subseteq BuyerKeys \X (1 .. MaxReviews)
    BY <1>0, <2>1, <2>2 DEF Answered, Adds
  <2> QED
    BY <1>0, <2>1, <2>3 DEF Adds
<1>2. CASE BuyerAdopts
  <2>1. PICK c \in Creators :
          /\ creator[c] # NoCall /\ creator[c].step = "adopt"
          /\ Changes(creator[c].review, creator[c].key, reviews[creator[c].review].status)
          /\ answers' = Answered(creator[c].key, creator[c].review)
          /\ overwritten' \subseteq overwritten \cup {creator[c].review}
          /\ UNCHANGED <<recommendations, signals, scheduled, stranded>>
    BY <1>2 DEF BuyerAdopts
  <2>2. creator[c].review \in DOMAIN reviews /\ creator[c].key \in BuyerKeys
    BY <2>1 DEF CallsNameRows
  <2>3. /\ reviews' \in Seq(Review) /\ Len(reviews') = Len(reviews)
        /\ DOMAIN reviews' = DOMAIN reviews
    BY <2>1 DEF Changes
  <2>4. answers' \subseteq BuyerKeys \X (1 .. MaxReviews)
    BY <1>0, <2>1, <2>2 DEF Answered
  <2> QED
    BY <1>0, <2>1, <2>2, <2>3, <2>4
<1>3. CASE SignalInserts
  BY <1>0, <1>3 DEF SignalInserts, Adds, Recommendations
<1>4. CASE WorkflowMoves
  BY <1>0, <1>4 DEF WorkflowMoves, Changes
<1>5. CASE NoReviewMoves
  BY <1>0, <1>5 DEF NoReviewMoves
<1> QED
  BY <1>1, <1>2, <1>3, <1>4, <1>5

\* The requests in flight after a step: free, as before, or moved on.
LEMMA CallSteps ==
  ASSUME TypeOK, CallsNameRows, Next
  PROVE  /\ creator' \in [Creators -> CreateCalls \cup {NoCall}]
         /\ receiver' \in [Receivers -> SignalCalls \cup {NoCall}]
         /\ sales' \in [Windows -> Nat \cup {NoSales}]
         /\ facts' \in AllFacts
         /\ \A c \in Creators :
              \/ creator'[c] \in {NoCall, creator[c]}
              \/ /\ creator[c] = NoCall
                 /\ creator'[c].step = "check" /\ creator'[c].rec \in recommendations
              \/ /\ creator[c] # NoCall
                 /\ creator'[c].step = "insert" /\ creator'[c].rec = creator[c].rec
                 /\ creator'[c].since = Len(reviews)
                 /\ ActiveReviews(creator[c].rec) = {}
                 /\ UNCHANGED <<reviews, recommendations>>
              \/ /\ creator[c] # NoCall
                 /\ creator'[c].step = "adopt" /\ creator'[c].rec = creator[c].rec
                 /\ creator'[c].key = creator[c].key
                 /\ creator'[c].review \in ActiveReviews(creator[c].rec)
                 /\ Adoptable(creator'[c].review, creator[c].key)
                 /\ creator'[c].seen = NoKey
                 /\ UNCHANGED <<reviews, recommendations>>
<1> USE IntakeAssumption
<1> DEFINE Moved(c) ==
      \/ creator'[c] \in {NoCall, creator[c]}
      \/ /\ creator[c] = NoCall
         /\ creator'[c].step = "check" /\ creator'[c].rec \in recommendations
      \/ /\ creator[c] # NoCall
         /\ creator'[c].step = "insert" /\ creator'[c].rec = creator[c].rec
         /\ creator'[c].since = Len(reviews)
         /\ ActiveReviews(creator[c].rec) = {}
         /\ UNCHANGED <<reviews, recommendations>>
      \/ /\ creator[c] # NoCall
         /\ creator'[c].step = "adopt" /\ creator'[c].rec = creator[c].rec
         /\ creator'[c].key = creator[c].key
         /\ creator'[c].review \in ActiveReviews(creator[c].rec)
         /\ Adoptable(creator'[c].review, creator[c].key)
         /\ creator'[c].seen = NoKey
         /\ UNCHANGED <<reviews, recommendations>>
    CreatorOK == /\ creator' \in [Creators -> CreateCalls \cup {NoCall}]
                 /\ \A c \in Creators : Moved(c)
    ReceiverOK == receiver' \in [Receivers -> SignalCalls \cup {NoCall}]
    SalesOK == sales' \in [Windows -> Nat \cup {NoSales}]
    RestOK == facts' \in AllFacts
<1>0. /\ creator \in [Creators -> CreateCalls \cup {NoCall}]
      /\ receiver \in [Receivers -> SignalCalls \cup {NoCall}]
      /\ sales \in [Windows -> Nat \cup {NoSales}]
      /\ facts \in AllFacts
      /\ reviews \in Seq(Review) /\ Len(reviews) \in Nat /\ Len(reviews) <= MaxReviews
      /\ recommendations \subseteq Recommendations
  BY DEF TypeOK
<1>1. UNCHANGED creator => CreatorOK
  BY <1>0
<1>2. UNCHANGED receiver => ReceiverOK
  BY <1>0
<1>3. UNCHANGED facts => RestOK
  BY <1>0
<1>4. UNCHANGED sales => SalesOK
  BY <1>0
<1>5. ASSUME NEW c \in Creators, creator' = [creator EXCEPT ![c] = NoCall] PROVE CreatorOK
  BY <1>0, <1>5
<1>6. ASSUME NEW r \in Receivers, receiver' = [receiver EXCEPT ![r] = NoCall] PROVE ReceiverOK
  BY <1>0, <1>6
<1>7. ASSUME NEW c \in Creators, NEW rec \in Recommendations,
             NEW key \in BuyerKeys \cup {NoKey}, RequestReview(c, rec, key)
      PROVE  CreatorOK
  <2> DEFINE call == [step |-> "check", rec |-> rec, key |-> key, review |-> 0,
                      seen |-> NoKey, since |-> 0]
  <2>1. call \in CreateCalls /\ call.step = "check" /\ call.rec = rec
    BY DEF CreateCalls, Keys
  <2>2. /\ creator' = [creator EXCEPT ![c] = call] /\ creator[c] = NoCall
        /\ rec \in recommendations
    BY <1>7 DEF RequestReview
  <2> HIDE DEF call
  <2> QED
    BY <1>0, <2>1, <2>2
<1>8. ASSUME NEW c \in Creators, FindNone(c) PROVE CreatorOK
  <2>0. PICK n \in 0 .. MaxReviews : n = Len(reviews)
    BY <1>0
  <2> DEFINE call == [creator[c] EXCEPT !.step = "insert", !.since = n]
  <2>1. /\ creator' = [creator EXCEPT ![c] = call] /\ creator[c] # NoCall
        /\ ActiveReviews(creator[c].rec) = {} /\ UNCHANGED <<reviews, recommendations>>
    BY <1>8, <2>0 DEF FindNone, rows
  <2>2. creator[c] \in CreateCalls
    BY <1>0, <2>1
  <2>3. /\ call \in CreateCalls /\ call.step = "insert"
        /\ call.rec = creator[c].rec /\ call.since = n
    BY <2>2 DEF CreateCalls
  <2> HIDE DEF call
  <2> QED
    BY <1>0, <2>0, <2>1, <2>3
<1>9. ASSUME NEW c \in Creators, FindActive(c) PROVE CreatorOK
  <2>1. creator[c] # NoCall /\ UNCHANGED <<reviews, recommendations>>
    BY <1>9 DEF FindActive, rows
  <2>2. creator[c] \in CreateCalls
    BY <1>0, <2>1
  <2>3. PICK i \in ActiveReviews(creator[c].rec) :
          \/ /\ Adoptable(i, creator[c].key)
             /\ creator' = [creator EXCEPT ![c] =
                  [@ EXCEPT !.step = "adopt", !.review = i, !.seen = reviews[i].key]]
          \/ creator' = [creator EXCEPT ![c] = NoCall]
    BY <1>9 DEF FindActive
  <2> DEFINE seen == reviews[i].key
  <2>4. i \in 0 .. MaxReviews /\ seen \in Keys
    <3>1. i \in 1 .. Len(reviews)
      BY <1>0 DEF ActiveReviews
    <3>2. reviews[i] \in Review
      BY <1>0, <3>1
    <3> QED
      BY <1>0, <3>1, <3>2 DEF Review
  <2> HIDE DEF seen
  <2> DEFINE call == [creator[c] EXCEPT !.step = "adopt", !.review = i, !.seen = seen]
  <2>5. /\ call \in CreateCalls /\ call.step = "adopt" /\ call.review = i
        /\ call.rec = creator[c].rec /\ call.key = creator[c].key
        /\ call.seen = seen
    BY <2>2, <2>4 DEF CreateCalls
  <2>6. \/ /\ Adoptable(i, creator[c].key)
           /\ creator' = [creator EXCEPT ![c] = call]
        \/ creator' = [creator EXCEPT ![c] = NoCall]
    BY <2>3 DEF seen
  <2>7. Adoptable(i, creator[c].key) => seen = NoKey
    BY DEF Adoptable, seen
  <2> HIDE DEF call
  <2> QED
    BY <1>0, <1>5, <2>1, <2>5, <2>6, <2>7
<1>10. ASSUME NEW r \in Receivers, NEW e \in Events, ReceiveSignal(r, e) PROVE ReceiverOK
  <2> DEFINE call == [step |-> "find", event |-> e, found |-> FALSE,
                      known |-> FALSE, verdict |-> "NO_SPIKE"]
  <2>1. call \in SignalCalls
    BY DEF SignalCalls, Verdicts
  <2>2. receiver' = [receiver EXCEPT ![r] = call]
    BY <1>10 DEF ReceiveSignal
  <2> HIDE DEF call
  <2> QED
    BY <1>0, <2>1, <2>2
<1>11. ASSUME NEW r \in Receivers, FindSales(r) PROVE ReceiverOK
  <2> DEFINE found == sales[Window[receiver[r].event]] # NoSales
             call == [receiver[r] EXCEPT !.step = "write", !.found = found]
  <2>1. receiver' = [receiver EXCEPT ![r] = call] /\ receiver[r] \in SignalCalls
    BY <1>0, <1>11 DEF FindSales
  <2>2. found \in BOOLEAN
    OBVIOUS
  <2> HIDE DEF found
  <2>3. call \in SignalCalls
    BY <2>1, <2>2 DEF SignalCalls
  <2> HIDE DEF call
  <2> QED
    BY <1>0, <2>1, <2>3
<1>12. ASSUME NEW r \in Receivers, Evaluate(r) PROVE ReceiverOK
  <2> DEFINE known == receiver[r].event \in signals
             verdict == Verdict(Observed[receiver[r].event], facts)
             call == [receiver[r] EXCEPT !.step = "record", !.known = known, !.verdict = verdict]
  <2>1. receiver' = [receiver EXCEPT ![r] = call] /\ receiver[r] \in SignalCalls
    BY <1>0, <1>12 DEF Evaluate
  <2>2. known \in BOOLEAN /\ verdict \in Verdicts
    BY DEF Verdict, Verdicts
  <2> HIDE DEF known, verdict
  <2>3. call \in SignalCalls
    BY <2>1, <2>2 DEF SignalCalls
  <2> HIDE DEF call
  <2> QED
    BY <1>0, <2>1, <2>3
<1>13. ASSUME NEW r \in Receivers, WriteSignal(r) PROVE SalesOK
  <2> DEFINE e == receiver[r].event
  <2>1. e \in Events
    BY <1>0, <1>13 DEF WriteSignal, SignalCalls
  <2>2. Observed[e].units \in Nat
    BY <2>1 DEF Observation
  <2>3. UNCHANGED sales \/ sales' = [sales EXCEPT ![Window[e]] = Observed[e].units]
    BY <1>13 DEF WriteSignal, RollBack, rows
  <2> QED
    BY <1>0, <2>2, <2>3
<1> HIDE DEF CreatorOK, ReceiverOK, SalesOK, RestOK
<1>14. ASSUME NEW rec \in Recommendations, NEW key \in BuyerKeys, Replay(rec, key)
       PROVE  CreatorOK /\ ReceiverOK /\ SalesOK /\ RestOK
  BY <1>1, <1>2, <1>3, <1>4, <1>14 DEF Replay, rows
<1>15. ASSUME NEW c \in Creators,
              \/ \E rec \in Recommendations, key \in BuyerKeys \cup {NoKey} :
                   RequestReview(c, rec, key)
              \/ FindNone(c) \/ FindActive(c) \/ AdoptKey(c) \/ InsertReview(c)
       PROVE  CreatorOK /\ ReceiverOK /\ SalesOK /\ RestOK
  BY <1>2, <1>3, <1>4, <1>5, <1>7, <1>8, <1>9, <1>15
     DEF RequestReview, FindNone, FindActive, AdoptKey, InsertReview, rows
<1>16. ASSUME NEW r \in Receivers,
              \/ \E e \in Events : ReceiveSignal(r, e)
              \/ FindSales(r) \/ WriteSignal(r) \/ Evaluate(r) \/ RecordSignal(r)
       PROVE  CreatorOK /\ ReceiverOK /\ SalesOK /\ RestOK
  BY <1>1, <1>3, <1>4, <1>6, <1>10, <1>11, <1>12, <1>13, <1>16
     DEF ReceiveSignal, FindSales, WriteSignal, Evaluate, RecordSignal, RollBack, rows
<1>17. ASSUME NEW i \in DOMAIN reviews, StartReview(i) \/ CloseReview(i)
       PROVE  CreatorOK /\ ReceiverOK /\ SalesOK /\ RestOK
  BY <1>1, <1>2, <1>3, <1>4, <1>17 DEF StartReview, CloseReview
<1>18. FactsChange => CreatorOK /\ ReceiverOK /\ SalesOK /\ RestOK
  BY <1>0, <1>1, <1>2, <1>4 DEF FactsChange, rows, RestOK
<1>19. Crash => CreatorOK /\ ReceiverOK /\ SalesOK /\ RestOK
  BY <1>0, <1>4 DEF Crash, rows, RestOK, CreatorOK, ReceiverOK
<1>20. CreatorOK /\ ReceiverOK /\ SalesOK /\ RestOK
  BY <1>14, <1>15, <1>16, <1>17, <1>18, <1>19 DEF Next
<1> QED
  BY <1>20 DEF CreatorOK, ReceiverOK, SalesOK, RestOK

-----------------------------------------------------------------------------
(***************************************************************************)
(* However requests overlap                                                *)
(***************************************************************************)
LEMMA InitInv == Init => IInv
<1> SUFFICES ASSUME Init PROVE IInv
  OBVIOUS
<1> USE IntakeAssumption
<1>1. /\ reviews \in Seq(Review) /\ Len(reviews) = 0 /\ DOMAIN reviews = {}
  BY DEF Init
<1>2. /\ creator \in [Creators -> CreateCalls \cup {NoCall}]
      /\ receiver \in [Receivers -> SignalCalls \cup {NoCall}]
      /\ sales \in [Windows -> Nat \cup {NoSales}]
      /\ \A c \in Creators : creator[c] = NoCall
  BY DEF Init
<1>3. /\ recommendations = Planned /\ signals = {} /\ scheduled = {} /\ answers = {}
      /\ overwritten = {} /\ stranded = {} /\ facts \in AllFacts
  BY DEF Init
<1>4. TypeOK
  <2>1. /\ recommendations \subseteq Recommendations /\ signals \subseteq Events
        /\ scheduled \subseteq DOMAIN reviews
        /\ answers \subseteq BuyerKeys \X (1 .. MaxReviews)
    BY <1>3 DEF Recommendations
  <2>2. Len(reviews) <= MaxReviews
    BY <1>1
  <2>3. overwritten \subseteq DOMAIN reviews /\ stranded \subseteq DOMAIN reviews
    BY <1>3
  <2> QED
    BY <1>1, <1>2, <1>3, <2>1, <2>2, <2>3 DEF TypeOK
<1>5. CallsNameRows /\ SignalKeysStay
  BY <1>1, <1>2 DEF CallsNameRows, SignalKeysStay
<1>6. EventLeadsToOneReview
  BY <1>1, <1>3 DEF EventLeadsToOneReview
<1> QED
  BY <1>4, <1>5, <1>6 DEF IInv

\* Each event keeps its one review: an insertion by a signal is the first of
\* its event, and no buyer's step touches a signal's key.
LEMMA EventsStay ==
  ASSUME TypeOK, CallsNameRows, SignalKeysStay, EventLeadsToOneReview,
         BuyerInserts \/ BuyerAdopts \/ SignalInserts \/ WorkflowMoves \/ NoReviewMoves
  PROVE  SignalKeysStay' /\ EventLeadsToOneReview'
<1> USE IntakeAssumption
<1>0. \A d, e \in Events : SignalKey(d) = SignalKey(e) => d = e
  BY DEF SignalKey
<1>1. \A e \in Events : SignalKey(e) \notin BuyerKeys \cup {NoKey}
  OBVIOUS
<1>2. CASE BuyerInserts
  <2>1. PICK c \in Creators :
          /\ creator[c] # NoCall
          /\ Adds(creator[c].rec, creator[c].key, creator[c].since)
          /\ UNCHANGED <<recommendations, signals>>
    BY <1>2 DEF BuyerInserts
  <2>2. /\ creator[c].key \in BuyerKeys \cup {NoKey}
        /\ creator[c].rec \in recommendations
    BY <2>1 DEF TypeOK, CreateCalls, CallsNameRows
  <2>3. \A i \in DOMAIN reviews', e \in Events :
          reviews'[i].key = SignalKey(e) => i \in DOMAIN reviews
    BY <1>1, <2>1, <2>2 DEF Adds
  <2>4. SignalKeysStay'
    BY <2>1, <2>3 DEF SignalKeysStay, Adds
  <2>5. EventLeadsToOneReview'
    BY <2>1, <2>2, <2>3 DEF EventLeadsToOneReview, Adds
  <2> QED
    BY <2>4, <2>5
<1>3. CASE BuyerAdopts
  <2>1. PICK c \in Creators :
          /\ creator[c] # NoCall /\ creator[c].step = "adopt"
          /\ Changes(creator[c].review, creator[c].key, reviews[creator[c].review].status)
          /\ UNCHANGED <<recommendations, signals>>
    BY <1>3 DEF BuyerAdopts
  <2>2. {reviews[creator[c].review].key, creator[c].key} \subseteq BuyerKeys \cup {NoKey}
    BY <2>1 DEF CallsNameRows
  <2>3. \A i \in DOMAIN reviews, e \in Events :
          /\ reviews'[i].key = SignalKey(e) <=> reviews[i].key = SignalKey(e)
          /\ reviews'[i].rec = reviews[i].rec
    BY <1>1, <2>1, <2>2 DEF Changes
  <2>4. DOMAIN reviews' = DOMAIN reviews
    BY <2>1 DEF Changes
  <2> QED
    BY <2>1, <2>3, <2>4 DEF SignalKeysStay, EventLeadsToOneReview
<1>4. CASE SignalInserts
  <2>1. PICK e \in Events :
          /\ ~ReferenceTaken(e) /\ Adds(e, SignalKey(e), Len(reviews))
          /\ signals' = signals \cup {e} /\ recommendations' = recommendations \cup {e}
    BY <1>4 DEF SignalInserts
  <2>2. SignalKeysStay'
    BY <1>0, <2>1 DEF SignalKeysStay, Adds
  <2>3. /\ e \notin recommendations
        /\ \A i \in DOMAIN reviews : reviews[i].key # SignalKey(e)
    BY <2>1 DEF ReferenceTaken, HasKey
  <2>4. ASSUME NEW d \in Events PROVE
          LET ofSignal == {i \in DOMAIN reviews' : reviews'[i].key = SignalKey(d)} IN
          IF d \in recommendations'
            THEN /\ d \in signals'
                 /\ \E i \in ofSignal : reviews'[i].rec = d /\ ofSignal = {i}
            ELSE \A i \in DOMAIN reviews' : reviews'[i].rec # d
    <3>1. CASE d = e
      <4>1. {i \in DOMAIN reviews' : reviews'[i].key = SignalKey(e)} = {Len(reviews) + 1}
        BY <2>1, <2>3 DEF Adds
      <4> QED
        BY <2>1, <3>1, <4>1 DEF Adds
    <3>2. CASE d # e
      <4>1. {i \in DOMAIN reviews' : reviews'[i].key = SignalKey(d)}
              = {i \in DOMAIN reviews : reviews[i].key = SignalKey(d)}
        BY <1>0, <2>1, <3>2 DEF Adds
      <4>2. /\ d \in recommendations' <=> d \in recommendations
            /\ d \in signals => d \in signals'
            /\ \A i \in DOMAIN reviews : reviews'[i].rec = reviews[i].rec
            /\ \A i \in DOMAIN reviews' : reviews'[i].rec = d => i \in DOMAIN reviews
        BY <2>1, <3>2 DEF Adds
      <4> QED
        BY <4>1, <4>2 DEF EventLeadsToOneReview
    <3> QED
      BY <3>1, <3>2
  <2>5. EventLeadsToOneReview'
    BY <2>4 DEF EventLeadsToOneReview
  <2> QED
    BY <2>2, <2>5
<1>5. CASE WorkflowMoves
  <2>1. /\ UNCHANGED <<recommendations, signals>> /\ DOMAIN reviews' = DOMAIN reviews
        /\ \A i \in DOMAIN reviews :
             reviews'[i].rec = reviews[i].rec /\ reviews'[i].key = reviews[i].key
    BY <1>5 DEF WorkflowMoves, Changes
  <2> QED
    BY <2>1 DEF SignalKeysStay, EventLeadsToOneReview
<1>6. CASE NoReviewMoves
  <2>1. UNCHANGED <<recommendations, reviews>> /\ signals \subseteq signals'
    BY <1>6 DEF NoReviewMoves
  <2> QED
    BY <2>1 DEF SignalKeysStay, EventLeadsToOneReview
<1> QED
  BY <1>2, <1>3, <1>4, <1>5, <1>6

LEMMA NextInv == IInv /\ [Next]_vars => IInv'
<1> SUFFICES ASSUME IInv, [Next]_vars PROVE IInv'
  OBVIOUS
<1> USE IntakeAssumption
<1>1. ASSUME Next PROVE IInv'
  <2>0. TypeOK /\ CallsNameRows /\ SignalKeysStay /\ EventLeadsToOneReview
    BY DEF IInv
  <2>1. BuyerInserts \/ BuyerAdopts \/ SignalInserts \/ WorkflowMoves \/ NoReviewMoves
    BY <1>1, <2>0, RowSteps
  <2>2. TypeOK'
    BY <1>1, <2>0, <2>1, RowTypes, CallSteps DEF TypeOK
  <2>3. CallsNameRows'
    <3>1. ASSUME NEW c \in Creators, creator'[c] # NoCall
          PROVE  /\ creator'[c].rec \in recommendations'
                 /\ creator'[c].step = "adopt" =>
                      /\ creator'[c].review \in DOMAIN reviews'
                      /\ creator'[c].key \in BuyerKeys
                      /\ reviews'[creator'[c].review].key \in BuyerKeys \cup {NoKey}
      <4>1. \/ creator'[c] \in {NoCall, creator[c]}
            \/ /\ creator[c] = NoCall
               /\ creator'[c].step = "check" /\ creator'[c].rec \in recommendations
            \/ /\ creator[c] # NoCall
               /\ creator'[c].step = "insert" /\ creator'[c].rec = creator[c].rec
            \/ /\ creator[c] # NoCall
               /\ creator'[c].step = "adopt" /\ creator'[c].rec = creator[c].rec
               /\ creator'[c].key = creator[c].key
               /\ creator'[c].review \in ActiveReviews(creator[c].rec)
               /\ Adoptable(creator'[c].review, creator[c].key)
               /\ UNCHANGED <<reviews, recommendations>>
        BY <1>1, <2>0, CallSteps
      <4>2. recommendations \subseteq recommendations'
        BY <2>0, <2>1, RowsGrow
      <4>3. CASE creator'[c] = creator[c]
        <5>1. /\ creator[c] # NoCall /\ creator[c].rec \in recommendations
              /\ creator[c].step = "adopt" =>
                   /\ creator[c].review \in DOMAIN reviews
                   /\ creator[c].key \in BuyerKeys
                   /\ reviews[creator[c].review].key \in BuyerKeys \cup {NoKey}
          BY <2>0, <3>1, <4>3 DEF CallsNameRows
        <5>2. ASSUME NEW i \in DOMAIN reviews, reviews[i].key \in BuyerKeys \cup {NoKey}
              PROVE  i \in DOMAIN reviews' /\ reviews'[i].key \in BuyerKeys \cup {NoKey}
          BY <2>0, <2>1, <5>2, RowsGrow
        <5> QED
          BY <4>2, <4>3, <5>1, <5>2
      <4>4. CASE /\ creator[c] # NoCall
                 /\ creator'[c].step = "adopt" /\ creator'[c].rec = creator[c].rec
                 /\ creator'[c].key = creator[c].key
                 /\ creator'[c].review \in ActiveReviews(creator[c].rec)
                 /\ Adoptable(creator'[c].review, creator[c].key)
                 /\ UNCHANGED <<reviews, recommendations>>
        <5>1. creator[c].key \in BuyerKeys \cup {NoKey} /\ creator[c].rec \in recommendations
          BY <2>0, <4>4 DEF TypeOK, CreateCalls, CallsNameRows
        <5> QED
          BY <4>4, <5>1 DEF ActiveReviews, Adoptable
      <4>5. creator[c] # NoCall => creator[c].rec \in recommendations
        BY <2>0 DEF CallsNameRows
      <4> QED
        BY <3>1, <4>1, <4>2, <4>3, <4>4, <4>5
    <3> QED
      BY <3>1 DEF CallsNameRows
  <2>4. SignalKeysStay' /\ EventLeadsToOneReview'
    BY <2>0, <2>1, EventsStay
  <2> QED
    BY <2>2, <2>3, <2>4 DEF IInv
<1>2. ASSUME UNCHANGED vars PROVE IInv'
  BY <1>2 DEF IInv, vars, rows, TypeOK, CallsNameRows, SignalKeysStay, EventLeadsToOneReview
<1> QED
  BY <1>1, <1>2

THEOREM Invariance == Spec => []IInv
  BY InitInv, NextInv, PTL DEF Spec

\* Every variable keeps its type: the tasks that wait are of reviews that
\* exist, and so are the answers.
THEOREM TypeCorrect == Spec => []TypeOK
<1>1. IInv => TypeOK
  BY DEF IInv
<1> QED
  BY <1>1, Invariance, PTL

\* However many requests deliver an event at once, it has one recommendation
\* with one review, and a signal row.
THEOREM OneReviewPerEvent == Spec => []EventLeadsToOneReview
<1>1. IInv => EventLeadsToOneReview
  BY DEF IInv
<1> QED
  BY <1>1, Invariance, PTL

-----------------------------------------------------------------------------
(***************************************************************************)
(* Starts                                                                  *)
(***************************************************************************)
\* A review's start waits, or is lost, but not both.
StartInv == StartsAreScheduled /\ scheduled \cap stranded = {}

LEMMA StartsStay ==
  ASSUME TypeOK, StartInv,
         BuyerInserts \/ BuyerAdopts \/ SignalInserts \/ WorkflowMoves \/ NoReviewMoves
  PROVE  StartInv'
<1>0. /\ scheduled \subseteq DOMAIN reviews /\ stranded \subseteq DOMAIN reviews
      /\ Len(reviews) + 1 \notin DOMAIN reviews
  BY DEF TypeOK
<1>1. ASSUME NEW rec, NEW key, NEW since, Adds(rec, key, since), UNCHANGED stranded
      PROVE  StartInv'
  BY <1>0, <1>1 DEF StartInv, StartsAreScheduled, Adds
<1>2. CASE BuyerInserts
  BY <1>1, <1>2 DEF BuyerInserts
<1>3. CASE SignalInserts
  BY <1>1, <1>3 DEF SignalInserts
<1>4. CASE BuyerAdopts
  <2>1. PICK c \in Creators :
          /\ Changes(creator[c].review, creator[c].key, reviews[creator[c].review].status)
          /\ UNCHANGED <<scheduled, stranded>>
    BY <1>4 DEF BuyerAdopts
  <2> QED
    BY <2>1 DEF Changes, StartInv, StartsAreScheduled
<1>5. CASE WorkflowMoves
  <2>1. PICK i \in DOMAIN reviews :
          /\ \/ /\ Changes(i, reviews[i].key, "ACTIVE")
                /\ i \in scheduled /\ scheduled' = scheduled \ {i}
             \/ /\ Changes(i, reviews[i].key, "CLOSED")
                /\ reviews[i].status = "ACTIVE" /\ UNCHANGED scheduled
          /\ UNCHANGED stranded
    BY <1>5 DEF WorkflowMoves
  <2>2. CASE /\ Changes(i, reviews[i].key, "ACTIVE")
             /\ i \in scheduled /\ scheduled' = scheduled \ {i}
    BY <2>1, <2>2 DEF Changes, StartInv, StartsAreScheduled
  <2>3. CASE /\ Changes(i, reviews[i].key, "CLOSED")
             /\ reviews[i].status = "ACTIVE" /\ UNCHANGED scheduled
    BY <2>1, <2>3 DEF Changes, StartInv, StartsAreScheduled
  <2> QED
    BY <2>1, <2>2, <2>3
<1>6. CASE NoReviewMoves
  BY <1>6 DEF NoReviewMoves, StartInv, StartsAreScheduled
<1> QED
  BY <1>2, <1>3, <1>4, <1>5, <1>6

-----------------------------------------------------------------------------
(***************************************************************************)
(* Keys                                                                    *)
(***************************************************************************)
\* A request that is about to give a review its key has read it without one.
AdoptsSawNone ==
  \A c \in Creators : creator[c] # NoCall /\ creator[c].step = "adopt" =>
    creator[c].seen = NoKey

KeysAreUnique ==
  \A i, j \in DOMAIN reviews :
    reviews[i].key = reviews[j].key /\ reviews[i].key # NoKey => i = j

AnswersHold ==
  \A a \in answers :
    /\ a[2] \in DOMAIN reviews
    /\ a[2] \notin overwritten => reviews[a[2]].key = a[1]

KeyInv == AdoptsSawNone /\ KeysAreUnique /\ AnswersHold

\* A key is on one review, and stays there unless it is overwritten unseen.
LEMMA KeysStay ==
  ASSUME TypeOK, CallsNameRows, KeyInv,
         BuyerInserts \/ BuyerAdopts \/ SignalInserts \/ WorkflowMoves \/ NoReviewMoves
  PROVE  KeysAreUnique' /\ AnswersHold'
<1> USE IntakeAssumption
<1>0. /\ KeysAreUnique /\ AnswersHold /\ AdoptsSawNone
      /\ DOMAIN reviews = 1 .. Len(reviews) /\ Len(reviews) \in Nat
      /\ \A a \in answers : a[1] # NoKey
      /\ overwritten \subseteq DOMAIN reviews
  BY DEF KeyInv, TypeOK
<1>1. CASE BuyerInserts
  <2>1. PICK c \in Creators :
          /\ creator[c].key # NoKey => ~HasKey(creator[c].key)
          /\ Adds(creator[c].rec, creator[c].key, creator[c].since)
          /\ answers' = Answered(creator[c].key, Len(reviews) + 1)
          /\ UNCHANGED overwritten
    BY <1>1 DEF BuyerInserts
  <2>2. KeysAreUnique'
    BY <1>0, <2>1 DEF KeysAreUnique, Adds, HasKey
  <2>3. AnswersHold'
    BY <1>0, <2>1 DEF AnswersHold, Adds, Answered
  <2> QED
    BY <2>2, <2>3
<1>2. CASE BuyerAdopts
  <2>1. PICK c \in Creators :
          /\ creator[c] # NoCall /\ creator[c].step = "adopt"
          /\ \A j \in DOMAIN reviews \ {creator[c].review} : reviews[j].key # creator[c].key
          /\ Changes(creator[c].review, creator[c].key, reviews[creator[c].review].status)
          /\ answers' = Answered(creator[c].key, creator[c].review)
          /\ overwritten \subseteq overwritten'
          /\ creator[c].review \notin overwritten' =>
               reviews[creator[c].review].key \in {creator[c].key, creator[c].seen}
    BY <1>2 DEF BuyerAdopts
  <2>2. creator[c].seen = NoKey
    BY <1>0, <2>1 DEF AdoptsSawNone
  <2>3. KeysAreUnique'
    BY <1>0, <2>1 DEF KeysAreUnique, Changes
  <2>4. ASSUME NEW a \in answers
        PROVE  /\ a[2] \in DOMAIN reviews'
               /\ a[2] \notin overwritten' => reviews'[a[2]].key = a[1]
    <3>1. /\ a[2] \in DOMAIN reviews /\ a[1] # NoKey
          /\ a[2] \notin overwritten' => reviews[a[2]].key = a[1]
      BY <1>0, <2>1 DEF AnswersHold
    <3>2. CASE a[2] = creator[c].review
      BY <2>1, <2>2, <3>1, <3>2 DEF Changes
    <3>3. CASE a[2] # creator[c].review
      BY <2>1, <3>1, <3>3 DEF Changes
    <3> QED
      BY <3>2, <3>3
  <2>5. ASSUME NEW a \in answers' \ answers
        PROVE  a[2] \in DOMAIN reviews' /\ reviews'[a[2]].key = a[1]
    <3>1. a = <<creator[c].key, creator[c].review>>
      BY <2>1 DEF Answered
    <3> QED
      BY <2>1, <3>1 DEF Changes
  <2>6. AnswersHold'
    BY <2>4, <2>5 DEF AnswersHold
  <2> QED
    BY <2>3, <2>6
<1>3. CASE SignalInserts
  <2>1. PICK e \in Events :
          /\ ~HasKey(SignalKey(e)) /\ Adds(e, SignalKey(e), Len(reviews))
          /\ UNCHANGED <<answers, overwritten>>
    BY <1>3 DEF SignalInserts, ReferenceTaken
  <2>2. KeysAreUnique'
    BY <1>0, <2>1 DEF KeysAreUnique, Adds, HasKey
  <2>3. AnswersHold'
    BY <1>0, <2>1 DEF AnswersHold, Adds
  <2> QED
    BY <2>2, <2>3
<1>4. CASE WorkflowMoves
  <2>1. /\ UNCHANGED <<answers, overwritten>> /\ DOMAIN reviews' = DOMAIN reviews
        /\ \A i \in DOMAIN reviews : reviews'[i].key = reviews[i].key
    BY <1>4 DEF WorkflowMoves, Changes
  <2> QED
    BY <1>0, <2>1 DEF KeysAreUnique, AnswersHold
<1>5. CASE NoReviewMoves
  BY <1>0, <1>5 DEF NoReviewMoves, KeysAreUnique, AnswersHold
<1> QED
  BY <1>1, <1>2, <1>3, <1>4, <1>5

LEMMA AdoptsStay ==
  ASSUME TypeOK, CallsNameRows, AdoptsSawNone, Next PROVE AdoptsSawNone'
<1>1. ASSUME NEW c \in Creators, creator'[c] # NoCall, creator'[c].step = "adopt"
      PROVE  creator'[c].seen = NoKey
  <2>1. creator'[c] = creator[c] \/ creator'[c].seen = NoKey
    BY <1>1, CallSteps
  <2> QED
    BY <1>1, <2>1 DEF AdoptsSawNone
<1> QED
  BY <1>1 DEF AdoptsSawNone

-----------------------------------------------------------------------------
(***************************************************************************)
(* Active reviews                                                          *)
(***************************************************************************)
\* Among the first n reviews, those of rec after i hold one that was asked
\* for before i was there.
Overlapped(i, n, rec) ==
  \E k \in (i + 1) .. n : reviews[k].rec = rec /\ reviews[k].since < i

\* A request about to insert a review has seen no active review but those
\* that another one had overlapped.
CallsLooked ==
  \A c \in Creators : creator[c] # NoCall /\ creator[c].step = "insert" =>
    /\ creator[c].since <= Len(reviews)
    /\ \A i \in 1 .. creator[c].since :
         reviews[i].rec = creator[c].rec /\ reviews[i].status # "CLOSED"
           => Overlapped(i, creator[c].since, creator[c].rec)

OverlapInv == ActiveTogetherOverlapped /\ CallsLooked

\* Reviews keep their recommendation and since, and closed ones stay closed.
LEMMA ReviewsStay ==
  ASSUME TypeOK, CallsNameRows, StartInv,
         BuyerInserts \/ BuyerAdopts \/ SignalInserts \/ WorkflowMoves \/ NoReviewMoves
  PROVE  /\ Len(reviews) <= Len(reviews')
         /\ \A i \in DOMAIN reviews :
              /\ i \in DOMAIN reviews'
              /\ reviews'[i].rec = reviews[i].rec
              /\ reviews'[i].since = reviews[i].since
              /\ reviews[i].status = "CLOSED" => reviews'[i].status = "CLOSED"
<1>0. Len(reviews) \in Nat
  BY DEF TypeOK
<1>1. CASE BuyerInserts
  BY <1>0, <1>1 DEF BuyerInserts, Adds
<1>2. CASE BuyerAdopts
  BY <1>0, <1>2 DEF BuyerAdopts, Changes
<1>3. CASE SignalInserts
  BY <1>0, <1>3 DEF SignalInserts, Adds
<1>4. CASE WorkflowMoves
  <2>1. PICK i \in DOMAIN reviews :
          \/ Changes(i, reviews[i].key, "ACTIVE") /\ i \in scheduled
          \/ Changes(i, reviews[i].key, "CLOSED")
    BY <1>4 DEF WorkflowMoves
  <2>2. i \in scheduled => reviews[i].status = "CREATED"
    BY DEF StartInv, StartsAreScheduled
  <2> QED
    BY <1>0, <2>1, <2>2 DEF Changes
<1>5. CASE NoReviewMoves
  BY <1>0, <1>5 DEF NoReviewMoves
<1> QED
  BY <1>1, <1>2, <1>3, <1>4, <1>5

\* What was overlapped stays so.
LEMMA OverlapStays ==
  ASSUME TypeOK, CallsNameRows, StartInv,
         BuyerInserts \/ BuyerAdopts \/ SignalInserts \/ WorkflowMoves \/ NoReviewMoves,
         NEW i \in Nat, NEW n \in 0 .. Len(reviews), NEW rec, Overlapped(i, n, rec)
  PROVE  \E k \in (i + 1) .. n : reviews'[k].rec = rec /\ reviews'[k].since < i
<1>1. PICK k \in (i + 1) .. n : reviews[k].rec = rec /\ reviews[k].since < i
  BY DEF Overlapped
<1>2. k \in DOMAIN reviews
  BY <1>1 DEF TypeOK
<1> QED
  BY <1>1, <1>2, ReviewsStay

\* A request that finds no active review: the newest of the recommendation is
\* closed, so an active one is older, and overlapped.
LEMMA NoneFound ==
  ASSUME TypeOK, ActiveTogetherOverlapped, NEW rec, ActiveReviews(rec) = {},
         NEW i \in DOMAIN reviews, reviews[i].rec = rec, reviews[i].status # "CLOSED"
  PROVE  Overlapped(i, Len(reviews), rec)
<1> DEFINE S == {j \in DOMAIN reviews : reviews[j].rec = rec}
<1>1. Len(reviews) \in Nat /\ DOMAIN reviews = 1 .. Len(reviews)
  BY DEF TypeOK
<1>2. S \in SUBSET (0 .. Len(reviews)) /\ S # {}
  BY <1>1
<1>3. PICK m \in S : \A j \in S : j <= m
  BY <1>1, <1>2, LargestExists
<1>4. m \in DOMAIN reviews /\ reviews[m].rec = rec /\ i <= m
  BY <1>3
<1>5. reviews[m].status = "CLOSED"
  BY <1>3, <1>4 DEF ActiveReviews, Active
<1>6. i < m
  BY <1>1, <1>4, <1>5
<1>7. PICK k \in (i + 1) .. m : reviews[k].rec = rec /\ reviews[k].since < i
  BY <1>4, <1>6 DEF ActiveTogetherOverlapped
<1>8. k \in (i + 1) .. Len(reviews)
  BY <1>1, <1>4, <1>7
<1> QED
  BY <1>7, <1>8 DEF Overlapped

\* A review that is inserted comes after an active one only if it or another
\* had overlapped it.
LEMMA InsertedOverlaps ==
  ASSUME TypeOK, CallsNameRows, EventLeadsToOneReview, OverlapInv,
         BuyerInserts \/ SignalInserts,
         NEW i \in DOMAIN reviews, reviews[i].status # "CLOSED",
         reviews'[Len(reviews) + 1].rec = reviews[i].rec
  PROVE  \/ reviews'[Len(reviews) + 1].since < i
         \/ Overlapped(i, Len(reviews), reviews[i].rec)
<1>0. Len(reviews) \in Nat /\ DOMAIN reviews = 1 .. Len(reviews)
  BY DEF TypeOK
<1>1. CASE BuyerInserts
  <2>1. PICK c \in Creators :
          /\ creator[c] # NoCall /\ creator[c].step = "insert"
          /\ Adds(creator[c].rec, creator[c].key, creator[c].since)
    BY <1>1 DEF BuyerInserts
  <2>2. /\ reviews'[Len(reviews) + 1].rec = creator[c].rec
        /\ reviews'[Len(reviews) + 1].since = creator[c].since
    BY <2>1 DEF Adds
  <2>3. creator[c].since \in Nat /\ creator[c].since <= Len(reviews)
    BY <2>1 DEF TypeOK, CreateCalls, OverlapInv, CallsLooked
  <2>4. CASE creator[c].since < i
    BY <2>2, <2>4
  <2>5. CASE i <= creator[c].since
    <3>1. i \in 1 .. creator[c].since
      BY <1>0, <2>3, <2>5
    <3>2. Overlapped(i, creator[c].since, creator[c].rec)
      BY <2>1, <2>2, <3>1 DEF OverlapInv, CallsLooked
    <3>3. \A k \in (i + 1) .. creator[c].since : k \in (i + 1) .. Len(reviews)
      BY <1>0, <2>3
    <3> QED
      BY <2>2, <3>2, <3>3 DEF Overlapped
  <2> QED
    BY <1>0, <2>3, <2>4, <2>5
<1>2. CASE SignalInserts
  <2>1. PICK e \in Events : e \notin recommendations /\ Adds(e, SignalKey(e), Len(reviews))
    BY <1>2 DEF SignalInserts, ReferenceTaken
  <2>2. reviews'[Len(reviews) + 1].rec = e
    BY <2>1 DEF Adds
  <2> QED
    BY <2>1, <2>2 DEF EventLeadsToOneReview
<1> QED
  BY <1>1, <1>2

LEMMA OverlapsStay ==
  ASSUME IInv, StartInv, OverlapInv, Next
  PROVE  OverlapInv'
<1>0. /\ TypeOK /\ CallsNameRows /\ EventLeadsToOneReview
      /\ ActiveTogetherOverlapped /\ CallsLooked
      /\ Len(reviews) \in Nat /\ DOMAIN reviews = 1 .. Len(reviews)
  BY DEF IInv, TypeOK, OverlapInv
<1>1. BuyerInserts \/ BuyerAdopts \/ SignalInserts \/ WorkflowMoves \/ NoReviewMoves
  BY <1>0, RowSteps
<1>2. TypeOK'
  BY NextInv DEF IInv
<1>3. /\ DOMAIN reviews' = 1 .. Len(reviews') /\ Len(reviews') \in Nat
      /\ Len(reviews) <= Len(reviews')
      /\ \A i \in DOMAIN reviews :
           /\ i \in DOMAIN reviews'
           /\ reviews'[i].rec = reviews[i].rec
           /\ reviews'[i].since = reviews[i].since
           /\ reviews[i].status = "CLOSED" => reviews'[i].status = "CLOSED"
  BY <1>0, <1>1, <1>2, ReviewsStay DEF TypeOK
<1>4. \/ Len(reviews') = Len(reviews)
      \/ (BuyerInserts \/ SignalInserts) /\ Len(reviews') = Len(reviews) + 1
  BY <1>1 DEF BuyerInserts, BuyerAdopts, SignalInserts, WorkflowMoves, NoReviewMoves,
              Adds, Changes
<1> DEFINE Grows == BuyerInserts \/ SignalInserts
<1>a. PICK n \in Nat : n = Len(reviews) /\ DOMAIN reviews = 1 .. n
  BY <1>0
<1>b. PICK m \in Nat :
        /\ m = Len(reviews') /\ DOMAIN reviews' = 1 .. m
        /\ m = n \/ (m = n + 1 /\ Grows)
  BY <1>3, <1>4, <1>a
<1> HIDE DEF Grows
<1>5. ASSUME NEW i \in DOMAIN reviews', NEW j \in DOMAIN reviews', i < j,
             reviews'[i].rec = reviews'[j].rec, reviews'[i].status # "CLOSED"
      PROVE  \E k \in (i + 1) .. j :
               reviews'[k].rec = reviews'[i].rec /\ reviews'[k].since < i
  <2>1. /\ i \in DOMAIN reviews /\ reviews'[i].rec = reviews[i].rec
        /\ reviews[i].status # "CLOSED"
    <3>1. i \in 1 .. m /\ j \in 1 .. m
      BY <1>b
    <3>2. i \in DOMAIN reviews
      BY <1>a, <1>b, <1>5, <3>1
    <3> QED
      BY <1>3, <1>5, <3>2
  <2>2. CASE j \in DOMAIN reviews
    <3>1. Overlapped(i, j, reviews[i].rec)
      BY <1>0, <1>3, <1>5, <2>1, <2>2 DEF ActiveTogetherOverlapped, Overlapped
    <3>2. i \in Nat /\ j \in 0 .. Len(reviews)
      BY <1>0, <2>1, <2>2
    <3>3. \E k \in (i + 1) .. j : reviews'[k].rec = reviews[i].rec /\ reviews'[k].since < i
      BY <1>0, <1>1, <3>1, <3>2, OverlapStays
    <3> QED
      BY <2>1, <3>3
  <2>3. CASE j \notin DOMAIN reviews
    <3>1. j = Len(reviews) + 1 /\ (BuyerInserts \/ SignalInserts)
      <4>1. j \in 1 .. m /\ ~(j \in 1 .. n)
        BY <1>a, <1>b, <2>3
      <4>2. j = n + 1 /\ Grows
        BY <1>b, <4>1
      <4> QED
        BY <1>a, <4>2 DEF Grows
    <3>2. reviews'[j].since < i \/ Overlapped(i, Len(reviews), reviews[i].rec)
      BY <1>0, <1>5, <2>1, <3>1, InsertedOverlaps DEF OverlapInv
    <3>3. CASE reviews'[j].since < i
      <4>1. j \in (i + 1) .. j
        BY <1>3, <1>5
      <4> QED
        BY <1>5, <3>3, <4>1
    <3>4. CASE Overlapped(i, Len(reviews), reviews[i].rec)
      <4>1. PICK k \in (i + 1) .. Len(reviews) :
              reviews'[k].rec = reviews[i].rec /\ reviews'[k].since < i
        BY <1>0, <1>1, <2>1, <3>4, OverlapStays
      <4>2. k \in (i + 1) .. j
        BY <1>0, <2>1, <3>1, <4>1
      <4> QED
        BY <2>1, <4>1, <4>2
    <3> QED
      BY <3>2, <3>3, <3>4
  <2> QED
    BY <2>2, <2>3
<1>6. ASSUME NEW c \in Creators, creator'[c] # NoCall, creator'[c].step = "insert"
      PROVE  /\ creator'[c].since <= Len(reviews')
             /\ \A i \in 1 .. creator'[c].since :
                  reviews'[i].rec = creator'[c].rec /\ reviews'[i].status # "CLOSED"
                    => \E k \in (i + 1) .. creator'[c].since :
                         reviews'[k].rec = creator'[c].rec /\ reviews'[k].since < i
  <2> DEFINE Looked(upTo, rec) ==
               /\ upTo \in 0 .. Len(reviews)
               /\ \A i \in 1 .. upTo :
                    reviews[i].rec = rec /\ reviews[i].status # "CLOSED"
                      => Overlapped(i, upTo, rec)
  <2>1. PICK upTo, rec : upTo = creator'[c].since /\ rec = creator'[c].rec
    OBVIOUS
  <2>2. ASSUME creator'[c] = creator[c] PROVE Looked(upTo, rec)
    <3>1. upTo \in Nat
      BY <1>0, <1>6, <2>1, <2>2 DEF TypeOK, CreateCalls
    <3> QED
      BY <1>0, <1>6, <2>1, <2>2, <3>1 DEF CallsLooked
  <2>3. ASSUME /\ creator'[c].since = Len(reviews) /\ creator'[c].rec = creator[c].rec
               /\ ActiveReviews(creator[c].rec) = {}
        PROVE  Looked(upTo, rec)
    <3>1. upTo = Len(reviews) /\ ActiveReviews(rec) = {}
      BY <2>1, <2>3
    <3> QED
      BY <1>0, <3>1, NoneFound
  <2>4. Looked(upTo, rec)
    BY <1>0, <1>6, <2>2, <2>3, CallSteps
  <2>5. ASSUME NEW i \in 1 .. upTo, reviews'[i].rec = rec, reviews'[i].status # "CLOSED"
        PROVE  \E k \in (i + 1) .. upTo : reviews'[k].rec = rec /\ reviews'[k].since < i
    <3>1. i \in DOMAIN reviews
      BY <1>0, <2>4
    <3>2. reviews[i].rec = rec /\ reviews[i].status # "CLOSED"
      BY <1>3, <2>5, <3>1
    <3>3. Overlapped(i, upTo, rec)
      BY <2>4, <3>2
    <3> QED
      BY <1>0, <1>1, <2>4, <3>3, OverlapStays
  <2>6. upTo <= Len(reviews')
    BY <1>0, <1>3, <2>4
  <2> QED
    BY <2>1, <2>5, <2>6
<1> QED
  BY <1>5, <1>6 DEF OverlapInv, ActiveTogetherOverlapped, CallsLooked, Overlapped

-----------------------------------------------------------------------------
(***************************************************************************)
(* The invariant                                                           *)
(***************************************************************************)
RequestInv == StartInv /\ KeyInv /\ OverlapInv

LEMMA RequestInit == Init => RequestInv
<1> SUFFICES ASSUME Init PROVE RequestInv
  OBVIOUS
<1>1. /\ reviews = <<>> /\ scheduled = {} /\ stranded = {} /\ answers = {}
      /\ \A c \in Creators : creator[c] = NoCall
  BY DEF Init
<1>2. StartInv
  BY <1>1 DEF StartInv, StartsAreScheduled
<1>3. KeyInv
  BY <1>1 DEF KeyInv, AdoptsSawNone, KeysAreUnique, AnswersHold
<1>4. OverlapInv
  BY <1>1 DEF OverlapInv, ActiveTogetherOverlapped, CallsLooked
<1> QED
  BY <1>2, <1>3, <1>4 DEF RequestInv

LEMMA RequestNext == IInv /\ RequestInv /\ [Next]_vars => RequestInv'
<1> SUFFICES ASSUME IInv, RequestInv, [Next]_vars PROVE RequestInv'
  OBVIOUS
<1>1. ASSUME Next PROVE RequestInv'
  <2>0. TypeOK /\ CallsNameRows /\ StartInv /\ KeyInv /\ OverlapInv /\ AdoptsSawNone
    BY DEF IInv, RequestInv, KeyInv
  <2>1. BuyerInserts \/ BuyerAdopts \/ SignalInserts \/ WorkflowMoves \/ NoReviewMoves
    BY <1>1, <2>0, RowSteps
  <2>2. StartInv'
    BY <2>0, <2>1, StartsStay
  <2>3. KeyInv'
    BY <1>1, <2>0, <2>1, KeysStay, AdoptsStay DEF KeyInv
  <2>4. OverlapInv'
    BY <1>1, <2>0, OverlapsStay
  <2> QED
    BY <2>2, <2>3, <2>4 DEF RequestInv
<1>2. ASSUME UNCHANGED vars PROVE RequestInv'
  BY <1>2 DEF vars, rows, RequestInv, StartInv, StartsAreScheduled, KeyInv,
              AdoptsSawNone, KeysAreUnique, AnswersHold, OverlapInv,
              ActiveTogetherOverlapped, CallsLooked, Overlapped
<1> QED
  BY <1>1, <1>2

THEOREM RequestInvariance == Spec => []RequestInv
  BY Invariance, RequestInit, RequestNext, PTL DEF Spec

\* However requests overlap, a review comes after one that is not closed only
\* where a request had looked for one before that one was there.
THEOREM ActiveTogether == Spec => []ActiveTogetherOverlapped
<1>1. RequestInv => ActiveTogetherOverlapped
  BY DEF RequestInv, OverlapInv
<1> QED
  BY <1>1, RequestInvariance, PTL

\* A key is answered with one review, whenever it is sent again, unless an
\* overlapping request put another key in its place.
THEOREM KeyIsIdempotent == Spec => []KeyNamesOneReview
<1>1. IInv /\ RequestInv => KeyNamesOneReview
  <2> SUFFICES ASSUME IInv, RequestInv PROVE KeyNamesOneReview
    OBVIOUS
  <2>1. \A a \in answers : a = <<a[1], a[2]>> /\ a[1] # NoKey
    BY IntakeAssumption DEF IInv, TypeOK
  <2> QED
    BY <2>1 DEF RequestInv, KeyInv, KeysAreUnique, AnswersHold, KeyNamesOneReview
<1> QED
  BY <1>1, Invariance, RequestInvariance, PTL

\* A review that is not started waits for its start, or a crash has lost it.
THEOREM NoStartForgotten == Spec => []StartsAreScheduled
<1>1. RequestInv => StartsAreScheduled
  BY DEF RequestInv, StartInv
<1> QED
  BY <1>1, RequestInvariance, PTL
=============================================================================
