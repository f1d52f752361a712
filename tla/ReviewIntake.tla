---------------------------- MODULE ReviewIntake ----------------------------
(***************************************************************************)
(* How reviews come into being (create_review and mock_demand_signals in   *)
(* api/routes.py, evaluate_demand_signal in application/demand.py).        *)
(*                                                                         *)
(* A buyer opens a review of a recommendation, with or without an          *)
(* idempotency key; a demand signal makes a recommendation and its review. *)
(* The database gives each SELECT its own view and takes the write lock at *)
(* the first write, so a request's reads may be stale when it commits:     *)
(* every read another request can outdate is a step of its own.            *)
(***************************************************************************)
EXTENDS DemandSpike, Sequences

CONSTANTS
  Planned,      \* recommendations of the planner
  Events,       \* external_event_id of demand signals; also names their rows
  BuyerKeys,    \* values of the Idempotency-Key header
  NoKey,        \* the header is missing, or the column is null
  Creators,     \* slots for create_review requests
  Receivers,    \* slots for demand signal requests
  NoCall,       \* the slot is free
  Observed,     \* the observation each event reports
  Window,       \* the row its observation is kept in
  NoSales,      \* there is no such row yet
  AllFacts,     \* the states of the facts
  MaxReviews,   \* bound on the reviews of a behaviour
  MayCrash

SignalKey(e) == <<"demand-signal", e>>
Recommendations == Planned \cup Events
Keys == BuyerKeys \cup {SignalKey(e) : e \in Events} \cup {NoKey}
Windows == {Window[e] : e \in Events}

CreateCalls ==
  [step : {"check", "adopt", "insert"}, rec : Recommendations,
   key : BuyerKeys \cup {NoKey}, review : 0 .. MaxReviews,
   seen : Keys,            \* history: the key it has read
   since : 0 .. MaxReviews \* history: the reviews there were when it looked
  ]
SignalCalls ==
  [step : {"find", "write", "record"}, event : Events, found : BOOLEAN,
   known : BOOLEAN, verdict : Verdicts]
Review ==
  [rec : Recommendations, key : Keys, status : {"CREATED", "ACTIVE", "CLOSED"},
   since : 0 .. MaxReviews]

ASSUME IntakeAssumption ==
  /\ Planned \cap Events = {}
  /\ NoKey \notin BuyerKeys
  /\ \A e \in Events : SignalKey(e) \notin BuyerKeys \cup {NoKey}
  /\ NoCall \notin CreateCalls \cup SignalCalls
  /\ Observed \in [Events -> Observation]
  /\ DOMAIN Window = Events
  /\ NoSales \notin Nat
  /\ AllFacts \subseteq DemandFacts
  /\ MaxReviews \in Nat
  /\ MayCrash \in BOOLEAN

VARIABLES
  recommendations, \* rows, by source_reference
  reviews,         \* rows, in the order of created_at
  signals,         \* demand_signals rows, by external_event_id
  sales,           \* units_sold of the sales_observations rows
  facts,           \* what demand is judged against
  scheduled,       \* reviews whose workflow.start is a background task
  creator,         \* create_review requests between their reads and commit
  receiver,        \* demand signal requests, likewise
  answers,         \* history: review answered to a request with a key
  overwritten,     \* history: reviews whose key was replaced unseen
  stranded         \* history: reviews whose start a crash has lost

rows == <<recommendations, reviews, signals, sales>>
vars ==
  <<rows, facts, scheduled, creator, receiver, answers, overwritten, stranded>>

Init ==
  /\ recommendations = Planned
  /\ reviews = <<>>
  /\ signals = {}
  /\ sales = [w \in Windows |-> NoSales]
  /\ facts \in AllFacts
  /\ scheduled = {}
  /\ creator = [c \in Creators |-> NoCall]
  /\ receiver = [r \in Receivers |-> NoCall]
  /\ answers = {}
  /\ overwritten = {}
  /\ stranded = {}

HasKey(k) == \E i \in DOMAIN reviews : reviews[i].key = k
\* Variant: a review is active from its first step on.
ActiveWhenStarted(i) == reviews[i].status = "ACTIVE"
Active(i) == reviews[i].status # "CLOSED"

\* The newest review of a recommendation, if it is active.
ActiveReviews(rec) ==
  {i \in DOMAIN reviews :
     /\ reviews[i].rec = rec
     /\ \A j \in DOMAIN reviews : reviews[j].rec = rec => j <= i
     /\ Active(i)}

Answered(key, i) == IF key = NoKey THEN answers ELSE answers \cup {<<key, i>>}

\* Variant: the number is taken one too high.
LaunchNext(i) == scheduled' = scheduled \cup {i + 1}
\* Variant: a task takes the place of one that waits.
LaunchOnly(i) == scheduled' = {i}

\* add_task after the commit: the task waits in this process.
Launch(i) == scheduled' = scheduled \cup {i}

NewReview(rec, key, since) ==
  [rec |-> rec, key |-> key, status |-> "CREATED", since |-> since]

----------------------------------------------------------------------------
(***************************************************************************)
(* create_review                                                           *)
(***************************************************************************)
\* A key that is known for the recommendation: its review is the answer.  (A
\* key known for another recommendation is refused, and changes nothing.)
Replay(rec, key) ==
  \E i \in DOMAIN reviews :
    /\ reviews[i].key = key /\ reviews[i].rec = rec
    /\ answers' = Answered(key, i)
    /\ UNCHANGED <<rows, facts, scheduled, creator, receiver, overwritten,
                   stranded>>

RequestReview(c, rec, key) ==
  /\ creator[c] = NoCall
  /\ rec \in recommendations
  /\ key # NoKey => ~HasKey(key)
  /\ creator' = [creator EXCEPT ![c] =
       [step |-> "check", rec |-> rec, key |-> key, review |-> 0,
        seen |-> NoKey, since |-> 0]]
  /\ UNCHANGED <<rows, facts, scheduled, receiver, answers, overwritten, stranded>>

FindNone(c) ==
  /\ creator[c] # NoCall /\ creator[c].step = "check"
  /\ ActiveReviews(creator[c].rec) = {}
  /\ creator' = [creator EXCEPT ![c] =
       [@ EXCEPT !.step = "insert", !.since = Len(reviews)]]
  /\ UNCHANGED <<rows, facts, scheduled, receiver, answers, overwritten, stranded>>

\* Variant: a review takes every new key.
AdoptableAlways(i, key) == key # NoKey
Adoptable(i, key) == key # NoKey /\ reviews[i].key = NoKey
Refused(i, key) == key # NoKey /\ reviews[i].key \notin {NoKey, key}

\* An active review is found: it takes the request's key in a second step,
\* refuses another key, or is the answer.
FindActive(c) ==
  /\ creator[c] # NoCall /\ creator[c].step = "check"
  /\ \E i \in ActiveReviews(creator[c].rec) :
       LET key == creator[c].key IN
       IF Adoptable(i, key)
         THEN /\ creator' = [creator EXCEPT ![c] =
                   [@ EXCEPT !.step = "adopt", !.review = i,
                             !.seen = reviews[i].key]]
              /\ UNCHANGED answers
         ELSE /\ creator' = [creator EXCEPT ![c] = NoCall]
              /\ answers' = IF Refused(i, key) THEN answers ELSE Answered(key, i)
  /\ UNCHANGED <<rows, facts, scheduled, receiver, overwritten, stranded>>

\* The update names the row only, whatever its key has become; the unique
\* constraint refuses a key of another row, and the request fails.
AdoptKey(c) ==
  /\ creator[c] # NoCall /\ creator[c].step = "adopt"
  /\ LET i == creator[c].review
         key == creator[c].key
     IN IF \E j \in DOMAIN reviews \ {i} : reviews[j].key = key
          THEN UNCHANGED <<reviews, answers, overwritten>>
          ELSE /\ reviews' = [reviews EXCEPT ![i] = [@ EXCEPT !.key = key]]
               /\ answers' = Answered(key, i)
               /\ overwritten' =
                    IF reviews[i].key \in {key, creator[c].seen}
                      THEN overwritten ELSE overwritten \cup {i}
  /\ creator' = [creator EXCEPT ![c] = NoCall]
  /\ UNCHANGED <<recommendations, signals, sales, facts, scheduled, receiver,
                 stranded>>

KeyTaken(key) == key # NoKey /\ HasKey(key)

InsertReview(c) ==
  /\ creator[c] # NoCall /\ creator[c].step = "insert"
  /\ Len(reviews) < MaxReviews
  /\ LET key == creator[c].key IN
     IF KeyTaken(key)
       THEN UNCHANGED <<reviews, scheduled, answers>>
       ELSE /\ reviews' = Append(reviews, NewReview(creator[c].rec, key, creator[c].since))
            /\ Launch(Len(reviews) + 1)
            /\ answers' = Answered(key, Len(reviews) + 1)
  /\ creator' = [creator EXCEPT ![c] = NoCall]
  /\ UNCHANGED <<recommendations, signals, sales, facts, receiver, overwritten,
                 stranded>>

----------------------------------------------------------------------------
(***************************************************************************)
(* Demand signals                                                          *)
(***************************************************************************)
\* A recorded event is answered DUPLICATE_IGNORED, and changes nothing.
ReceiveSignal(r, e) ==
  /\ receiver[r] = NoCall
  /\ e \notin signals
  /\ receiver' = [receiver EXCEPT ![r] =
       [step |-> "find", event |-> e, found |-> FALSE,
        known |-> FALSE, verdict |-> "NO_SPIKE"]]
  /\ UNCHANGED <<rows, facts, scheduled, creator, answers, overwritten, stranded>>

\* Whether the window has its row already.
FindSales(r) ==
  /\ receiver[r] # NoCall /\ receiver[r].step = "find"
  /\ receiver' = [receiver EXCEPT ![r] =
       [@ EXCEPT !.step = "write",
                 !.found = sales[Window[receiver[r].event]] # NoSales]]
  /\ UNCHANGED <<rows, facts, scheduled, creator, answers, overwritten, stranded>>

\* Variant: neither column is unique.
ReferenceNeverTaken(e) == FALSE

\* source_reference and the review's key are both made from the event.
ReferenceTaken(e) == e \in recommendations \/ HasKey(SignalKey(e))

\* The rows of an evaluated signal.  Without an active supplier the
\* recommendation's supplier is null, which the schema refuses.
CanSave(e, verdict) ==
  verdict = "NO_SPIKE" \/ (facts.supplier /\ ~ReferenceTaken(e))

Save(e, verdict) ==
  /\ signals' = signals \cup {e}
  /\ IF verdict = "NO_SPIKE"
       THEN UNCHANGED <<recommendations, reviews, scheduled>>
       ELSE /\ recommendations' = recommendations \cup {e}
            /\ reviews' = Append(reviews, NewReview(e, SignalKey(e), Len(reviews)))
            /\ Launch(Len(reviews) + 1)

\* An exception ends the request, and its transaction with it.
RollBack == UNCHANGED <<rows, scheduled>>

\* The observation is written first: from there to the commit the request
\* holds the write lock, and what it reads is what it commits on.
WriteSignal(r) ==
  /\ receiver[r] # NoCall /\ receiver[r].step = "write"
  /\ Len(reviews) < MaxReviews
  /\ LET e == receiver[r].event
         verdict == Verdict(Observed[e], facts)
         rowTaken == ~receiver[r].found /\ sales[Window[e]] # NoSales
     IN IF ~rowTaken /\ CanSave(e, verdict)
          THEN /\ sales' = [sales EXCEPT ![Window[e]] = Observed[e].units]
               /\ Save(e, verdict)
          ELSE RollBack
  /\ receiver' = [receiver EXCEPT ![r] = NoCall]
  /\ UNCHANGED <<facts, creator, answers, overwritten, stranded>>

\* The row holds these values already, so no update is sent and no lock is
\* taken: the signal is evaluated, and looked for again, before it is.
Evaluate(r) ==
  /\ receiver[r] # NoCall /\ receiver[r].step = "write"
  /\ receiver[r].found
  /\ LET e == receiver[r].event IN
     /\ sales[Window[e]] = Observed[e].units
     /\ receiver' = [receiver EXCEPT ![r] =
          [@ EXCEPT !.step = "record", !.known = e \in signals,
                    !.verdict = Verdict(Observed[e], facts)]]
  /\ UNCHANGED <<rows, facts, scheduled, creator, answers, overwritten, stranded>>

RecordSignal(r) ==
  /\ receiver[r] # NoCall /\ receiver[r].step = "record"
  /\ Len(reviews) < MaxReviews
  /\ LET e == receiver[r].event
         signalTaken == ~receiver[r].known /\ e \in signals
     IN IF ~signalTaken /\ CanSave(e, receiver[r].verdict)
          THEN Save(e, receiver[r].verdict) /\ UNCHANGED sales
          ELSE RollBack
  /\ receiver' = [receiver EXCEPT ![r] = NoCall]
  /\ UNCHANGED <<facts, creator, answers, overwritten, stranded>>

----------------------------------------------------------------------------
(***************************************************************************)
(* The workflow, as far as intake sees it, and the environment             *)
(***************************************************************************)
SetStatus(i, status) ==
  reviews' = [reviews EXCEPT ![i] = [@ EXCEPT !.status = status]]

StartReview(i) ==
  /\ i \in scheduled
  /\ scheduled' = scheduled \ {i}
  /\ SetStatus(i, "ACTIVE")
  /\ UNCHANGED <<recommendations, signals, sales, facts, creator, receiver,
                 answers, overwritten, stranded>>

CloseReview(i) ==
  /\ reviews[i].status = "ACTIVE"
  /\ SetStatus(i, "CLOSED")
  /\ UNCHANGED <<recommendations, signals, sales, facts, scheduled, creator,
                 receiver, answers, overwritten, stranded>>

FactsChange ==
  /\ facts' \in AllFacts \ {facts}
  /\ UNCHANGED <<rows, scheduled, creator, receiver, answers, overwritten, stranded>>

\* Requests in flight and background tasks are lost, rows stay.
Crash ==
  /\ MayCrash
  /\ creator' = [c \in Creators |-> NoCall]
  /\ receiver' = [r \in Receivers |-> NoCall]
  /\ scheduled' = {}
  /\ stranded' = stranded \cup scheduled
  /\ UNCHANGED <<rows, facts, answers, overwritten>>

Next ==
  \/ \E rec \in Recommendations, key \in BuyerKeys : Replay(rec, key)
  \/ \E c \in Creators :
       \/ \E rec \in Recommendations, key \in BuyerKeys \cup {NoKey} :
            RequestReview(c, rec, key)
       \/ FindNone(c) \/ FindActive(c) \/ AdoptKey(c) \/ InsertReview(c)
  \/ \E r \in Receivers :
       \/ \E e \in Events : ReceiveSignal(r, e)
       \/ FindSales(r) \/ WriteSignal(r) \/ Evaluate(r) \/ RecordSignal(r)
  \/ \E i \in DOMAIN reviews : StartReview(i) \/ CloseReview(i)
  \/ FactsChange
  \/ Crash

Spec == Init /\ [][Next]_vars

----------------------------------------------------------------------------
TypeOK ==
  /\ recommendations \subseteq Recommendations
  /\ reviews \in Seq(Review) /\ Len(reviews) <= MaxReviews
  /\ signals \subseteq Events
  /\ sales \in [Windows -> Nat \cup {NoSales}]
  /\ facts \in AllFacts
  /\ scheduled \subseteq DOMAIN reviews
  /\ creator \in [Creators -> CreateCalls \cup {NoCall}]
  /\ receiver \in [Receivers -> SignalCalls \cup {NoCall}]
  /\ answers \subseteq BuyerKeys \X (1 .. MaxReviews)
  /\ overwritten \subseteq DOMAIN reviews
  /\ stranded \subseteq DOMAIN reviews

\* A recommendation has at most one review that is not closed
\* (ACTIVE_REVIEW_EXISTS in create_review).
OneActiveReview ==
  \A i, j \in DOMAIN reviews :
    /\ reviews[i].rec = reviews[j].rec
    /\ reviews[i].status # "CLOSED" /\ reviews[j].status # "CLOSED"
    => i = j

\* While a review is not closed, another of its recommendation comes after it
\* only where a request found none active before the review was there: what
\* create_review's two steps allow, and no more.
ActiveTogetherOverlapped ==
  \A i, j \in DOMAIN reviews :
    /\ i < j /\ reviews[i].rec = reviews[j].rec
    /\ reviews[i].status # "CLOSED"
    => \E k \in (i + 1) .. j :
         reviews[k].rec = reviews[i].rec /\ reviews[k].since < i

\* An idempotency key is answered with one review, whenever it is sent again,
\* and that review carries it, unless an overlapping request, which had read
\* the review without a key, put its own there (create_review).
KeyNamesOneReview ==
  \A a \in answers :
    /\ a[2] \in DOMAIN reviews
    /\ a[2] \notin overwritten =>
         /\ reviews[a[2]].key = a[1]
         /\ \A b \in answers :
              a[1] = b[1] /\ b[2] \notin overwritten => a = b

\* However often an event is delivered, and by however many requests at once,
\* its recommendation is there exactly with its signal row and one review of
\* the signal (mock_demand_signals).
EventLeadsToOneReview ==
  \A e \in Events :
    LET ofSignal == {i \in DOMAIN reviews : reviews[i].key = SignalKey(e)} IN
    IF e \in recommendations
      THEN /\ e \in signals
           /\ \E i \in ofSignal : reviews[i].rec = e /\ ofSignal = {i}
      ELSE \A i \in DOMAIN reviews : reviews[i].rec # e

\* Whatever the facts have become, each event is judged exactly
\* (evaluate_demand_spike).
QualificationIsExact == \A e \in Events : ExactFor(Observed[e], facts)

\* A review that is not started waits for its start in this process, or a
\* crash has lost it: no start is forgotten, and none is left over for a
\* review that runs (create_review and mock_demand_signals, after the commit).
StartsAreScheduled ==
  \A i \in DOMAIN reviews :
    reviews[i].status = "CREATED" <=> i \in scheduled \cup stranded

=============================================================================
