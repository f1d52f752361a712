-------------------- MODULE SupplierConfirmations_proofs --------------------
(***************************************************************************)
(* Proofs about SupplierConfirmations, however requests overlap.           *)
(***************************************************************************)
EXTENDS SupplierConfirmations, FiniteSetTheorems, TLAPS

\* The quantity of a request in flight was acceptable when it was read.
CallsAreAcceptable ==
  \A h \in Handlers : handler[h] # NoEvent =>
    /\ handler[h].quantity <= ordered[handler[h].po]
    /\ ordered[handler[h].po] > 0

\* A follow-up belongs to an event that was taken.
FollowUpsHaveEvents ==
  \A e \in Events : followups[e] # "NONE" => events[e] # NoEvent

\* The core of the invariant.
OverlapInv == TypeOK /\ CallsAreAcceptable /\ FollowUpsHaveEvents /\ PartialIsFollowedUp

USE DEF history

\* What FollowUp may answer.
LEMMA FollowUpType ==
  ASSUME NEW call, NEW conf, NEW complete
  PROVE  FollowUp(call, conf, complete) \in {"CREATED", "ACCEPTED", "ESCALATED"}
  BY DEF FollowUp

-----------------------------------------------------------------------------
(***************************************************************************)
(* However requests overlap.                                               *)
(***************************************************************************)

\* The initial state satisfies the invariant.
LEMMA InitOverlap == Init => OverlapInv
<1> SUFFICES ASSUME Init PROVE OverlapInv
  OBVIOUS
<1> USE ConfirmationAssumption DEF Init
<1>1. PICK q \in Quantities \ {0} : ordered = [p \in POs |-> IF p = 1 THEN q ELSE 0]
  OBVIOUS
<1>2. \A p \in POs : confirmed[p] <= ordered[p]
  BY <1>1 DEF Quantities
<1>3. TypeOK
  BY <1>1, <1>2 DEF TypeOK, FollowUps, Started, Quantities
<1>4. CallsAreAcceptable
  BY DEF CallsAreAcceptable
<1>5. PartialIsFollowedUp /\ FollowUpsHaveEvents
  BY DEF PartialIsFollowedUp, FollowUpsHaveEvents
<1> QED
  BY <1>3, <1>4, <1>5 DEF OverlapInv

\* The outcomes of a commit that takes its event.
Ignored(h) ==
  /\ handler[h].quantity = handler[h].confirmed
  /\ UNCHANGED <<confirmed, attempts, followups, lost, overtaken>>

Confirms(h) ==
  LET call == handler[h] IN
  /\ call.quantity # call.confirmed
  /\ confirmed' = [confirmed EXCEPT ![call.po] = call.quantity]
  /\ overtaken' = IF Overtakes(call) THEN overtaken \cup {call.po} ELSE overtaken
  /\ \/ /\ call.quantity = ordered[call.po]
        /\ UNCHANGED <<attempts, followups, lost>>
     \/ \E outcome \in {"CREATED", "ACCEPTED", "ESCALATED"} :
          /\ call.quantity # ordered[call.po]
          /\ outcome = "CREATED" => ~LimitReached(call)
          /\ followups' = [followups EXCEPT ![call.event] = outcome]
          /\ IF outcome = "ESCALATED"
               THEN UNCHANGED <<attempts, lost>>
               ELSE /\ attempts' = [attempts EXCEPT ![call.po] = call.attempts + 1]
                    /\ lost' = [lost EXCEPT ![call.po] = @ + Uncounted(call)]

\* What a commit does, whichever of its outcomes it has.
LEMMA CommitEffect ==
  ASSUME TypeOK, CallsAreAcceptable, NEW h \in Handlers, Commit(h)
  PROVE  /\ handler[h] \in Call
         /\ handler' = [handler EXCEPT ![h] = NoEvent]
         /\ UNCHANGED <<ordered, overdue, alternate>>
         /\ \/ UNCHANGED <<confirmed, attempts, events, followups, lost, overtaken>>
            \/ /\ events[handler[h].event] = NoEvent
               /\ events' = [events EXCEPT ![handler[h].event] =
                               [po |-> handler[h].po, quantity |-> handler[h].quantity]]
               /\ Ignored(h) \/ Confirms(h)
<1> DEFINE call == handler[h]
<1>1. call \in Call
  BY DEF TypeOK, Commit
<1>2. handler' = [handler EXCEPT ![h] = NoEvent] /\ UNCHANGED <<ordered, overdue, alternate>>
  BY DEF Commit
<1>3. CASE EventTaken(call.event)
  BY <1>1, <1>2, <1>3 DEF Commit
<1>4. CASE ~EventTaken(call.event)
  <2>1. events[call.event] = NoEvent
    BY <1>4 DEF EventTaken
  <2>2. events' = [events EXCEPT ![call.event] = [po |-> call.po, quantity |-> call.quantity]]
    BY <1>4 DEF Commit
  <2>3. CASE call.quantity = call.confirmed
    BY <1>1, <1>2, <1>4, <2>1, <2>2, <2>3 DEF Commit, Ignored
  <2>4. CASE call.quantity # call.confirmed /\ call.quantity = ordered[call.po]
    <3>1. Confirms(h)
      BY <1>4, <2>4 DEF Commit, Confirms
    <3> QED
      BY <1>1, <1>2, <2>1, <2>2, <3>1
  <2>5. CASE call.quantity # call.confirmed /\ call.quantity # ordered[call.po]
    <3>1. PICK complete \in BOOLEAN :
            followups' = [followups EXCEPT ![call.event] = FollowUp(call, confirmed', complete)]
      BY <1>4, <2>5 DEF Commit
    <3> DEFINE outcome == FollowUp(call, confirmed', complete)
    <3>2. outcome \in {"CREATED", "ACCEPTED", "ESCALATED"}
      BY FollowUpType
    <3>3. followups'[call.event] = outcome
      BY <1>1, <3>1 DEF TypeOK, Call
    <3>4. outcome = "CREATED" => ~LimitReached(call)
      BY DEF FollowUp
    <3>5. /\ confirmed' = [confirmed EXCEPT ![call.po] = call.quantity]
          /\ overtaken' = IF Overtakes(call) THEN overtaken \cup {call.po} ELSE overtaken
      BY <1>4, <2>5 DEF Commit
    <3>6. IF outcome = "ESCALATED"
            THEN UNCHANGED <<attempts, lost>>
            ELSE /\ attempts' = [attempts EXCEPT ![call.po] = call.attempts + 1]
                 /\ lost' = [lost EXCEPT ![call.po] = @ + Uncounted(call)]
      BY <1>4, <2>5, <3>3 DEF Commit
    <3>7. followups' = [followups EXCEPT ![call.event] = outcome]
      BY <3>1
    <3> HIDE DEF outcome
    <3>8. Confirms(h)
      BY <2>5, <3>2, <3>4, <3>5, <3>6, <3>7 DEF Confirms
    <3> QED
      BY <1>1, <1>2, <2>1, <2>2, <3>8
  <2> QED
    BY <2>3, <2>4, <2>5
<1> QED
  BY <1>3, <1>4

\* Every action preserves the type invariant and CallsAreAcceptable.
LEMMA NextType ==
  ASSUME TypeOK, CallsAreAcceptable, [Next]_vars
  PROVE  TypeOK' /\ CallsAreAcceptable'
<1> USE ConfirmationAssumption
<1>1. ASSUME NEW h \in Handlers, Receive(h) PROVE TypeOK' /\ CallsAreAcceptable'
  <2>1. PICK e \in Events, p \in POs, q \in Quantities :
          /\ ordered[p] > 0
          /\ Acceptable(p, q)
          /\ handler' = [handler EXCEPT ![h] =
               [event |-> e, po |-> p, quantity |-> q, confirmed |-> confirmed[p],
                attempts |-> attempts[p]]]
    BY <1>1 DEF Receive
  <2>2. UNCHANGED <<ordered, confirmed, attempts, overdue, events, followups, alternate,
                    lost, overtaken>>
    BY <1>1 DEF Receive, orders
  <2>3. TypeOK'
    BY <2>1, <2>2 DEF TypeOK, Call
  <2>4. CallsAreAcceptable'
    BY <2>1, <2>2, NoEventAssumption DEF TypeOK, CallsAreAcceptable, Acceptable
  <2> QED
    BY <2>3, <2>4
<1>2. ASSUME NEW h \in Handlers, Commit(h) PROVE TypeOK' /\ CallsAreAcceptable'
  <2> DEFINE call == handler[h]
  <2>1. /\ call \in Call
        /\ handler' = [handler EXCEPT ![h] = NoEvent]
        /\ UNCHANGED <<ordered, overdue, alternate>>
        /\ \/ UNCHANGED <<confirmed, attempts, events, followups, lost, overtaken>>
           \/ /\ events[call.event] = NoEvent
              /\ events' = [events EXCEPT ![call.event] =
                              [po |-> call.po, quantity |-> call.quantity]]
              /\ Ignored(h) \/ Confirms(h)
    BY <1>2, CommitEffect
  <2>2. CallsAreAcceptable'
    BY <2>1, NoEventAssumption DEF TypeOK, CallsAreAcceptable
  <2>3. events' \in [Events -> Report \cup {NoEvent}]
    BY <2>1 DEF TypeOK, Call, Report
  <2>4. call.quantity <= ordered[call.po]
    BY <2>1, <1>2, NoEventAssumption DEF CallsAreAcceptable
  <2>5. /\ confirmed' \in [POs -> Quantities]
        /\ \A p \in POs : confirmed'[p] <= ordered'[p]
        /\ attempts' \in [POs -> Nat]
        /\ followups' \in [Events -> FollowUps]
    BY <2>1, <2>4 DEF TypeOK, Call, Ignored, Confirms, FollowUps, Started
  <2>6. Uncounted(call) \in Nat
    BY <2>1 DEF TypeOK, Call, Uncounted
  <2>7. lost' \in [POs -> Nat] /\ overtaken' \in SUBSET POs
    BY <2>1, <2>6 DEF TypeOK, Call, Ignored, Confirms
  <2> QED
    BY <2>1, <2>2, <2>3, <2>5, <2>7 DEF TypeOK
<1>3. ASSUME NEW e \in Events, PlaceReplacement(e) PROVE TypeOK' /\ CallsAreAcceptable'
  <2>1. PICK p \in POs, q \in Quantities \ {0} :
          ordered[p] = 0 /\ ordered' = [ordered EXCEPT ![p] = q]
    BY <1>3 DEF PlaceReplacement
  <2>2. /\ UNCHANGED <<confirmed, attempts, overdue, events, alternate, handler, lost, overtaken>>
        /\ followups' = [followups EXCEPT ![e] = "ORDERED"]
    BY <1>3 DEF PlaceReplacement
  <2>3. \A o \in POs : ordered'[o] >= ordered[o] /\ ordered'[o] \in Quantities
    BY <2>1 DEF TypeOK, Quantities
  <2>4. TypeOK'
    BY <2>1, <2>2, <2>3 DEF TypeOK, FollowUps, Started, Quantities
  <2>5. CallsAreAcceptable'
    <3> SUFFICES ASSUME NEW h \in Handlers, handler[h] # NoEvent
                 PROVE  /\ handler[h].quantity <= ordered'[handler[h].po]
                        /\ ordered'[handler[h].po] > 0
      BY <2>2 DEF CallsAreAcceptable
    <3>1. handler[h] \in Call
      BY DEF TypeOK
    <3>2. handler[h].po # p
      BY <2>1 DEF CallsAreAcceptable
    <3> QED
      BY <2>1, <3>1, <3>2 DEF CallsAreAcceptable, TypeOK, Call
  <2> QED
    BY <2>4, <2>5
<1>4. ASSUME NEW e \in Events, CloseFollowUp(e) PROVE TypeOK' /\ CallsAreAcceptable'
  BY <1>4 DEF CloseFollowUp, orders, TypeOK, CallsAreAcceptable, FollowUps, Started
<1>5. ASSUME NEW p \in POs, BecomeOverdue(p) PROVE TypeOK' /\ CallsAreAcceptable'
  BY <1>5 DEF BecomeOverdue, orders, TypeOK, CallsAreAcceptable
<1>6. CASE SuppliersChange
  BY <1>6 DEF SuppliersChange, orders, TypeOK, CallsAreAcceptable
<1>7. CASE UNCHANGED vars
  BY <1>7 DEF vars, orders, TypeOK, CallsAreAcceptable
<1> QED
  BY <1>1, <1>2, <1>3, <1>4, <1>5, <1>6, <1>7 DEF Next

\* A commit takes an event that has no row, and nothing else touches events.
LEMMA EventsStep ==
  ASSUME TypeOK, CallsAreAcceptable, [Next]_vars, NEW e \in Events, events[e] # NoEvent
  PROVE  /\ events'[e] = events[e]
         /\ followups'[e] # followups[e] =>
              followups[e] = "CREATED" /\ followups'[e] \in {"ORDERED", "CLOSED"}
<1>1. ASSUME NEW h \in Handlers, Commit(h)
      PROVE  events'[e] = events[e] /\ followups'[e] = followups[e]
  <2>1. /\ handler[h] \in Call
        /\ \/ UNCHANGED <<confirmed, attempts, events, followups, lost, overtaken>>
           \/ /\ events[handler[h].event] = NoEvent
              /\ events' = [events EXCEPT ![handler[h].event] =
                              [po |-> handler[h].po, quantity |-> handler[h].quantity]]
              /\ Ignored(h) \/ Confirms(h)
    BY <1>1, CommitEffect
  <2> QED
    BY <2>1 DEF TypeOK, Call, Ignored, Confirms
<1>2. ASSUME NEW d \in Events, PlaceReplacement(d) \/ CloseFollowUp(d)
      PROVE  /\ events'[e] = events[e]
             /\ followups'[e] # followups[e] =>
                  followups[e] = "CREATED" /\ followups'[e] \in {"ORDERED", "CLOSED"}
  BY <1>2 DEF PlaceReplacement, CloseFollowUp, TypeOK
<1>3. ASSUME NEW h \in Handlers, Receive(h)
      PROVE  events'[e] = events[e] /\ followups'[e] = followups[e]
  BY <1>3 DEF Receive
<1>4. ASSUME NEW p \in POs, BecomeOverdue(p)
      PROVE  events'[e] = events[e] /\ followups'[e] = followups[e]
  BY <1>4 DEF BecomeOverdue
<1>5. CASE SuppliersChange
  BY <1>5 DEF SuppliersChange
<1>6. CASE UNCHANGED vars
  BY <1>6 DEF vars
<1> QED
  BY <1>1, <1>2, <1>3, <1>4, <1>5, <1>6 DEF Next

\* No follow-up appears without its event.
LEMMA NextFollowUps ==
  ASSUME TypeOK, CallsAreAcceptable, FollowUpsHaveEvents, [Next]_vars
  PROVE  FollowUpsHaveEvents'
<1>1. ASSUME NEW h \in Handlers, Commit(h) PROVE FollowUpsHaveEvents'
  <2>1. /\ handler[h] \in Call
        /\ \/ UNCHANGED <<confirmed, attempts, events, followups, lost, overtaken>>
           \/ /\ events[handler[h].event] = NoEvent
              /\ events' = [events EXCEPT ![handler[h].event] =
                              [po |-> handler[h].po, quantity |-> handler[h].quantity]]
              /\ Ignored(h) \/ Confirms(h)
    BY <1>1, CommitEffect
  <2>2. [po |-> handler[h].po, quantity |-> handler[h].quantity] # NoEvent
    BY <2>1, NoEventAssumption DEF Call, Report
  <2> QED
    BY <2>1, <2>2 DEF FollowUpsHaveEvents, Ignored, Confirms, TypeOK, Call
<1>2. ASSUME NEW d \in Events, PlaceReplacement(d) \/ CloseFollowUp(d)
      PROVE  FollowUpsHaveEvents'
  BY <1>2 DEF PlaceReplacement, CloseFollowUp, FollowUpsHaveEvents, TypeOK
<1>3. ASSUME UNCHANGED <<events, followups>> PROVE FollowUpsHaveEvents'
  BY <1>3 DEF FollowUpsHaveEvents
<1> QED
  BY <1>1, <1>2, <1>3 DEF Next, Receive, BecomeOverdue, SuppliersChange, vars

\* The event behind a partial confirmation keeps its follow-up.
LEMMA NextPartial ==
  ASSUME TypeOK, CallsAreAcceptable, PartialIsFollowedUp, [Next]_vars
  PROVE  PartialIsFollowedUp'
<1> SUFFICES ASSUME NEW p \in POs, 0 < confirmed'[p], confirmed'[p] < ordered'[p]
             PROVE  \E e \in Events : /\ events'[e] = [po |-> p, quantity |-> confirmed'[p]]
                                      /\ followups'[e] # "NONE"
  BY DEF PartialIsFollowedUp
<1>1. ASSUME confirmed'[p] = confirmed[p], ordered'[p] = ordered[p]
      PROVE  \E e \in Events : /\ events'[e] = [po |-> p, quantity |-> confirmed'[p]]
                               /\ followups'[e] # "NONE"
  <2>1. PICK e \in Events : /\ events[e] = [po |-> p, quantity |-> confirmed[p]]
                            /\ followups[e] # "NONE"
    BY <1>1 DEF PartialIsFollowedUp
  <2>2. events[e] # NoEvent
    BY <2>1, NoEventAssumption DEF TypeOK, Report, POs, Quantities
  <2>3. /\ events'[e] = events[e]
        /\ followups'[e] # followups[e] =>
             followups[e] = "CREATED" /\ followups'[e] \in {"ORDERED", "CLOSED"}
    BY <2>2, EventsStep
  <2> QED
    BY <1>1, <2>1, <2>3
<1>2. ASSUME NEW h \in Handlers, Commit(h)
      PROVE  \E e \in Events : /\ events'[e] = [po |-> p, quantity |-> confirmed'[p]]
                               /\ followups'[e] # "NONE"
  <2> DEFINE call == handler[h]
  <2>1. /\ call \in Call
        /\ UNCHANGED <<ordered, overdue, alternate>>
        /\ \/ UNCHANGED <<confirmed, attempts, events, followups, lost, overtaken>>
           \/ /\ events[call.event] = NoEvent
              /\ events' = [events EXCEPT ![call.event] =
                              [po |-> call.po, quantity |-> call.quantity]]
              /\ Ignored(h) \/ Confirms(h)
    BY <1>2, CommitEffect
  <2>2. CASE confirmed'[p] = confirmed[p]
    BY <1>1, <2>1, <2>2
  <2>3. CASE confirmed'[p] # confirmed[p]
    <3>1. Confirms(h) /\ events' = [events EXCEPT ![call.event] =
                                      [po |-> call.po, quantity |-> call.quantity]]
      BY <2>1, <2>3 DEF Ignored
    <3>2. p = call.po /\ confirmed'[p] = call.quantity
      BY <2>1, <2>3, <3>1 DEF Confirms, TypeOK, Call
    <3>3. call.quantity # ordered[call.po]
      BY <2>1, <3>2 DEF TypeOK, Quantities
    <3>4. followups'[call.event] \in {"CREATED", "ACCEPTED", "ESCALATED"}
      BY <2>1, <3>1, <3>3 DEF Confirms, TypeOK, Call
    <3>5. events'[call.event] = [po |-> p, quantity |-> confirmed'[p]]
      BY <2>1, <3>1, <3>2 DEF TypeOK, Call
    <3> QED
      BY <2>1, <3>4, <3>5 DEF Call
  <2> QED
    BY <2>2, <2>3
<1>3. ASSUME NEW d \in Events, PlaceReplacement(d)
      PROVE  confirmed'[p] = confirmed[p] /\ ordered'[p] = ordered[p]
  <2>1. PICK o \in POs, q \in Quantities \ {0} :
          ordered[o] = 0 /\ ordered' = [ordered EXCEPT ![o] = q]
    BY <1>3 DEF PlaceReplacement
  <2>2. confirmed'[p] = confirmed[p]
    BY <1>3 DEF PlaceReplacement
  <2>3. ordered[p] # 0
    BY <2>2 DEF TypeOK, Quantities
  <2> QED
    BY <2>1, <2>2, <2>3 DEF TypeOK
<1>4. ASSUME \/ \E h \in Handlers : Receive(h)
             \/ \E d \in Events : CloseFollowUp(d)
             \/ \E o \in POs : BecomeOverdue(o)
             \/ SuppliersChange
             \/ UNCHANGED vars
      PROVE  confirmed'[p] = confirmed[p] /\ ordered'[p] = ordered[p]
  BY <1>4 DEF Receive, CloseFollowUp, BecomeOverdue, SuppliersChange, vars, orders
<1> QED
  BY <1>1, <1>2, <1>3, <1>4 DEF Next

\* The core of the invariant holds in every state.
THEOREM OverlapInvariance == Spec => []OverlapInv
<1>1. OverlapInv /\ [Next]_vars => OverlapInv'
  BY NextType, NextFollowUps, NextPartial DEF OverlapInv
<1> QED
  BY <1>1, InitOverlap, PTL DEF Spec

\* Every variable keeps its type, and no order is confirmed beyond its quantity,
\* for any number of events, orders and overlapping requests.
THEOREM TypeCorrect == Spec => []TypeOK
  BY OverlapInvariance, PTL DEF OverlapInv

\* A partial confirmation always has its follow-up, escalation or acceptance.
THEOREM PartialFollowedUp == Spec => []PartialIsFollowedUp
  BY OverlapInvariance, PTL DEF OverlapInv

\* A supplier's event is taken once.
THEOREM TakenOnce == Spec => EventsAreTakenOnce
<1>1. OverlapInv /\ [Next]_vars =>
        [\A e \in Events : events[e] # NoEvent =>
           /\ events'[e] = events[e]
           /\ followups'[e] # followups[e] =>
                followups[e] = "CREATED" /\ followups'[e] \in {"ORDERED", "CLOSED"}]_vars
  BY EventsStep DEF OverlapInv
<1> QED
  BY <1>1, OverlapInvariance, PTL DEF Spec, EventsAreTakenOnce

-----------------------------------------------------------------------------
(***************************************************************************)
(* The recovery limit.                                                     *)
(***************************************************************************)

\* Every recovery of an order was counted in its attempts, or lost.
RecoveriesAreCounted ==
  \A p \in POs : Cardinality(Recoveries(p)) <= attempts[p] + lost[p]

RecoveryInv == RecoveriesAreCounted /\ RecoveryBounded

LEMMA RecoveriesFinite ==
  ASSUME NEW p \in POs
  PROVE  IsFiniteSet(Recoveries(p)) /\ Cardinality(Recoveries(p)) \in Nat
<1>1. Recoveries(p) \subseteq Events
  BY DEF Recoveries
<1>2. IsFiniteSet(Recoveries(p))
  BY <1>1, ConfirmationAssumption, FS_Subset
<1> QED
  BY <1>2, FS_CardinalityType

LEMMA InitRecovery == Init => RecoveryInv
<1> SUFFICES ASSUME Init PROVE RecoveryInv
  OBVIOUS
<1>1. \A p \in POs : Recoveries(p) = {}
  BY DEF Init, Recoveries
<1>2. \A p \in POs : Cardinality(Recoveries(p)) = 0
  BY <1>1, FS_EmptySet
<1> QED
  BY <1>2, ConfirmationAssumption DEF RecoveryInv, RecoveriesAreCounted, RecoveryBounded, Init

\* What a step does to the recoveries of an order: one more, by a commit that
\* has read n attempts, below the limit, and counts one more than these, or
\* none.
Recovers(p) ==
  \E e \in Events \ Recoveries(p), n \in Nat :
    /\ Recoveries(p)' = Recoveries(p) \cup {e}
    /\ n < MaxRecovery /\ attempts'[p] = n + 1
    /\ lost'[p] >= lost[p] /\ lost'[p] + n >= lost[p] + attempts[p]

RecoversNot(p) ==
  /\ Recoveries(p)' = Recoveries(p)
  /\ lost'[p] >= lost[p] /\ attempts'[p] + lost'[p] >= attempts[p] + lost[p]

\* A commit that counts an attempt counts those it did not know as lost.
LEMMA Counting ==
  ASSUME TypeOK, NEW call \in Call,
         attempts' = [attempts EXCEPT ![call.po] = call.attempts + 1],
         lost' = [lost EXCEPT ![call.po] = @ + Uncounted(call)]
  PROVE  /\ attempts'[call.po] = call.attempts + 1
         /\ lost'[call.po] >= lost[call.po]
         /\ lost'[call.po] + call.attempts >= lost[call.po] + attempts[call.po]
         /\ \A p \in POs \ {call.po} : attempts'[p] = attempts[p] /\ lost'[p] = lost[p]
<1>1. /\ call.po \in POs /\ call.attempts \in Nat
      /\ attempts[call.po] \in Nat /\ lost[call.po] \in Nat
  BY DEF Call, TypeOK
<1>2. Uncounted(call) \in Nat /\ Uncounted(call) + call.attempts >= attempts[call.po]
  BY <1>1 DEF Uncounted
<1>3. lost'[call.po] = lost[call.po] + Uncounted(call)
  BY <1>1 DEF TypeOK
<1>4. attempts'[call.po] = call.attempts + 1
  BY <1>1 DEF TypeOK
<1>5. \A p \in POs \ {call.po} : attempts'[p] = attempts[p] /\ lost'[p] = lost[p]
  BY DEF TypeOK
<1> QED
  BY <1>1, <1>2, <1>3, <1>4, <1>5

LEMMA RecoveriesStep ==
  ASSUME TypeOK, CallsAreAcceptable, FollowUpsHaveEvents, [Next]_vars, NEW p \in POs
  PROVE  Recovers(p) \/ RecoversNot(p)
<1>0. attempts[p] \in Nat /\ lost[p] \in Nat
  BY DEF TypeOK
<1>1. ASSUME NEW h \in Handlers, Commit(h) PROVE Recovers(p) \/ RecoversNot(p)
  <2> DEFINE call == handler[h]
  <2>1. /\ call \in Call
        /\ \/ UNCHANGED <<confirmed, attempts, events, followups, lost, overtaken>>
           \/ /\ events[call.event] = NoEvent
              /\ events' = [events EXCEPT ![call.event] =
                              [po |-> call.po, quantity |-> call.quantity]]
              /\ Ignored(h) \/ Confirms(h)
    BY <1>1, CommitEffect
  <2>2. CASE UNCHANGED <<confirmed, attempts, events, followups, lost, overtaken>>
    BY <1>0, <2>2 DEF RecoversNot, Recoveries
  <2>3. CASE /\ events[call.event] = NoEvent
             /\ events' = [events EXCEPT ![call.event] =
                             [po |-> call.po, quantity |-> call.quantity]]
             /\ Ignored(h) \/ Confirms(h)
    <3>1. call.event \in Events \ Recoveries(p) /\ followups[call.event] = "NONE"
      BY <2>1, <2>3 DEF Recoveries, FollowUpsHaveEvents, Call
    <3>2. events'[call.event].po = call.po /\ events'[call.event] # NoEvent
      BY <2>1, <2>3, NoEventAssumption DEF TypeOK, Call, Report
    <3>3. \A e \in Events : e # call.event =>
            events'[e] = events[e] /\ followups'[e] = followups[e]
      BY <2>1, <2>3 DEF Ignored, Confirms, TypeOK, Call
    <3>4. CASE followups'[call.event] \in Started /\ call.po = p
      <4>1. Confirms(h) /\ followups'[call.event] = "CREATED"
        BY <2>1, <2>3, <3>1, <3>4 DEF Ignored, Confirms, Started, TypeOK, Call
      <4>2. /\ ~LimitReached(call)
            /\ attempts' = [attempts EXCEPT ![call.po] = call.attempts + 1]
            /\ lost' = [lost EXCEPT ![call.po] = @ + Uncounted(call)]
        BY <2>1, <3>1, <4>1 DEF Confirms, TypeOK, Call
      <4>3. call.attempts \in Nat /\ call.attempts < MaxRecovery
        BY <2>1, <4>2, ConfirmationAssumption DEF LimitReached, Call
      <4>4. Recoveries(p)' = Recoveries(p) \cup {call.event}
        BY <3>1, <3>2, <3>3, <3>4 DEF Recoveries
      <4>5. /\ attempts'[p] = call.attempts + 1 /\ lost'[p] >= lost[p]
            /\ lost'[p] + call.attempts >= lost[p] + attempts[p]
        BY <2>1, <3>4, <4>2, Counting
      <4> QED
        BY <3>1, <4>3, <4>4, <4>5 DEF Recovers
    <3>5. CASE ~(followups'[call.event] \in Started /\ call.po = p)
      <4>1. Recoveries(p)' = Recoveries(p)
        BY <3>1, <3>2, <3>3, <3>5 DEF Recoveries
      <4>2. \/ UNCHANGED <<attempts, lost>>
            \/ /\ attempts' = [attempts EXCEPT ![call.po] = call.attempts + 1]
               /\ lost' = [lost EXCEPT ![call.po] = @ + Uncounted(call)]
        BY <2>3 DEF Ignored, Confirms
      <4>3. CASE UNCHANGED <<attempts, lost>>
        BY <1>0, <4>1, <4>3 DEF RecoversNot
      <4>4. CASE /\ attempts' = [attempts EXCEPT ![call.po] = call.attempts + 1]
                 /\ lost' = [lost EXCEPT ![call.po] = @ + Uncounted(call)]
        <5>1. /\ attempts'[call.po] = call.attempts + 1
              /\ lost'[call.po] >= lost[call.po]
              /\ lost'[call.po] + call.attempts >= lost[call.po] + attempts[call.po]
              /\ \A o \in POs \ {call.po} : attempts'[o] = attempts[o] /\ lost'[o] = lost[o]
          BY <2>1, <4>4, Counting
        <5>2. call.attempts \in Nat
          BY <2>1 DEF Call
        <5>3. lost'[p] \in Nat
          BY NextType DEF TypeOK
        <5>4. CASE call.po = p
          BY <1>0, <4>1, <5>1, <5>2, <5>3, <5>4 DEF RecoversNot
        <5>5. CASE call.po # p
          BY <1>0, <4>1, <5>1, <5>5 DEF RecoversNot
        <5> QED
          BY <5>4, <5>5
      <4> QED
        BY <4>2, <4>3, <4>4
    <3> QED
      BY <3>4, <3>5
  <2> QED
    BY <2>1, <2>2, <2>3
<1>2. ASSUME NEW d \in Events, PlaceReplacement(d) \/ CloseFollowUp(d) PROVE RecoversNot(p)
  <2>1. /\ events' = events /\ attempts' = attempts /\ lost' = lost
        /\ \A e \in Events : followups'[e] \in Started <=> followups[e] \in Started
    BY <1>2 DEF PlaceReplacement, CloseFollowUp, orders, TypeOK, Started
  <2> QED
    BY <1>0, <2>1 DEF RecoversNot, Recoveries
<1>3. ASSUME UNCHANGED <<attempts, lost, events, followups>> PROVE RecoversNot(p)
  BY <1>0, <1>3 DEF RecoversNot, Recoveries
<1> QED
  BY <1>1, <1>2, <1>3 DEF Next, Receive, BecomeOverdue, SuppliersChange, vars, orders

\* The recoveries stay counted and bounded.
LEMMA NextRecovery ==
  ASSUME TypeOK, CallsAreAcceptable, FollowUpsHaveEvents, RecoveryInv, [Next]_vars
  PROVE  RecoveryInv'
<1> SUFFICES ASSUME NEW p \in POs
             PROVE  /\ Cardinality(Recoveries(p)') <= attempts'[p] + lost'[p]
                    /\ Cardinality(Recoveries(p)') <= MaxRecovery + lost'[p]
  BY DEF RecoveryInv, RecoveriesAreCounted, RecoveryBounded
<1>1. /\ Cardinality(Recoveries(p)) <= attempts[p] + lost[p]
      /\ Cardinality(Recoveries(p)) <= MaxRecovery + lost[p]
  BY DEF RecoveryInv, RecoveriesAreCounted, RecoveryBounded
<1>2. IsFiniteSet(Recoveries(p)) /\ Cardinality(Recoveries(p)) \in Nat
  BY RecoveriesFinite
<1>3. /\ attempts[p] \in Nat /\ attempts'[p] \in Nat /\ MaxRecovery \in Nat
      /\ lost[p] \in Nat /\ lost'[p] \in Nat
  BY NextType, ConfirmationAssumption DEF TypeOK
<1>4. CASE RecoversNot(p)
  BY <1>1, <1>2, <1>3, <1>4 DEF RecoversNot
<1>5. CASE Recovers(p)
  <2>1. PICK e \in Events \ Recoveries(p), n \in Nat :
          /\ Recoveries(p)' = Recoveries(p) \cup {e}
          /\ n < MaxRecovery /\ attempts'[p] = n + 1
          /\ lost'[p] >= lost[p] /\ lost'[p] + n >= lost[p] + attempts[p]
    BY <1>5 DEF Recovers
  <2>2. Cardinality(Recoveries(p)') = Cardinality(Recoveries(p)) + 1
    BY <1>2, <2>1, FS_AddElement
  <2> QED
    BY <1>1, <1>2, <1>3, <2>1, <2>2
<1> QED
  BY <1>4, <1>5, RecoveriesStep

\* An order is recovered MaxRecovery times, and once more only for every
\* attempt that overlapping requests left uncounted.
THEOREM BoundedRecovery == Spec => []RecoveryBounded
<1>1. OverlapInv /\ RecoveryInv /\ [Next]_vars => RecoveryInv'
  BY NextRecovery DEF OverlapInv
<1>2. RecoveryInv => RecoveryBounded
  BY DEF RecoveryInv
<1> QED
  BY <1>1, <1>2, InitRecovery, OverlapInvariance, PTL DEF Spec

-----------------------------------------------------------------------------
(***************************************************************************)
(* The largest report.                                                     *)
(***************************************************************************)

\* A request reports no less than the confirmed quantity it has read, and that
\* has not shrunk since, unless a smaller one took its place.
CallsAreOlder ==
  \A h \in Handlers : handler[h] # NoEvent =>
    /\ handler[h].quantity >= handler[h].confirmed
    /\ handler[h].po \notin overtaken =>
         handler[h].confirmed <= confirmed[handler[h].po]

LargestInv == CallsAreOlder /\ ConfirmedIsLargest

LEMMA InitLargest == Init => LargestInv
<1> SUFFICES ASSUME Init PROVE LargestInv
  OBVIOUS
<1>1. CallsAreOlder
  BY DEF Init, CallsAreOlder
<1>2. ConfirmedIsLargest
  BY DEF Init, ConfirmedIsLargest
<1> QED
  BY <1>1, <1>2 DEF LargestInv

\* A commit leaves the confirmed quantity of an order that is not overtaken at
\* what it was or raises it, to the quantity it reports.
LEMMA CommitRaises ==
  ASSUME TypeOK, CallsAreAcceptable, CallsAreOlder, NEW h \in Handlers, Commit(h),
         NEW p \in POs \ overtaken'
  PROVE  /\ p \notin overtaken
         /\ confirmed'[p] >= confirmed[p]
         /\ \/ UNCHANGED events /\ confirmed'[p] = confirmed[p]
            \/ /\ events[handler[h].event] = NoEvent
               /\ events' = [events EXCEPT ![handler[h].event] =
                               [po |-> handler[h].po, quantity |-> handler[h].quantity]]
               /\ p = handler[h].po => handler[h].quantity <= confirmed'[p]
               /\ \/ confirmed'[p] = confirmed[p]
                  \/ p = handler[h].po /\ confirmed'[p] = handler[h].quantity
<1> DEFINE call == handler[h]
<1>1. /\ call \in Call
      /\ \/ UNCHANGED <<confirmed, attempts, events, followups, lost, overtaken>>
         \/ /\ events[call.event] = NoEvent
            /\ events' = [events EXCEPT ![call.event] =
                            [po |-> call.po, quantity |-> call.quantity]]
            /\ Ignored(h) \/ Confirms(h)
  BY CommitEffect
<1>2. /\ call.quantity \in Nat /\ call.confirmed \in Nat /\ call.po \in POs
      /\ confirmed[p] \in Nat
  BY <1>1 DEF Call, Quantities, TypeOK
<1>3. /\ call.quantity >= call.confirmed
      /\ call.po \notin overtaken => call.confirmed <= confirmed[call.po]
  BY DEF CallsAreOlder, Commit
<1>4. CASE UNCHANGED <<confirmed, attempts, events, followups, lost, overtaken>>
  BY <1>2, <1>4
<1>5. CASE Ignored(h)
  BY <1>1, <1>2, <1>3, <1>5 DEF Ignored
<1>6. CASE Confirms(h)
  <2>1. /\ confirmed' = [confirmed EXCEPT ![call.po] = call.quantity]
        /\ overtaken' = IF Overtakes(call) THEN overtaken \cup {call.po} ELSE overtaken
    BY <1>6 DEF Confirms
  <2>2. p \notin overtaken /\ (p = call.po => ~Overtakes(call))
    BY <2>1
  <2>3. CASE p = call.po
    <3>1. confirmed'[p] = call.quantity
      BY <1>2, <2>1, <2>3 DEF TypeOK
    <3>2. call.quantity >= confirmed[p]
      BY <1>2, <1>3, <2>2, <2>3 DEF Overtakes
    <3> QED
      BY <1>1, <1>2, <2>2, <2>3, <3>1, <3>2
  <2>4. CASE p # call.po
    <3>1. confirmed'[p] = confirmed[p]
      BY <2>1, <2>4 DEF TypeOK
    <3> QED
      BY <1>1, <1>2, <2>2, <2>4, <3>1
  <2> QED
    BY <2>3, <2>4
<1> QED
  BY <1>1, <1>4, <1>5, <1>6

LEMMA NextOlder ==
  ASSUME TypeOK, CallsAreAcceptable, CallsAreOlder, [Next]_vars
  PROVE  CallsAreOlder'
<1>1. ASSUME NEW h \in Handlers, Receive(h) PROVE CallsAreOlder'
  <2>1. PICK e \in Events, p \in POs, q \in Quantities :
          /\ Acceptable(p, q)
          /\ handler' = [handler EXCEPT ![h] =
               [event |-> e, po |-> p, quantity |-> q, confirmed |-> confirmed[p],
                attempts |-> attempts[p]]]
    BY <1>1 DEF Receive
  <2>2. UNCHANGED <<confirmed, overtaken>>
    BY <1>1 DEF Receive, orders
  <2>3. confirmed[p] <= confirmed[p]
    BY DEF TypeOK, Quantities
  <2> QED
    BY <2>1, <2>2, <2>3 DEF CallsAreOlder, TypeOK, Acceptable
<1>2. ASSUME NEW h \in Handlers, Commit(h) PROVE CallsAreOlder'
  <2>1. handler' = [handler EXCEPT ![h] = NoEvent]
    BY <1>2, CommitEffect
  <2>2. ASSUME NEW g \in Handlers, handler'[g] # NoEvent
        PROVE  /\ handler'[g].quantity >= handler'[g].confirmed
               /\ handler'[g].po \notin overtaken' =>
                    handler'[g].confirmed <= confirmed'[handler'[g].po]
    <3>1. handler'[g] = handler[g] /\ handler[g] # NoEvent /\ handler[g] \in Call
      BY <2>1, <2>2 DEF TypeOK
    <3>2. /\ handler[g].quantity >= handler[g].confirmed
          /\ handler[g].po \notin overtaken =>
               handler[g].confirmed <= confirmed[handler[g].po]
      BY <3>1 DEF CallsAreOlder
    <3>3. ASSUME handler[g].po \notin overtaken'
          PROVE  handler[g].confirmed <= confirmed'[handler[g].po]
      <4>1. handler[g].po \in POs /\ handler[g].confirmed \in Nat
        BY <3>1 DEF Call, Quantities
      <4>2. /\ handler[g].po \notin overtaken
            /\ confirmed'[handler[g].po] >= confirmed[handler[g].po]
        BY <1>2, <3>3, <4>1, CommitRaises
      <4>3. confirmed[handler[g].po] \in Nat /\ confirmed'[handler[g].po] \in Nat
        BY <4>1, NextType DEF TypeOK, Quantities
      <4> QED
        BY <3>2, <4>1, <4>2, <4>3
    <3> QED
      BY <3>1, <3>2, <3>3
  <2> QED
    BY <2>2 DEF CallsAreOlder
<1>3. ASSUME UNCHANGED <<confirmed, handler, overtaken>> PROVE CallsAreOlder'
  BY <1>3 DEF CallsAreOlder
<1> QED
  BY <1>1, <1>2, <1>3
  DEF Next, PlaceReplacement, CloseFollowUp, BecomeOverdue, SuppliersChange, vars, orders

LEMMA NextLargest ==
  ASSUME TypeOK, CallsAreAcceptable, LargestInv, [Next]_vars
  PROVE  ConfirmedIsLargest'
<1>1. ASSUME NEW h \in Handlers, Commit(h) PROVE ConfirmedIsLargest'
  <2> SUFFICES ASSUME NEW p \in POs \ overtaken'
               PROVE  /\ \A e \in Events : events'[e] # NoEvent /\ events'[e].po = p
                           => events'[e].quantity <= confirmed'[p]
                      /\ confirmed'[p] > 0 =>
                           \E e \in Events : /\ events'[e] # NoEvent /\ events'[e].po = p
                                             /\ events'[e].quantity = confirmed'[p]
    BY DEF ConfirmedIsLargest
  <2> DEFINE call == handler[h]
             report == [po |-> call.po, quantity |-> call.quantity]
  <2>1. /\ p \notin overtaken /\ confirmed'[p] >= confirmed[p]
        /\ \/ UNCHANGED events /\ confirmed'[p] = confirmed[p]
           \/ /\ events[call.event] = NoEvent
              /\ events' = [events EXCEPT ![call.event] = report]
              /\ p = call.po => call.quantity <= confirmed'[p]
              /\ \/ confirmed'[p] = confirmed[p]
                 \/ p = call.po /\ confirmed'[p] = call.quantity
    BY <1>1, CommitRaises DEF LargestInv
  <2>2. /\ \A e \in Events : events[e] # NoEvent /\ events[e].po = p
             => events[e].quantity <= confirmed[p] /\ events[e].quantity \in Nat
        /\ confirmed[p] > 0 =>
             \E e \in Events : /\ events[e] # NoEvent /\ events[e].po = p
                               /\ events[e].quantity = confirmed[p]
    BY <2>1 DEF LargestInv, ConfirmedIsLargest, TypeOK, Report, Quantities
  <2>3. confirmed[p] \in Nat /\ confirmed'[p] \in Nat
    BY NextType DEF TypeOK, Quantities
  <2>4. call \in Call
    BY <1>1, CommitEffect
  <2>5. report # NoEvent /\ report.po = call.po /\ report.quantity = call.quantity
    BY <2>4, NoEventAssumption DEF Call, Report
  <2>6. CASE UNCHANGED events /\ confirmed'[p] = confirmed[p]
    BY <2>2, <2>3, <2>6
  <2>7. CASE /\ events[call.event] = NoEvent
             /\ events' = [events EXCEPT ![call.event] = report]
             /\ p = call.po => call.quantity <= confirmed'[p]
             /\ \/ confirmed'[p] = confirmed[p]
                \/ p = call.po /\ confirmed'[p] = call.quantity
    <3> HIDE DEF report
    <3>1. /\ call.event \in Events /\ events'[call.event] = report
          /\ \A e \in Events \ {call.event} : events'[e] = events[e]
      BY <2>4, <2>7 DEF TypeOK, Call
    <3>2. ASSUME NEW e \in Events, events'[e] # NoEvent, events'[e].po = p
          PROVE  events'[e].quantity <= confirmed'[p]
      <4>1. CASE e = call.event
        BY <2>5, <2>7, <3>1, <3>2, <4>1
      <4>2. CASE e # call.event
        BY <2>1, <2>2, <2>3, <3>1, <3>2, <4>2
      <4> QED
        BY <4>1, <4>2
    <3>3. ASSUME confirmed'[p] > 0
          PROVE  \E e \in Events : /\ events'[e] # NoEvent /\ events'[e].po = p
                                   /\ events'[e].quantity = confirmed'[p]
      <4>1. CASE confirmed'[p] = confirmed[p]
        <5>1. PICK e \in Events : /\ events[e] # NoEvent /\ events[e].po = p
                                  /\ events[e].quantity = confirmed[p]
          BY <2>2, <3>3, <4>1
        <5>2. e # call.event
          BY <2>7, <5>1
        <5> QED
          BY <3>1, <4>1, <5>1, <5>2
      <4>2. CASE p = call.po /\ confirmed'[p] = call.quantity
        BY <2>5, <3>1, <4>2
      <4> QED
        BY <2>7, <4>1, <4>2
    <3> QED
      BY <3>2, <3>3
  <2> QED
    BY <2>1, <2>6, <2>7
<1>2. ASSUME UNCHANGED <<confirmed, events, overtaken>> PROVE ConfirmedIsLargest'
  BY <1>2 DEF LargestInv, ConfirmedIsLargest
<1> QED
  BY <1>1, <1>2
  DEF Next, Receive, PlaceReplacement, CloseFollowUp, BecomeOverdue, SuppliersChange, vars,
      orders

\* In whatever order events come and however requests overlap, the confirmed
\* quantity is the largest reported, unless a smaller one took its place.
THEOREM LargestConfirmed == Spec => []ConfirmedIsLargest
<1>1. OverlapInv /\ LargestInv /\ [Next]_vars => LargestInv'
  BY NextOlder, NextLargest DEF OverlapInv, LargestInv
<1>2. LargestInv => ConfirmedIsLargest
  BY DEF LargestInv
<1> QED
  BY <1>1, <1>2, InitLargest, OverlapInvariance, PTL DEF Spec
=============================================================================
