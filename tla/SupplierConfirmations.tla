----------------------- MODULE SupplierConfirmations -----------------------
(***************************************************************************)
(* Supplier confirmations of purchase orders and the recovery they trigger *)
(* (supplier_confirmation in api/routes.py).                               *)
(*                                                                         *)
(* The chain of one product at one node: a first order, the events the     *)
(* supplier reports on it, the follow-up reviews of partial confirmations, *)
(* the replacement orders those place, the events on these, and so on.     *)
(* The handler reads the event, the order and its item, then writes in one *)
(* transaction; between the two another handler may commit.                *)
(***************************************************************************)
EXTENDS Naturals, FiniteSets, FiniteSetsExt

CONSTANTS
  Events,       \* external event ids of the supplier
  Handlers,     \* slots for requests in flight
  MaxOrders,    \* bound: purchase orders of the chain
  MaxQuantity,  \* bound: the first order's quantity, and what may be reported
  Target,       \* what open orders must deliver: target stock less usable stock
  MaxRecovery,  \* settings.max_recovery_attempts
  NoEvent       \* a SupplierConfirmation row that does not exist

POs == 1..MaxOrders
Quantities == 0..MaxQuantity

ASSUME ConfirmationAssumption ==
  /\ MaxOrders \in Nat \ {0}
  /\ MaxQuantity \in Nat \ {0}
  /\ Target \in 0..MaxQuantity
  /\ MaxRecovery \in Nat
  /\ IsFiniteSet(Events)

Report == [po : POs, quantity : Quantities]
Call   == [event : Events, po : POs, quantity : Quantities, confirmed : Quantities,
           attempts : Nat]

ASSUME NoEventAssumption == NoEvent \notin Report /\ NoEvent \notin Call

Started   == {"CREATED", "ORDERED", "CLOSED"}
FollowUps == Started \cup {"NONE", "ACCEPTED", "ESCALATED"}

VARIABLES
  ordered,    \* PurchaseOrderItem.ordered_quantity, by order; 0 when there is none
  confirmed,  \* PurchaseOrderItem.confirmed_quantity
  attempts,   \* PurchaseOrder.recovery_attempts
  overdue,    \* orders whose delivery is not expected within the horizon any more
  events,     \* SupplierConfirmation rows, by event id
  followups,  \* the follow-up review of each event
  alternate,  \* whether another active supplier offers the product
  handler,    \* requests between their reads and their commit
  lost,       \* history: attempts a request did not count, having read too few
  overtaken   \* history: orders on which a request that had read another
              \* confirmed quantity put a smaller one in its place

orders == <<ordered, confirmed, attempts>>
history == <<lost, overtaken>>
vars == <<orders, overdue, events, followups, alternate, handler, history>>

(***************************************************************************)
(* Every variable has its type; no order is confirmed beyond its quantity. *)
(***************************************************************************)
TypeOK ==
  /\ ordered \in [POs -> Quantities]
  /\ confirmed \in [POs -> Quantities]
  /\ attempts \in [POs -> Nat]
  /\ \A p \in POs : confirmed[p] <= ordered[p]
  /\ overdue \in SUBSET POs
  /\ events \in [Events -> Report \cup {NoEvent}]
  /\ followups \in [Events -> FollowUps]
  /\ alternate \in BOOLEAN
  /\ handler \in [Handlers -> Call \cup {NoEvent}]
  /\ lost \in [POs -> Nat]
  /\ overtaken \in SUBSET POs

\* One order, not confirmed yet.
Init ==
  /\ \E q \in Quantities \ {0} : ordered = [p \in POs |-> IF p = 1 THEN q ELSE 0]
  /\ confirmed = [p \in POs |-> 0]
  /\ attempts = [p \in POs |-> 0]
  /\ overdue = {}
  /\ events = [e \in Events |-> NoEvent]
  /\ followups = [e \in Events |-> "NONE"]
  /\ alternate \in BOOLEAN
  /\ handler = [h \in Handlers |-> NoEvent]
  /\ lost = [p \in POs |-> 0]
  /\ overtaken = {}

-----------------------------------------------------------------------------
\* Incoming supply: what suppliers have confirmed, nothing being received.
Incoming(conf) == MapThenSumSet(LAMBDA p : conf[p], POs \ overdue)

\* calculate_decision's raw need, for complete evidence.
Need(conf) == IF Target > Incoming(conf) THEN Target - Incoming(conf) ELSE 0

\* Variants: the quantity is not compared with the order's, or not with the
\* confirmed one.
AcceptBeyondOrder(p, q) == q >= confirmed[p]
AcceptReduction(p, q)   == q <= ordered[p]

Acceptable(p, q) == q <= ordered[p] /\ q >= confirmed[p]

\* The handler's checks: a replay of an event, or a quantity outside the
\* order or below what is confirmed, changes nothing.
Receive(h) ==
  /\ handler[h] = NoEvent
  /\ \E e \in Events, p \in POs, q \in Quantities :
       /\ events[e] = NoEvent
       /\ ordered[p] > 0
       /\ Acceptable(p, q)
       /\ handler' = [handler EXCEPT ![h] =
            [event |-> e, po |-> p, quantity |-> q, confirmed |-> confirmed[p],
             attempts |-> attempts[p]]]
  /\ UNCHANGED <<orders, overdue, events, followups, alternate, history>>

\* Variant: no constraint on the event id.
EventNeverTaken(e) == FALSE

\* UNIQUE (external_event_id), and the unique reference of the follow-up.
EventTaken(e) == events[e] # NoEvent

\* Variant: the limit is off by one.
LimitOffByOne(call) == call.attempts > MaxRecovery

LimitReached(call) == call.attempts >= MaxRecovery

\* Variant: nothing is recorded when recovery is not possible any more.
FollowUpWhenPossible(call, conf, complete) ==
  IF alternate /\ ~LimitReached(call) THEN "CREATED" ELSE "NONE"

\* Coverage is recomputed only when recovery is not possible any more; the
\* evidence for it may be incomplete.
FollowUp(call, conf, complete) ==
  IF alternate /\ ~LimitReached(call)
    THEN "CREATED"
  ELSE IF complete /\ Need(conf) = 0
    THEN "ACCEPTED"
    ELSE "ESCALATED"

\* History: what the request has missed since it read the order.
Overtakes(call) ==
  call.confirmed # confirmed[call.po] /\ call.quantity < confirmed[call.po]

Uncounted(call) ==
  IF attempts[call.po] > call.attempts THEN attempts[call.po] - call.attempts ELSE 0

\* The handler's transaction.
Commit(h) ==
  LET call == handler[h]
      p == call.po
  IN
  /\ call # NoEvent
  /\ handler' = [handler EXCEPT ![h] = NoEvent]
  /\ UNCHANGED <<ordered, overdue, alternate>>
  /\ \/ /\ EventTaken(call.event)  \* IntegrityError: nothing is committed
        /\ UNCHANGED <<confirmed, attempts, events, followups, history>>
     \/ /\ ~EventTaken(call.event)
        /\ events' = [events EXCEPT
             ![call.event] = [po |-> p, quantity |-> call.quantity]]
        /\ \/ /\ call.quantity = call.confirmed  \* UNCHANGED_IGNORED
              /\ UNCHANGED <<confirmed, attempts, followups, history>>
           \/ /\ call.quantity # call.confirmed
              /\ confirmed' = [confirmed EXCEPT ![p] = call.quantity]
              /\ overtaken' = IF Overtakes(call) THEN overtaken \cup {p} ELSE overtaken
              /\ \/ /\ call.quantity = ordered[p]
                    /\ UNCHANGED <<attempts, followups, lost>>
                 \/ /\ call.quantity # ordered[p]
                    /\ \E complete \in BOOLEAN :
                         followups' = [followups EXCEPT
                           ![call.event] = FollowUp(call, confirmed', complete)]
                    /\ IF followups'[call.event] = "ESCALATED"
                         THEN UNCHANGED <<attempts, lost>>
                         ELSE /\ attempts' = [attempts EXCEPT ![p] = call.attempts + 1]
                              /\ lost' = [lost EXCEPT ![p] = @ + Uncounted(call)]

\* The workflow of a follow-up review: the buyer approves a plan for the
\* need of that moment and a new order is placed, or it ends without one.
PlaceReplacement(e) ==
  /\ followups[e] = "CREATED"
  /\ \E p \in POs, q \in Quantities \ {0} :
       /\ q = Need(confirmed)
       /\ ordered[p] = 0
       /\ \A o \in POs : o < p => ordered[o] # 0
       /\ ordered' = [ordered EXCEPT ![p] = q]
  /\ followups' = [followups EXCEPT ![e] = "ORDERED"]
  /\ UNCHANGED <<confirmed, attempts, overdue, events, alternate, handler, history>>

CloseFollowUp(e) ==
  /\ followups[e] = "CREATED"
  /\ followups' = [followups EXCEPT ![e] = "CLOSED"]
  /\ UNCHANGED <<orders, overdue, events, alternate, handler, history>>

\* Time passes and suppliers change.
BecomeOverdue(p) ==
  /\ ordered[p] # 0
  /\ p \notin overdue
  /\ overdue' = overdue \cup {p}
  /\ UNCHANGED <<orders, events, followups, alternate, handler, history>>

SuppliersChange ==
  /\ alternate' = ~alternate
  /\ UNCHANGED <<orders, overdue, events, followups, handler, history>>

Next ==
  \/ \E h \in Handlers : Receive(h) \/ Commit(h)
  \/ \E e \in Events : PlaceReplacement(e) \/ CloseFollowUp(e)
  \/ \E p \in POs : BecomeOverdue(p)
  \/ SuppliersChange

Spec == Init /\ [][Next]_vars

-----------------------------------------------------------------------------
(***************************************************************************)
(* However requests overlap.                                               *)
(***************************************************************************)

\* A supplier's event is taken once: a later or concurrent request with its
\* id changes neither its data nor the follow-up made for it, except that the
\* follow-up's own workflow ends (external_event_id and source_reference).
EventsAreTakenOnce ==
  [][\A e \in Events : events[e] # NoEvent =>
       /\ events'[e] = events[e]
       /\ followups'[e] # followups[e] =>
            followups[e] = "CREATED" /\ followups'[e] \in {"ORDERED", "CLOSED"}]_vars

\* No partial confirmation is left lying: the event that set it has a review
\* that recovers the rest, accepts it, or asks for attention.
PartialIsFollowedUp ==
  \A p \in POs :
    0 < confirmed[p] /\ confirmed[p] < ordered[p] =>
      \E e \in Events : /\ events[e] = [po |-> p, quantity |-> confirmed[p]]
                        /\ followups[e] # "NONE"

\* Recoveries of one order.
Recoveries(p)   == {e \in Events : events[e] # NoEvent /\ events[e].po = p
                                  /\ followups[e] \in Started}

\* An order is recovered MaxRecovery times, whatever is reported, accepted or
\* repeated in between, and once more only for every attempt that overlapping
\* requests have left uncounted (recovery_attempts).
RecoveryBounded ==
  \A p \in POs : Cardinality(Recoveries(p)) <= MaxRecovery + lost[p]

\* An order's confirmed quantity is the largest one reported on it, in
\* whatever order its events come, unless a smaller one of an overlapping
\* request took its place.
ConfirmedIsLargest ==
  \A p \in POs \ overtaken :
    LET reported == {e \in Events : events[e] # NoEvent /\ events[e].po = p} IN
    /\ \A e \in reported : events[e].quantity <= confirmed[p]
    /\ confirmed[p] > 0 => \E e \in reported : events[e].quantity = confirmed[p]

(***************************************************************************)
(* What the handler's message says and overlapping requests do not do.     *)
(***************************************************************************)

\* A confirmation does not reduce what was confirmed before.
ConfirmedNeverShrinks ==
  [][\A p \in POs : confirmed'[p] >= confirmed[p]]_vars
=============================================================================
