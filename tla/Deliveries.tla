----------------------------- MODULE Deliveries -----------------------------
(***************************************************************************)
(* From a confirmed order to its delivery: claim, pack or fulfil from the  *)
(* store, collection by the customer, payments, trips of several stops,    *)
(* one-time codes and the confirmation of a delivery.  A handler reads an  *)
(* order, and later writes back every column that differs from what it     *)
(* read, in a commit of its own; only a claim is a conditional update and  *)
(* only the creation of a trip is a transaction.                           *)
(*                                                                         *)
(* External: requests for credit approval come and go (BillCompletion).    *)
(* Left out: the plain editing of trips and of payment transactions, a     *)
(* trip that stops twice for one order, the bill a delivery completes.     *)
(***************************************************************************)
EXTENDS FiniteSets, Integers

CONSTANTS
    Orders, Trips, Users, Workers,
    Total,     \* total of each order's bill
    Required,  \* what must be paid of it before dispatch (requiredAmount)
    Collected, \* orders of fulfillmentMode pickup
    OnCredit,  \* orders whose bill may wait for credit approval
    Amounts,   \* amounts a payment may have
    Changes,   \* statuses PATCH may give a trip
    Budget,    \* bound on the handlers run
    None       \* no order, trip or user

Kinds == {"claim", "pack", "fulfill", "pickup", "pay", "trip", "status", "confirm"}
TripStatus == {"scheduled", "in_transit", "completed", "cancelled", "delayed"}

ASSUME NoneAssumption == None \notin Orders \cup Trips \cup Users
ASSUME TotalAssumption == Total \in [Orders -> Nat \ {0}] /\ Required \in [Orders -> Nat]
ASSUME OnCreditAssumption == OnCredit \subseteq Orders
ASSUME AmountsAssumption == Amounts \subseteq Nat \ {0}
ASSUME ChangesAssumption == Changes \subseteq TripStatus
ASSUME BudgetAssumption == Budget \in Nat

VARIABLES
    orders,   \* the order rows
    paid,     \* sum of the completed payment transactions of each order's bill
    pending,  \* orders whose bill has a pending request for credit approval
    trips,    \* status of each trip
    stops,    \* status of each trip's stop for each order
    codes,    \* stops whose one-time code is valid
    handler, step, order, trip, user,
    todo,     \* orders createMultiStopTrip has still to check
    list,     \* orders it was given
    row,      \* the order row a handler will save
    dirty,    \* its columns that save found changed
    target,   \* the trip status a handler will save
    begun,    \* handlers started
    claimants, \* history: users whose claim of an order succeeded
    handedOver, \* history: orders the customer collected
    stale,     \* history: orders a save wrote an outdated column of
    changed,   \* history: trips whose status was set by PATCH
    died           \* history: a handler died

tables  == <<orders, paid, pending, trips, stops, codes>>
worker  == <<handler, step, order, trip, user, todo, list, row, dirty, target>>
history == <<claimants, handedOver, stale, changed, died>>
vars    == <<tables, worker, begun, history>>

Columns == {"status", "claimedBy", "packedBy", "payment"}
NewOrder == [status |-> "confirmed", claimedBy |-> None, packedBy |-> None, payment |-> "UNPAID"]

Init ==
    /\ orders = [o \in Orders |-> NewOrder]
    /\ paid = [o \in Orders |-> 0]
    /\ pending = {}
    /\ trips = [t \in Trips |-> "none"]
    /\ stops = [t \in Trips |-> [o \in Orders |-> "none"]]
    /\ codes = {}
    /\ handler = [p \in Workers |-> "none"]
    /\ step = [p \in Workers |-> "idle"]
    /\ order = [p \in Workers |-> None]
    /\ trip = [p \in Workers |-> None]
    /\ user = [p \in Workers |-> None]
    /\ todo = [p \in Workers |-> {}]
    /\ list = [p \in Workers |-> {}]
    /\ row = [p \in Workers |-> NewOrder]
    /\ dirty = [p \in Workers |-> {}]
    /\ target = [p \in Workers |-> "none"]
    /\ begun = 0
    /\ claimants = [o \in Orders |-> {}]
    /\ handedOver = {} /\ stale = {} /\ changed = {}
    /\ died = FALSE

-----------------------------------------------------------------------------
Goto(p, s) == step' = [step EXCEPT ![p] = s]

Return(p) ==
    /\ handler' = [handler EXCEPT ![p] = "none"]
    /\ step' = [step EXCEPT ![p] = "idle"]
    /\ order' = [order EXCEPT ![p] = None]
    /\ trip' = [trip EXCEPT ![p] = None]
    /\ user' = [user EXCEPT ![p] = None]
    /\ todo' = [todo EXCEPT ![p] = {}]
    /\ list' = [list EXCEPT ![p] = {}]
    /\ row' = [row EXCEPT ![p] = NewOrder]
    /\ dirty' = [dirty EXCEPT ![p] = {}]
    /\ target' = [target EXCEPT ![p] = "none"]

\* Handler k has read what it is about: order o, trip t, user u, orders os; it will
\* save r as the order row, s as the trip's status.
Start(p, k, first, o, t, u, os, r, s) ==
    /\ step[p] = "idle"
    /\ begun < Budget
    /\ begun' = begun + 1
    /\ handler' = [handler EXCEPT ![p] = k]
    /\ step' = [step EXCEPT ![p] = first]
    /\ order' = [order EXCEPT ![p] = o]
    /\ trip' = [trip EXCEPT ![p] = t]
    /\ user' = [user EXCEPT ![p] = u]
    /\ todo' = [todo EXCEPT ![p] = os]
    /\ list' = [list EXCEPT ![p] = os]
    /\ row' = [row EXCEPT ![p] = r]
    /\ target' = [target EXCEPT ![p] = s]
    /\ UNCHANGED <<dirty, claimants, handedOver, stale, died>>

StartOrder(p, k, first, o, u, r) ==
    Start(p, k, first, o, None, u, {}, r, "none") /\ UNCHANGED changed

\* hasPendingCreditApprovalAsync: all that assertCanFulfillAsync looks at.
CanFulfill(o) == o \notin pending

\* requiredAmount is 0 for an order to be paid on or after delivery.
IsPaymentSatisfied(o) == paid[o] >= Required[o]

CanDispatch(o) == CanFulfill(o) /\ IsPaymentSatisfied(o)

Claim(p, o, u) ==
    /\ CanFulfill(o)
    /\ StartOrder(p, "claim", "claim", o, u, NewOrder)
    /\ UNCHANGED tables

\* No status is checked.
Pack(p, o, u) ==
    /\ orders[o].claimedBy = u
    /\ StartOrder(p, "pack", "diffOrder", o, u, [orders[o] EXCEPT !.status = "packed", !.packedBy = u])
    /\ UNCHANGED tables

Fulfill(p, o, u) ==
    /\ orders[o].status = "confirmed"
    /\ StartOrder(p, "fulfill", "checkFulfill", o, u, [orders[o] EXCEPT !.status = "packed", !.packedBy = u])
    /\ UNCHANGED tables

PickUp(p, o) ==
    /\ orders[o].status = "packed"
    /\ o \in Collected
    /\ StartOrder(p, "pickup", "diffOrder", o, None, [orders[o] EXCEPT !.status = "delivered"])
    /\ UNCHANGED tables

\* Mutant: a payment is recorded with the sign of a refund.
PaySubtracting(p, o, n) ==
    /\ paid' = [paid EXCEPT ![o] = @ - n]
    /\ StartOrder(p, "pay", "readOrder", o, None, NewOrder)
    /\ UNCHANGED <<orders, pending, trips, stops, codes>>

\* The payment is committed before the order's payment status is looked at.
Pay(p, o, n) ==
    /\ paid' = [paid EXCEPT ![o] = @ + n]
    /\ StartOrder(p, "pay", "readOrder", o, None, NewOrder)
    /\ UNCHANGED <<orders, pending, trips, stops, codes>>

StartTrip(p, k, first, o, t, os, s) == Start(p, k, first, o, t, None, os, NewOrder, s)

CreateTrip(p, t, os) ==
    /\ trips[t] = "none"
    /\ \A q \in Workers : trip[q] # t
    /\ StartTrip(p, "trip", "checkDispatch", None, t, os, "scheduled")
    /\ UNCHANGED <<tables, changed>>

ChangeTrip(p, t, s) ==
    /\ trips[t] # "none"
    /\ StartTrip(p, "status", "diffTrip", None, t, {}, s)
    /\ changed' = changed \cup {t}
    /\ UNCHANGED tables

\* The customer's code matches and is valid; the stop's status is not checked.
Confirm(p, t, o) ==
    /\ <<t, o>> \in codes
    /\ StartTrip(p, "confirm", "markDelivered", o, t, {}, "completed")
    /\ UNCHANGED <<tables, changed>>

-----------------------------------------------------------------------------
(* Orders.                                                                 *)

\* Mutant: a claimed order can be claimed.
ClaimableAgain(o) == orders[o].status = "confirmed"

Claimable(o) == orders[o].status = "confirmed" /\ orders[o].claimedBy = None

ClaimOrder(p) ==
    /\ step[p] = "claim"
    /\ IF Claimable(order[p])
       THEN /\ orders' = [orders EXCEPT ![order[p]].claimedBy = user[p]]
            /\ claimants' = [claimants EXCEPT ![order[p]] = @ \cup {user[p]}]
       ELSE UNCHANGED <<orders, claimants>>
    /\ Return(p)
    /\ UNCHANGED <<paid, pending, trips, stops, codes, begun, handedOver, stale, changed, died>>

CheckFulfill(p) ==
    /\ step[p] = "checkFulfill"
    /\ IF CanFulfill(order[p])
       THEN Goto(p, "diffOrder") /\ UNCHANGED <<handler, order, trip, user, todo, list, row, dirty, target>>
       ELSE Return(p)
    /\ UNCHANGED <<tables, begun, history>>

ReadOrder(p) ==
    /\ step[p] = "readOrder"
    /\ IF handler[p] = "confirm"
       THEN /\ row' = [row EXCEPT ![p] = [orders[order[p]] EXCEPT !.status = "delivered"]]
            /\ Goto(p, "diffOrder")
       ELSE /\ row' = [row EXCEPT ![p] = orders[order[p]]]
            /\ Goto(p, "sum")
    /\ UNCHANGED <<tables, handler, order, trip, user, todo, list, dirty, target, begun, history>>

PaymentStatus(n, total) == IF n >= total THEN "PAID" ELSE IF n > 0 THEN "PARTIAL" ELSE "UNPAID"

SumPayments(p) ==
    /\ step[p] = "sum"
    /\ LET new == PaymentStatus(paid[order[p]], Total[order[p]]) IN
         IF new = row[p].payment THEN Return(p)
         ELSE /\ row' = [row EXCEPT ![p].payment = new]
              /\ Goto(p, "diffOrder")
              /\ UNCHANGED <<handler, order, trip, user, todo, list, dirty, target>>
    /\ UNCHANGED <<tables, begun, history>>

DiffOrder(p) ==
    /\ step[p] = "diffOrder"
    /\ dirty' = [dirty EXCEPT ![p] = {c \in Columns : row[p][c] # orders[order[p]][c]}]
    /\ Goto(p, "saveOrder")
    /\ UNCHANGED <<tables, handler, order, trip, user, todo, list, row, target, begun, history>>

\* The columns a handler means to change; any other it writes is outdated.
Means == [k \in Kinds |->
    CASE k \in {"pack", "fulfill"}   -> {"status", "packedBy"}
      [] k \in {"pickup", "confirm"} -> {"status"}
      [] k = "pay"                   -> {"payment"}
      [] OTHER                       -> {}]

SaveOrder(p) ==
    /\ step[p] = "saveOrder"
    /\ orders' = [orders EXCEPT ![order[p]] = [c \in Columns |-> IF c \in dirty[p] THEN row[p][c] ELSE @[c]]]
    /\ stale' = IF dirty[p] \subseteq Means[handler[p]] THEN stale ELSE stale \cup {order[p]}
    /\ handedOver' = IF handler[p] = "pickup" THEN handedOver \cup {order[p]} ELSE handedOver
    /\ IF handler[p] = "confirm"
       THEN Goto(p, "readStops") /\ UNCHANGED <<handler, order, trip, user, todo, list, row, dirty, target>>
       ELSE Return(p)
    /\ UNCHANGED <<paid, pending, trips, stops, codes, begun, claimants, changed, died>>

-----------------------------------------------------------------------------
(* Trips.                                                                  *)

CheckDispatch(p) ==
    /\ step[p] = "checkDispatch"
    /\ \E o \in todo[p] :
          IF CanDispatch(o)
          THEN /\ todo' = [todo EXCEPT ![p] = @ \ {o}]
               /\ UNCHANGED <<handler, step, order, trip, user, list, row, dirty, target>>
          ELSE Return(p)
    /\ UNCHANGED <<tables, begun, history>>

\* createTripWithStopsAsync: the trip, its stops and the orders' status in one commit.
InsertTrip(p) ==
    /\ step[p] = "checkDispatch" /\ todo[p] = {}
    /\ trips' = [trips EXCEPT ![trip[p]] = target[p]]
    /\ stops' = [stops EXCEPT ![trip[p]] = [o \in Orders |-> IF o \in list[p] THEN "pending" ELSE "none"]]
    /\ orders' = [o \in Orders |->
                    IF o \in list[p] THEN [orders[o] EXCEPT !.status = "in_transit"] ELSE orders[o]]
    /\ Return(p)
    /\ UNCHANGED <<paid, pending, codes, begun, history>>

\* Mutant: the order is marked, the stop is not.
MarkNothing(p) ==
    /\ step[p] = "markDelivered"
    /\ Goto(p, "readOrder")
    /\ UNCHANGED <<tables, handler, order, trip, user, todo, list, row, dirty, target, begun, history>>

MarkDelivered(p) ==
    /\ step[p] = "markDelivered"
    /\ stops' = [stops EXCEPT ![trip[p]][order[p]] = "delivered"]
    /\ Goto(p, "readOrder")
    /\ UNCHANGED <<orders, paid, pending, trips, codes,
                   handler, order, trip, user, todo, list, row, dirty, target, begun, history>>

StopsOf(t) == {o \in Orders : stops[t][o] # "none"}

\* Mutant: one delivered stop ends the trip.
SomeDelivered(t) == \E o \in StopsOf(t) : stops[t][o] = "delivered"

AllDelivered(t) == \A o \in StopsOf(t) : stops[t][o] = "delivered"

ReadStops(p) ==
    /\ step[p] = "readStops"
    /\ IF AllDelivered(trip[p])
       THEN Goto(p, "diffTrip") /\ UNCHANGED <<handler, order, trip, user, todo, list, row, dirty, target>>
       ELSE Return(p)
    /\ UNCHANGED <<tables, begun, history>>

DiffTrip(p) ==
    /\ step[p] = "diffTrip"
    /\ dirty' = [dirty EXCEPT ![p] = IF trips[trip[p]] # target[p] THEN {"status"} ELSE {}]
    /\ Goto(p, "saveTrip")
    /\ UNCHANGED <<tables, handler, order, trip, user, todo, list, row, target, begun, history>>

SaveTrip(p) ==
    /\ step[p] = "saveTrip"
    /\ trips' = IF dirty[p] = {} THEN trips ELSE [trips EXCEPT ![trip[p]] = target[p]]
    /\ Return(p)
    /\ UNCHANGED <<orders, paid, pending, stops, codes, begun, history>>

-----------------------------------------------------------------------------
\* A code is initiated or resent: one step, as the handler reads and writes nothing but
\* the stop's code.  Its 600 s and the 590 s before the next are taken as equal.
SendCode(t, o) ==
    /\ stops[t][o] # "none" /\ <<t, o>> \notin codes
    /\ codes' = codes \cup {<<t, o>>}
    /\ UNCHANGED <<orders, paid, pending, trips, stops, worker, begun, history>>

Expire(t, o) ==
    /\ <<t, o>> \in codes
    /\ codes' = codes \ {<<t, o>>}
    /\ UNCHANGED <<orders, paid, pending, trips, stops, worker, begun, history>>

CreditRequest(o) ==
    /\ pending' = IF o \in pending THEN pending \ {o} ELSE pending \cup {o}
    /\ UNCHANGED <<orders, paid, trips, stops, codes, worker, begun, history>>

\* The process dies or a statement fails: what was committed stays.
Crash(p) ==
    /\ step[p] # "idle"
    /\ died' = TRUE
    /\ Return(p)
    /\ UNCHANGED <<tables, begun, claimants, handedOver, stale, changed>>

Begin(p) ==
    \/ \E o \in Orders :
          \/ \E u \in Users : Claim(p, o, u) \/ Pack(p, o, u) \/ Fulfill(p, o, u)
          \/ PickUp(p, o)
          \/ \E n \in Amounts : Pay(p, o, n)
          \/ \E t \in Trips : Confirm(p, t, o)
    \/ \E t \in Trips :
          \/ \E os \in (SUBSET Orders) \ {{}} : CreateTrip(p, t, os)
          \/ \E s \in Changes : ChangeTrip(p, t, s)

Work(p) ==
    \/ ClaimOrder(p) \/ CheckFulfill(p) \/ ReadOrder(p) \/ SumPayments(p) \/ DiffOrder(p) \/ SaveOrder(p)
    \/ CheckDispatch(p) \/ InsertTrip(p)
    \/ MarkDelivered(p) \/ ReadStops(p) \/ DiffTrip(p) \/ SaveTrip(p)

Next ==
    \/ \E p \in Workers : Begin(p) \/ Work(p) \/ Crash(p)
    \/ \E t \in Trips, o \in Orders : SendCode(t, o) \/ Expire(t, o)
    \/ \E o \in OnCredit : CreditRequest(o)

Spec == Init /\ [][Next]_vars

-----------------------------------------------------------------------------
Steps == {"idle", "claim", "checkFulfill", "readOrder", "sum", "diffOrder", "saveOrder", "checkDispatch",
          "markDelivered", "readStops", "diffTrip", "saveTrip"}
OrderSteps == {"claim", "checkFulfill", "readOrder", "sum", "diffOrder", "saveOrder", "markDelivered"}
TripSteps == {"checkDispatch", "markDelivered", "readStops", "diffTrip", "saveTrip"}
OrderRow == [status : {"confirmed", "packed", "in_transit", "delivered"},
             claimedBy : Users \cup {None}, packedBy : Users \cup {None},
             payment : {"UNPAID", "PARTIAL", "PAID"}]

\* The type of every table and of every handler's memory; a handler at an order's
\* step has an order, one at a trip's step a trip that exists.
TypeOK ==
    /\ orders \in [Orders -> OrderRow]
    /\ paid \in [Orders -> Nat]
    /\ pending \subseteq Orders
    /\ trips \in [Trips -> TripStatus \cup {"none"}]
    /\ stops \in [Trips -> [Orders -> {"none", "pending", "delivered"}]]
    /\ codes \subseteq Trips \X Orders
    /\ handler \in [Workers -> Kinds \cup {"none"}] /\ step \in [Workers -> Steps]
    /\ order \in [Workers -> Orders \cup {None}] /\ trip \in [Workers -> Trips \cup {None}]
    /\ user \in [Workers -> Users \cup {None}]
    /\ todo \in [Workers -> SUBSET Orders] /\ list \in [Workers -> SUBSET Orders]
    /\ row \in [Workers -> OrderRow] /\ dirty \in [Workers -> SUBSET Columns]
    /\ target \in [Workers -> TripStatus \cup {"none"}]
    /\ \A p \in Workers :
          /\ step[p] = "claim" => user[p] \in Users
          /\ step[p] \in OrderSteps \/ handler[p] = "confirm" => order[p] \in Orders
          /\ step[p] \in TripSteps \/ handler[p] = "confirm" => trip[p] \in Trips /\ target[p] \in TripStatus
    /\ begun \in Nat
    /\ claimants \in [Orders -> SUBSET Users]
    /\ handedOver \subseteq Orders /\ stale \subseteq Orders /\ changed \subseteq Trips
    /\ died \in BOOLEAN

\* An order that was put on a trip has been paid what its payment terms require
\* before dispatch, whatever handlers overlap or die: payments are never taken back
\* here (create-multi-stop-trip.command-handler.ts:28-31).
DispatchedIsPaid == \A t \in Trips : \A o \in StopsOf(t) : paid[o] >= Required[o]

\* An order is Delivered only if a stop of it was confirmed with a code, or the
\* customer collected it, whatever handlers overlap or write back.
DeliveredIsConfirmed ==
    \A o \in Orders : orders[o].status = "delivered" =>
        o \in handedOver \/ \E t \in Trips : stops[t][o] = "delivered"

\* Whatever overlaps, and unless a handler died or a PATCH set the status: once no
\* confirmation is under way a trip is completed exactly when its last stop is
\* delivered (the stop is marked before the stops are read, confirm-delivery-otp.
\* command-handler.ts:52, 76).
TripFollowsStops ==
    ~died => \A t \in Trips :
        trips[t] # "none" /\ t \notin changed /\ (\A p \in Workers : trip[p] # t \/ handler[p] # "confirm")
            => (trips[t] = "completed" <=> \A o \in StopsOf(t) : stops[t][o] # "pending")

\* One picker claims an order, unless a handler wrote back an outdated row of it.
ClaimedByOne == \A o \in Orders \ stale : Cardinality(claimants[o]) <= 1
=============================================================================
