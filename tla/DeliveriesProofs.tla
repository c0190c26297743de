-------------------------- MODULE DeliveriesProofs --------------------------
(***************************************************************************)
(* Theorems about Deliveries for any orders, trips, users, payments and    *)
(* handlers: type correctness, that an order on a trip is paid for as its  *)
(* terms say, that a delivered order was confirmed or collected, that one  *)
(* user claims it, and that a trip follows its stops.                      *)
(***************************************************************************)
EXTENDS Deliveries, FiniteSetTheorems, TLAPS

-----------------------------------------------------------------------------
(* Type correctness.                                                       *)

LEMMA NewOrderType == NewOrder \in OrderRow
  BY DEF NewOrder, OrderRow

LEMMA ReturnType ==
    ASSUME TypeOK, NEW p \in Workers, Return(p), UNCHANGED <<begun, changed>>,
           orders' \in [Orders -> OrderRow],
           UNCHANGED <<paid, pending, codes>>,
           trips' \in [Trips -> TripStatus \cup {"none"}],
           stops' \in [Trips -> [Orders -> {"none", "pending", "delivered"}]],
           claimants' \in [Orders -> SUBSET Users],
           handedOver' \subseteq Orders, stale' \subseteq Orders, died' \in BOOLEAN
    PROVE  TypeOK'
  BY NewOrderType DEF TypeOK, Return, Steps, Kinds, OrderSteps, TripSteps

LEMMA GotoType ==
    ASSUME TypeOK, NEW p \in Workers, NEW s \in Steps, Goto(p, s),
           s # "claim",
           s \in OrderSteps => order[p] \in Orders,
           s \in TripSteps => trip[p] \in Trips /\ target[p] \in TripStatus,
           UNCHANGED <<handler, order, trip, user, target, begun, paid, pending, codes, trips,
                       claimants, changed, died>>,
           orders' \in [Orders -> OrderRow],
           stops' \in [Trips -> [Orders -> {"none", "pending", "delivered"}]],
           todo' \in [Workers -> SUBSET Orders], list' \in [Workers -> SUBSET Orders],
           row' \in [Workers -> OrderRow], dirty' \in [Workers -> SUBSET Columns],
           handedOver' \subseteq Orders, stale' \subseteq Orders
    PROVE  TypeOK'
  BY DEF TypeOK, Goto

LEMMA StartType ==
    ASSUME TypeOK, NEW p \in Workers, NEW k \in Kinds, NEW first \in Steps,
           NEW o \in Orders \cup {None}, NEW t \in Trips \cup {None}, NEW u \in Users \cup {None},
           NEW os \in SUBSET Orders, NEW r \in OrderRow, NEW s \in TripStatus \cup {"none"},
           Start(p, k, first, o, t, u, os, r, s),
           first = "claim" => u \in Users,
           first \in OrderSteps \/ k = "confirm" => o \in Orders,
           first \in TripSteps \/ k = "confirm" => t \in Trips /\ s \in TripStatus,
           paid' \in [Orders -> Nat], UNCHANGED <<orders, pending, trips, stops, codes>>,
           changed' \subseteq Trips
    PROVE  TypeOK'
  BY DEF TypeOK, Start

LEMMA StartOrderType ==
    ASSUME TypeOK, NEW p \in Workers, NEW k \in Kinds \ {"confirm"}, NEW first \in OrderSteps \ {"markDelivered"},
           NEW o \in Orders, NEW u \in Users \cup {None}, NEW r \in OrderRow,
           StartOrder(p, k, first, o, u, r), first = "claim" => u \in Users,
           paid' \in [Orders -> Nat], UNCHANGED <<orders, pending, trips, stops, codes>>
    PROVE  TypeOK'
  <1>1. changed' \subseteq Trips
    BY DEF StartOrder, TypeOK
  <1>2. first \in Steps /\ first \notin TripSteps
    BY DEF OrderSteps, Steps, TripSteps
  <1>3. Start(p, k, first, o, None, u, {}, r, "none")
    BY DEF StartOrder
  <1> QED
    BY <1>1, <1>2, <1>3, StartType

LEMMA StartTripType ==
    ASSUME TypeOK, NEW p \in Workers, NEW k \in Kinds, NEW first \in TripSteps,
           NEW o \in Orders \cup {None}, NEW t \in Trips, NEW os \in SUBSET Orders, NEW s \in TripStatus,
           first = "markDelivered" \/ k = "confirm" => o \in Orders,
           StartTrip(p, k, first, o, t, os, s), UNCHANGED tables, changed' \subseteq Trips
    PROVE  TypeOK'
  <1>1. first \in Steps /\ first # "claim" /\ (first \in OrderSteps => first = "markDelivered")
    BY DEF OrderSteps, Steps, TripSteps
  <1>2. Start(p, k, first, o, t, None, os, NewOrder, s)
    BY DEF StartTrip
  <1>3. paid' \in [Orders -> Nat] /\ UNCHANGED <<orders, pending, trips, stops, codes>>
    BY DEF tables, TypeOK
  <1> QED
    BY <1>1, <1>2, <1>3, StartType, NewOrderType

LEMMA BeginType ==
    ASSUME TypeOK, NEW p \in Workers, Begin(p)
    PROVE  TypeOK'
  <1>1. ASSUME NEW o \in Orders, NEW u \in Users, Claim(p, o, u) PROVE TypeOK'
    BY <1>1, StartOrderType, NewOrderType DEF Claim, tables, TypeOK, Kinds, OrderSteps
  <1>2. ASSUME NEW o \in Orders, NEW u \in Users, Pack(p, o, u) \/ Fulfill(p, o, u) PROVE TypeOK'
    <2>0. orders[o] \in OrderRow
      BY DEF TypeOK
    <2>1. [orders[o] EXCEPT !.status = "packed", !.packedBy = u] \in OrderRow
      BY <2>0 DEF OrderRow
    <2>2. paid' \in [Orders -> Nat] /\ UNCHANGED <<orders, pending, trips, stops, codes>>
      BY <1>2 DEF Pack, Fulfill, tables, TypeOK
    <2>3. CASE Pack(p, o, u)
      BY <2>1, <2>2, <2>3, StartOrderType DEF Pack, Kinds, OrderSteps
    <2>4. CASE Fulfill(p, o, u)
      BY <2>1, <2>2, <2>4, StartOrderType DEF Fulfill, Kinds, OrderSteps
    <2> QED
      BY <1>2, <2>3, <2>4
  <1>3. ASSUME NEW o \in Orders, PickUp(p, o) PROVE TypeOK'
    <2>1. orders[o] \in OrderRow
      BY DEF TypeOK
    <2>2. [orders[o] EXCEPT !.status = "delivered"] \in OrderRow
      BY <2>1 DEF OrderRow
    <2>3. paid' \in [Orders -> Nat] /\ UNCHANGED <<orders, pending, trips, stops, codes>>
      BY <1>3 DEF PickUp, tables, TypeOK
    <2>4. StartOrder(p, "pickup", "diffOrder", o, None, [orders[o] EXCEPT !.status = "delivered"])
      BY <1>3 DEF PickUp
    <2> QED
      BY <2>2, <2>3, <2>4, StartOrderType DEF Kinds, OrderSteps
  <1>4. ASSUME NEW o \in Orders, NEW n \in Amounts, Pay(p, o, n) PROVE TypeOK'
    <2>1. paid' \in [Orders -> Nat]
      BY <1>4, AmountsAssumption DEF Pay, TypeOK
    <2> QED
      BY <1>4, <2>1, StartOrderType, NewOrderType DEF Pay, Kinds, OrderSteps
  <1>5. ASSUME NEW o \in Orders, NEW t \in Trips, Confirm(p, t, o) PROVE TypeOK'
    BY <1>5, StartTripType DEF Confirm, TypeOK, Kinds, TripSteps, TripStatus
  <1>6. ASSUME NEW t \in Trips, NEW os \in (SUBSET Orders) \ {{}}, CreateTrip(p, t, os) PROVE TypeOK'
    BY <1>6, StartTripType DEF CreateTrip, TypeOK, Kinds, TripSteps, TripStatus
  <1>7. ASSUME NEW t \in Trips, NEW s \in Changes, ChangeTrip(p, t, s) PROVE TypeOK'
    BY <1>7, StartTripType, ChangesAssumption DEF ChangeTrip, TypeOK, Kinds, TripSteps
  <1> QED
    BY <1>1, <1>2, <1>3, <1>4, <1>5, <1>6, <1>7 DEF Begin

LEMMA WorkType ==
    ASSUME TypeOK, NEW p \in Workers, Work(p)
    PROVE  TypeOK'
  <1>1. ASSUME ClaimOrder(p) PROVE TypeOK'
    <2>1. order[p] \in Orders /\ user[p] \in Users
      BY <1>1 DEF ClaimOrder, TypeOK, OrderSteps
    <2>2. orders' \in [Orders -> OrderRow]
      <3>1. orders[order[p]] \in OrderRow
        BY <2>1 DEF TypeOK
      <3>2. [orders[order[p]] EXCEPT !.claimedBy = user[p]] \in OrderRow
        BY <2>1, <3>1 DEF OrderRow
      <3> QED
        BY <1>1, <3>2 DEF ClaimOrder, TypeOK
    <2>3. claimants' \in [Orders -> SUBSET Users]
      <3>1. claimants \in [Orders -> SUBSET Users]
        BY DEF TypeOK
      <3>2. claimants[order[p]] \cup {user[p]} \in SUBSET Users
        BY <2>1, <3>1
      <3> QED
        BY <1>1, <2>1, <3>1, <3>2 DEF ClaimOrder
    <2> QED
      BY <1>1, <2>2, <2>3, ReturnType DEF ClaimOrder, TypeOK
  <1>2. ASSUME CheckFulfill(p) PROVE TypeOK'
    <2>1. order[p] \in Orders
      BY <1>2 DEF CheckFulfill, TypeOK, OrderSteps
    <2>2. CASE ~CanFulfill(order[p])
      BY <1>2, <2>2, ReturnType DEF CheckFulfill, tables, history, TypeOK
    <2>3. CASE CanFulfill(order[p])
      BY <1>2, <2>1, <2>3, GotoType DEF CheckFulfill, tables, history, TypeOK, Steps, TripSteps
    <2> QED
      BY <2>2, <2>3
  <1>3. ASSUME ReadOrder(p) PROVE TypeOK'
    <2>1. order[p] \in Orders /\ orders[order[p]] \in OrderRow
      BY <1>3 DEF ReadOrder, TypeOK, OrderSteps
    <2>2. [orders[order[p]] EXCEPT !.status = "delivered"] \in OrderRow
      BY <2>1 DEF OrderRow
    <2>3. row' \in [Workers -> OrderRow]
      BY <1>3, <2>1, <2>2 DEF ReadOrder, TypeOK
    <2>4. Goto(p, "diffOrder") \/ Goto(p, "sum")
      BY <1>3 DEF ReadOrder
    <2> QED
      BY <1>3, <2>1, <2>3, <2>4, GotoType DEF ReadOrder, tables, history, TypeOK, Steps, TripSteps
  <1>4. ASSUME SumPayments(p) PROVE TypeOK'
    <2> DEFINE new == PaymentStatus(paid[order[p]], Total[order[p]])
    <2>1. order[p] \in Orders /\ row[p] \in OrderRow
      BY <1>4 DEF SumPayments, TypeOK, OrderSteps
    <2>2. [row[p] EXCEPT !.payment = new] \in OrderRow
      BY <2>1 DEF OrderRow, PaymentStatus
    <2>3. CASE new = row[p].payment
      BY <1>4, <2>3, ReturnType DEF SumPayments, tables, history, TypeOK
    <2>4. CASE new # row[p].payment
      <3>1. row' \in [Workers -> OrderRow]
        BY <1>4, <2>2, <2>4 DEF SumPayments, TypeOK
      <3> QED
        BY <1>4, <2>1, <2>4, <3>1, GotoType DEF SumPayments, tables, history, TypeOK, Steps, TripSteps
    <2> QED
      BY <2>3, <2>4
  <1>5. ASSUME DiffOrder(p) PROVE TypeOK'
    <2>1. order[p] \in Orders
      BY <1>5 DEF DiffOrder, TypeOK, OrderSteps
    <2>2. dirty' \in [Workers -> SUBSET Columns]
      BY <1>5 DEF DiffOrder, TypeOK
    <2> QED
      BY <1>5, <2>1, <2>2, GotoType DEF DiffOrder, tables, history, TypeOK, Steps, TripSteps
  <1>6. ASSUME SaveOrder(p) PROVE TypeOK'
    <2>1. order[p] \in Orders /\ orders[order[p]] \in OrderRow /\ row[p] \in OrderRow
      BY <1>6 DEF SaveOrder, TypeOK, OrderSteps
    <2>2. orders' \in [Orders -> OrderRow]
      BY <1>6, <2>1 DEF SaveOrder, TypeOK, OrderRow, Columns
    <2>3. handedOver' \subseteq Orders /\ stale' \subseteq Orders
      BY <1>6, <2>1 DEF SaveOrder, TypeOK
    <2>4. CASE handler[p] = "confirm"
      <3>1. trip[p] \in Trips /\ target[p] \in TripStatus
        BY <2>4 DEF TypeOK
      <3>2. Goto(p, "readStops") /\ UNCHANGED <<handler, order, trip, user, todo, list, row, dirty, target>>
        BY <1>6, <2>4 DEF SaveOrder
      <3>3. UNCHANGED <<paid, pending, trips, stops, codes, begun, claimants, changed, died>>
        BY <1>6 DEF SaveOrder
      <3> QED
        BY <2>2, <2>3, <3>1, <3>2, <3>3, GotoType DEF TypeOK, Steps, OrderSteps
    <2>5. CASE handler[p] # "confirm"
      <3>1. Return(p) /\ UNCHANGED <<paid, pending, trips, stops, codes, begun, claimants, changed, died>>
        BY <1>6, <2>5 DEF SaveOrder
      <3> QED
        BY <2>2, <2>3, <3>1, ReturnType DEF TypeOK
    <2> QED
      BY <2>4, <2>5
  <1>7. ASSUME CheckDispatch(p) PROVE TypeOK'
    <2>1. PICK o \in todo[p] :
             \/ Return(p)
             \/ /\ todo' = [todo EXCEPT ![p] = @ \ {o}]
                /\ UNCHANGED <<handler, step, order, trip, user, list, row, dirty, target>>
      BY <1>7 DEF CheckDispatch
    <2>2. CASE Return(p)
      BY <1>7, <2>2, ReturnType DEF CheckDispatch, tables, history, TypeOK
    <2>3. CASE ~Return(p)
      BY <1>7, <2>1, <2>3 DEF CheckDispatch, tables, history, TypeOK
    <2> QED
      BY <2>2, <2>3
  <1>8. ASSUME InsertTrip(p) PROVE TypeOK'
    <2>1. trip[p] \in Trips /\ target[p] \in TripStatus
      BY <1>8 DEF InsertTrip, TypeOK, TripSteps
    <2>2. ASSUME NEW o \in Orders
          PROVE  orders[o] \in OrderRow /\ [orders[o] EXCEPT !.status = "in_transit"] \in OrderRow
      <3>1. orders[o] \in OrderRow
        BY DEF TypeOK
      <3> QED
        BY <3>1 DEF OrderRow
    <2>3. orders' \in [Orders -> OrderRow]
      BY <1>8, <2>2 DEF InsertTrip
    <2>4. /\ trips' \in [Trips -> TripStatus \cup {"none"}]
          /\ stops' \in [Trips -> [Orders -> {"none", "pending", "delivered"}]]
      BY <1>8, <2>1 DEF InsertTrip, TypeOK
    <2> QED
      BY <1>8, <2>3, <2>4, ReturnType DEF InsertTrip, history, TypeOK
  <1>9. ASSUME MarkDelivered(p) PROVE TypeOK'
    <2>1. order[p] \in Orders
      BY <1>9 DEF MarkDelivered, TypeOK, OrderSteps
    <2>2. stops' \in [Trips -> [Orders -> {"none", "pending", "delivered"}]]
      BY <1>9 DEF MarkDelivered, TypeOK
    <2> QED
      BY <1>9, <2>1, <2>2, GotoType DEF MarkDelivered, history, TypeOK, Steps, TripSteps
  <1>10. ASSUME ReadStops(p) PROVE TypeOK'
    <2>1. trip[p] \in Trips /\ target[p] \in TripStatus
      BY <1>10 DEF ReadStops, TypeOK, TripSteps
    <2>2. CASE AllDelivered(trip[p])
      BY <1>10, <2>1, <2>2, GotoType DEF ReadStops, tables, history, TypeOK, Steps, OrderSteps
    <2>3. CASE ~AllDelivered(trip[p])
      BY <1>10, <2>3, ReturnType DEF ReadStops, tables, history, TypeOK
    <2> QED
      BY <2>2, <2>3
  <1>11. ASSUME DiffTrip(p) PROVE TypeOK'
    <2>1. trip[p] \in Trips /\ target[p] \in TripStatus
      BY <1>11 DEF DiffTrip, TypeOK, TripSteps
    <2>2. dirty' \in [Workers -> SUBSET Columns]
      BY <1>11 DEF DiffTrip, TypeOK, Columns
    <2> QED
      BY <1>11, <2>1, <2>2, GotoType DEF DiffTrip, tables, history, TypeOK, Steps, OrderSteps
  <1>12. ASSUME SaveTrip(p) PROVE TypeOK'
    <2>1. trip[p] \in Trips /\ target[p] \in TripStatus
      BY <1>12 DEF SaveTrip, TypeOK, TripSteps
    <2>2. trips' \in [Trips -> TripStatus \cup {"none"}]
      BY <1>12, <2>1 DEF SaveTrip, TypeOK
    <2> QED
      BY <1>12, <2>2, ReturnType DEF SaveTrip, history, TypeOK
  <1> QED
    BY <1>1, <1>2, <1>3, <1>4, <1>5, <1>6, <1>7, <1>8, <1>9, <1>10, <1>11, <1>12 DEF Work

LEMMA TypeStep == TypeOK /\ [Next]_vars => TypeOK'
  <1> SUFFICES ASSUME TypeOK, [Next]_vars PROVE TypeOK'
    OBVIOUS
  <1>1. ASSUME NEW t \in Trips, NEW o \in Orders, SendCode(t, o) \/ Expire(t, o) PROVE TypeOK'
    BY <1>1 DEF SendCode, Expire, worker, history, TypeOK
  <1>2. ASSUME NEW o \in OnCredit, CreditRequest(o) PROVE TypeOK'
    BY <1>2, OnCreditAssumption DEF CreditRequest, worker, history, TypeOK
  <1>3. ASSUME NEW p \in Workers, Crash(p) PROVE TypeOK'
    BY <1>3, ReturnType DEF Crash, tables, TypeOK
  <1>4. CASE UNCHANGED vars
    BY <1>4 DEF vars, tables, worker, history, TypeOK
  <1> QED
    BY <1>1, <1>2, <1>3, <1>4, BeginType, WorkType DEF Next

LEMMA TypeInit == Init => TypeOK
  <1> SUFFICES ASSUME Init PROVE TypeOK
    OBVIOUS
  <1>1. /\ orders \in [Orders -> OrderRow]
        /\ row \in [Workers -> OrderRow]
    BY NewOrderType DEF Init
  <1>2. /\ paid \in [Orders -> Nat] /\ pending \subseteq Orders
        /\ trips \in [Trips -> TripStatus \cup {"none"}]
        /\ stops \in [Trips -> [Orders -> {"none", "pending", "delivered"}]]
        /\ codes \subseteq Trips \X Orders
        /\ claimants \in [Orders -> SUBSET Users]
        /\ handedOver \subseteq Orders /\ stale \subseteq Orders /\ changed \subseteq Trips
    BY DEF Init
  <1>3. /\ handler \in [Workers -> Kinds \cup {"none"}] /\ step \in [Workers -> Steps]
        /\ order \in [Workers -> Orders \cup {None}] /\ trip \in [Workers -> Trips \cup {None}]
        /\ user \in [Workers -> Users \cup {None}]
        /\ todo \in [Workers -> SUBSET Orders] /\ list \in [Workers -> SUBSET Orders]
        /\ dirty \in [Workers -> SUBSET Columns]
        /\ target \in [Workers -> TripStatus \cup {"none"}]
        /\ begun \in Nat /\ died \in BOOLEAN
    BY DEF Init, Steps
  <1>4. \A p \in Workers : step[p] = "idle" /\ handler[p] = "none"
    BY DEF Init
  <1> QED
    BY <1>1, <1>2, <1>3, <1>4 DEF TypeOK, OrderSteps, TripSteps

\* Every table and every handler's memory keeps its type, whatever overlaps or dies:
\* a handler that saves an order or a trip knows which.
THEOREM TypeCorrect == Spec => []TypeOK
  BY TypeInit, TypeStep, PTL DEF Spec

-----------------------------------------------------------------------------
(* What is dispatched is paid for.                                         *)

Paid(o) == paid[o] >= Required[o]

\* The invariant behind DispatchedIsPaid: orders a trip's creation has checked are
\* paid for before the trip exists, and payments only grow.
PaidAllAlong ==
    /\ DispatchedIsPaid
    /\ \A c \in codes : Paid(c[2])
    /\ \A p \in Workers :
          /\ step[p] = "markDelivered" => Paid(order[p])
          /\ step[p] = "checkDispatch" => \A o \in list[p] \ todo[p] : Paid(o)

LEMMA PaymentsGrow ==
    ASSUME TypeOK, [Next]_vars, NEW o \in Orders
    PROVE  paid[o] \in Nat /\ paid'[o] \in Nat /\ paid'[o] >= paid[o] /\ Required[o] \in Nat
  <1>1. paid[o] \in Nat /\ Required[o] \in Nat
    BY TotalAssumption DEF TypeOK
  <1>2. ASSUME NEW p \in Workers, NEW a \in Orders, NEW n \in Amounts, Pay(p, a, n)
        PROVE  paid'[o] \in Nat /\ paid'[o] >= paid[o]
    BY <1>1, <1>2, AmountsAssumption DEF Pay, TypeOK
  <1>3. ASSUME NEW p \in Workers, NEW a \in Orders, NEW t \in Trips,
               (\E u \in Users : Claim(p, a, u) \/ Pack(p, a, u) \/ Fulfill(p, a, u))
               \/ PickUp(p, a) \/ Confirm(p, t, a)
        PROVE  paid' = paid
    BY <1>3 DEF Claim, Pack, Fulfill, PickUp, Confirm, tables
  <1>4. ASSUME NEW p \in Workers, NEW t \in Trips,
               (\E os \in (SUBSET Orders) \ {{}} : CreateTrip(p, t, os)) \/ (\E s \in Changes : ChangeTrip(p, t, s))
        PROVE  paid' = paid
    BY <1>4 DEF CreateTrip, ChangeTrip, tables
  <1>5. ASSUME NEW p \in Workers, Work(p) \/ Crash(p)
        PROVE  paid' = paid
    BY <1>5 DEF Work, ClaimOrder, CheckFulfill, ReadOrder, SumPayments, DiffOrder, SaveOrder, CheckDispatch,
                InsertTrip, MarkDelivered, ReadStops, DiffTrip, SaveTrip, Crash, tables
  <1>6. ASSUME (\E t \in Trips, a \in Orders : SendCode(t, a) \/ Expire(t, a))
               \/ (\E a \in OnCredit : CreditRequest(a)) \/ UNCHANGED vars
        PROVE  paid' = paid
    BY <1>6 DEF SendCode, Expire, CreditRequest, vars, tables
  <1>7. ASSUME NEW p \in Workers, Begin(p)
        PROVE  paid'[o] \in Nat /\ paid'[o] >= paid[o]
    <2>1. ASSUME NEW a \in Orders, \E u \in Users : Claim(p, a, u) \/ Pack(p, a, u) \/ Fulfill(p, a, u)
          PROVE  paid' = paid
      BY <2>1 DEF Claim, Pack, Fulfill, tables
    <2>2. ASSUME NEW a \in Orders, PickUp(p, a) PROVE paid' = paid
      BY <2>2 DEF PickUp, tables
    <2> QED
      BY <1>1, <1>2, <1>3, <1>4, <1>7, <2>1, <2>2 DEF Begin
  <1> QED
    BY <1>1, <1>5, <1>6, <1>7 DEF Next

\* Steps that put no order on a trip, send no code and begin neither a trip nor a
\* confirmation.
LEMMA PaidFrame ==
    ASSUME PaidAllAlong, stops' = stops, codes' \subseteq codes,
           \A o \in Orders : Paid(o) => Paid(o)',
           codes \subseteq Trips \X Orders,
           \A p \in Workers :
              /\ step[p] = "markDelivered" => order[p] \in Orders
              /\ list[p] \subseteq Orders
              /\ step'[p] = "markDelivered" => step[p] = "markDelivered" /\ order'[p] = order[p]
              /\ step'[p] = "checkDispatch" => step[p] = "checkDispatch" /\ list'[p] = list[p] /\ todo'[p] = todo[p]
    PROVE  PaidAllAlong'
  <1>1. DispatchedIsPaid'
    BY DEF PaidAllAlong, DispatchedIsPaid, StopsOf, Paid
  <1>2. \A c \in codes' : Paid(c[2])'
    BY DEF PaidAllAlong
  <1>3. ASSUME NEW p \in Workers
        PROVE  /\ step'[p] = "markDelivered" => Paid(order[p])'
               /\ step'[p] = "checkDispatch" => \A o \in list'[p] \ todo'[p] : Paid(o)'
    BY DEF PaidAllAlong, Paid
  <1> QED
    BY <1>1, <1>2, <1>3 DEF PaidAllAlong

LEMMA PaidStep == TypeOK /\ PaidAllAlong /\ [Next]_vars => PaidAllAlong'
  <1> SUFFICES ASSUME TypeOK, PaidAllAlong, [Next]_vars PROVE PaidAllAlong'
    OBVIOUS
  <1>1. \A o \in Orders : Paid(o) => Paid(o)'
    BY PaymentsGrow DEF Paid
  <1>2. /\ codes \subseteq Trips \X Orders
        /\ \A p \in Workers : (step[p] = "markDelivered" => order[p] \in Orders) /\ list[p] \subseteq Orders
    BY DEF TypeOK, OrderSteps
  <1>3. ASSUME NEW p \in Workers, NEW o \in Orders,
               (\E u \in Users : Claim(p, o, u) \/ Pack(p, o, u) \/ Fulfill(p, o, u))
               \/ PickUp(p, o) \/ \E n \in Amounts : Pay(p, o, n)
        PROVE  PaidAllAlong'
    <2>1. stops' = stops /\ codes' = codes
      BY <1>3 DEF Claim, Pack, Fulfill, PickUp, Pay, tables
    <2>2. \A q \in Workers : /\ step'[q] = "markDelivered" => step[q] = "markDelivered" /\ order'[q] = order[q]
                             /\ step'[q] = "checkDispatch" =>
                                   step[q] = "checkDispatch" /\ list'[q] = list[q] /\ todo'[q] = todo[q]
      <3>1. PICK first \in {"claim", "diffOrder", "checkFulfill", "readOrder"} :
               /\ step' = [step EXCEPT ![p] = first]
               /\ \E x : order' = [order EXCEPT ![p] = x]
               /\ \E x : list' = [list EXCEPT ![p] = x]
               /\ \E x : todo' = [todo EXCEPT ![p] = x]
        <4>1. CASE \E u \in Users : Claim(p, o, u)
          BY <4>1 DEF Claim, StartOrder, Start
        <4>2. CASE \E u \in Users : Pack(p, o, u)
          BY <4>2 DEF Pack, StartOrder, Start
        <4>3. CASE \E u \in Users : Fulfill(p, o, u)
          BY <4>3 DEF Fulfill, StartOrder, Start
        <4>4. CASE PickUp(p, o)
          BY <4>4 DEF PickUp, StartOrder, Start
        <4>5. CASE \E n \in Amounts : Pay(p, o, n)
          BY <4>5 DEF Pay, StartOrder, Start
        <4> QED
          BY <1>3, <4>1, <4>2, <4>3, <4>4, <4>5
      <3> QED
        BY <3>1 DEF TypeOK
    <2> QED
      BY <1>1, <1>2, <2>1, <2>2, PaidFrame
  <1>4. ASSUME NEW p \in Workers, NEW t \in Trips, NEW s \in Changes, ChangeTrip(p, t, s) PROVE PaidAllAlong'
    <2>1. stops' = stops /\ codes' = codes
      BY <1>4 DEF ChangeTrip, tables
    <2>2. \A q \in Workers : /\ step'[q] = "markDelivered" => step[q] = "markDelivered" /\ order'[q] = order[q]
                             /\ step'[q] = "checkDispatch" =>
                                   step[q] = "checkDispatch" /\ list'[q] = list[q] /\ todo'[q] = todo[q]
      BY <1>4 DEF ChangeTrip, StartTrip, Start, TypeOK
    <2> QED
      BY <1>1, <1>2, <2>1, <2>2, PaidFrame
  <1>5. ASSUME NEW p \in Workers, NEW t \in Trips, NEW os \in (SUBSET Orders) \ {{}}, CreateTrip(p, t, os)
        PROVE  PaidAllAlong'
    <2>1. stops' = stops /\ codes' = codes /\ paid' = paid
      BY <1>5 DEF CreateTrip, tables
    <2>2. step' = [step EXCEPT ![p] = "checkDispatch"] /\ list'[p] = os /\ todo'[p] = os
      BY <1>5 DEF CreateTrip, StartTrip, Start, TypeOK
    <2>3. \A q \in Workers \ {p} : step'[q] = step[q] /\ order'[q] = order[q] /\ list'[q] = list[q] /\ todo'[q] = todo[q]
      BY <1>5 DEF CreateTrip, StartTrip, Start, TypeOK
    <2>4. step'[p] = "checkDispatch"
      BY <2>2 DEF TypeOK
    <2> QED
      BY <2>1, <2>2, <2>3, <2>4 DEF PaidAllAlong, DispatchedIsPaid, StopsOf, Paid
  <1>6. ASSUME NEW p \in Workers, NEW t \in Trips, NEW o \in Orders, Confirm(p, t, o) PROVE PaidAllAlong'
    <2>1. stops' = stops /\ codes' = codes /\ paid' = paid
      BY <1>6 DEF Confirm, tables
    <2>2. step'[p] = "markDelivered" /\ order'[p] = o
      BY <1>6 DEF Confirm, StartTrip, Start, TypeOK
    <2>3. \A q \in Workers \ {p} : step'[q] = step[q] /\ order'[q] = order[q] /\ list'[q] = list[q] /\ todo'[q] = todo[q]
      BY <1>6 DEF Confirm, StartTrip, Start, TypeOK
    <2>4. Paid(o)
      BY <1>6 DEF Confirm, PaidAllAlong
    <2> QED
      BY <2>1, <2>2, <2>3, <2>4 DEF PaidAllAlong, DispatchedIsPaid, StopsOf, Paid
  <1>7. ASSUME NEW p \in Workers, ClaimOrder(p) \/ CheckFulfill(p) \/ ReadOrder(p) \/ SumPayments(p) \/ DiffOrder(p)
        PROVE  PaidAllAlong'
    <2>1. stops' = stops /\ codes' = codes
      BY <1>7 DEF ClaimOrder, CheckFulfill, ReadOrder, SumPayments, DiffOrder, tables
    <2>2. \A q \in Workers : /\ step'[q] = "markDelivered" => step[q] = "markDelivered" /\ order'[q] = order[q]
                             /\ step'[q] = "checkDispatch" =>
                                   step[q] = "checkDispatch" /\ list'[q] = list[q] /\ todo'[q] = todo[q]
      BY <1>7 DEF ClaimOrder, CheckFulfill, ReadOrder, SumPayments, DiffOrder, Return, Goto, TypeOK
    <2> QED
      BY <1>1, <1>2, <2>1, <2>2, PaidFrame
  <1>8. ASSUME NEW p \in Workers, SaveOrder(p) \/ ReadStops(p) \/ DiffTrip(p) \/ SaveTrip(p) \/ Crash(p)
        PROVE  PaidAllAlong'
    <2>1. stops' = stops /\ codes' = codes
      BY <1>8 DEF SaveOrder, ReadStops, DiffTrip, SaveTrip, Crash, tables
    <2>2. \A q \in Workers : /\ step'[q] = "markDelivered" => step[q] = "markDelivered" /\ order'[q] = order[q]
                             /\ step'[q] = "checkDispatch" =>
                                   step[q] = "checkDispatch" /\ list'[q] = list[q] /\ todo'[q] = todo[q]
      BY <1>8 DEF SaveOrder, ReadStops, DiffTrip, SaveTrip, Crash, Return, Goto, TypeOK
    <2> QED
      BY <1>1, <1>2, <2>1, <2>2, PaidFrame
  <1>9. ASSUME NEW p \in Workers, CheckDispatch(p) PROVE PaidAllAlong'
    <2>1. PICK o \in todo[p] :
             IF CanDispatch(o)
             THEN /\ todo' = [todo EXCEPT ![p] = @ \ {o}]
                  /\ UNCHANGED <<handler, step, order, trip, user, list, row, dirty, target>>
             ELSE Return(p)
      BY <1>9 DEF CheckDispatch
    <2>2. stops' = stops /\ codes' = codes /\ paid' = paid
      BY <1>9 DEF CheckDispatch, tables
    <2>3. CASE CanDispatch(o)
      <3>1. Paid(o)
        BY <2>3 DEF CanDispatch, IsPaymentSatisfied, Paid
      <3>2. /\ step' = step /\ order' = order /\ list' = list
            /\ \A q \in Workers : todo'[q] = IF q = p THEN todo[p] \ {o} ELSE todo[q]
        BY <2>1, <2>3 DEF TypeOK
      <3> QED
        BY <2>2, <3>1, <3>2 DEF PaidAllAlong, DispatchedIsPaid, StopsOf, Paid
    <2>4. CASE ~CanDispatch(o)
      <3>1. \A q \in Workers : /\ step'[q] = "markDelivered" => step[q] = "markDelivered" /\ order'[q] = order[q]
                               /\ step'[q] = "checkDispatch" =>
                                     step[q] = "checkDispatch" /\ list'[q] = list[q] /\ todo'[q] = todo[q]
        BY <2>1, <2>4 DEF Return, TypeOK
      <3> QED
        BY <1>1, <1>2, <2>2, <3>1, PaidFrame
    <2> QED
      BY <2>3, <2>4
  <1>10. ASSUME NEW p \in Workers, InsertTrip(p) PROVE PaidAllAlong'
    <2>1. \A o \in list[p] : Paid(o)
      BY <1>10 DEF InsertTrip, PaidAllAlong
    <2>2. codes' = codes /\ paid' = paid /\ trip[p] \in Trips
      BY <1>10 DEF InsertTrip, TypeOK, TripSteps
    <2>3. ASSUME NEW t \in Trips, NEW o \in Orders, stops'[t][o] # "none"
          PROVE  Paid(o)
      <3>1. CASE t = trip[p]
        BY <1>10, <2>1, <2>3, <3>1 DEF InsertTrip, TypeOK
      <3>2. CASE t # trip[p]
        BY <1>10, <2>3, <3>2 DEF InsertTrip, TypeOK, PaidAllAlong, DispatchedIsPaid, StopsOf, Paid
      <3> QED
        BY <3>1, <3>2
    <2>4. step'[p] = "idle" /\ \A q \in Workers \ {p} : step'[q] = step[q] /\ order'[q] = order[q]
                                                        /\ list'[q] = list[q] /\ todo'[q] = todo[q]
      BY <1>10 DEF InsertTrip, Return, TypeOK
    <2> QED
      BY <2>2, <2>3, <2>4 DEF PaidAllAlong, DispatchedIsPaid, StopsOf, Paid
  <1>11. ASSUME NEW p \in Workers, MarkDelivered(p) PROVE PaidAllAlong'
    <2>1. Paid(order[p]) /\ order[p] \in Orders
      BY <1>2, <1>11 DEF MarkDelivered, PaidAllAlong
    <2>2. codes' = codes /\ paid' = paid
      BY <1>11 DEF MarkDelivered
    <2>3. \A t \in Trips, o \in Orders : stops'[t][o] = stops[t][o] \/ o = order[p]
      BY <1>11 DEF MarkDelivered, TypeOK
    <2>4. /\ step'[p] = "readOrder" /\ order' = order /\ list' = list /\ todo' = todo
          /\ \A q \in Workers \ {p} : step'[q] = step[q]
      BY <1>11 DEF MarkDelivered, Goto, TypeOK
    <2> QED
      BY <2>1, <2>2, <2>3, <2>4 DEF PaidAllAlong, DispatchedIsPaid, StopsOf, Paid
  <1>12. ASSUME NEW t \in Trips, NEW o \in Orders, SendCode(t, o) PROVE PaidAllAlong'
    <2>1. Paid(o)
      BY <1>12 DEF SendCode, PaidAllAlong, DispatchedIsPaid, StopsOf, Paid
    <2>2. stops' = stops /\ paid' = paid /\ codes' = codes \cup {<<t, o>>} /\ UNCHANGED worker
      BY <1>12 DEF SendCode
    <2> QED
      BY <2>1, <2>2 DEF PaidAllAlong, DispatchedIsPaid, StopsOf, Paid, worker
  <1>13. ASSUME (\E t \in Trips, o \in Orders : Expire(t, o)) \/ (\E o \in OnCredit : CreditRequest(o)) \/ UNCHANGED vars
         PROVE  PaidAllAlong'
    <2>1. stops' = stops /\ codes' \subseteq codes /\ UNCHANGED worker
      BY <1>13 DEF Expire, CreditRequest, vars, tables, worker
    <2> QED
      BY <1>1, <1>2, <2>1, PaidFrame DEF worker
  <1>14. ASSUME NEW p \in Workers, Begin(p) PROVE PaidAllAlong'
    BY <1>3, <1>4, <1>5, <1>6, <1>14 DEF Begin
  <1>15. ASSUME NEW p \in Workers, Work(p) PROVE PaidAllAlong'
    BY <1>7, <1>8, <1>9, <1>10, <1>11, <1>15 DEF Work
  <1> QED
    BY <1>8, <1>12, <1>13, <1>14, <1>15 DEF Next

LEMMA PaidInit == Init => PaidAllAlong
  BY DEF Init, PaidAllAlong, DispatchedIsPaid, StopsOf

\* An order with a stop on a trip has been paid what its terms require, whatever
\* handlers overlap or die and however many trips list it.
THEOREM DispatchIsPaidFor == Spec => []DispatchedIsPaid
  <1>1. TypeOK /\ PaidAllAlong /\ [Next]_vars => (TypeOK /\ PaidAllAlong)'
    BY TypeStep, PaidStep
  <1>2. PaidAllAlong => DispatchedIsPaid
    BY DEF PaidAllAlong
  <1> QED
    BY <1>1, <1>2, TypeInit, PaidInit, PTL DEF Spec

-----------------------------------------------------------------------------
(* What is delivered was confirmed.                                        *)

Confirmed(o) == o \in handedOver \/ \E t \in Trips : stops[t][o] = "delivered"

\* A trip under creation exists for nobody else, and only a trip that exists has
\* stops and codes.
Exclusive ==
    /\ \A t \in Trips : trips[t] = "none" => StopsOf(t) = {}
    /\ \A c \in codes : c[2] \in StopsOf(c[1])
    /\ \A p \in Workers :
          /\ step[p] = "checkDispatch" =>
                trips[trip[p]] = "none" /\ \A q \in Workers \ {p} : trip[q] # trip[p]
          /\ step[p] = "markDelivered" => order[p] \in StopsOf(trip[p])

RowSteps == {"checkFulfill", "sum", "diffOrder", "saveOrder"}

\* Handler h at step s has row r of order o to save: Delivered only if o is confirmed,
\* or collected by this very save.
Justified(s, h, o, r) ==
    /\ s = "readOrder" /\ h = "confirm" => Confirmed(o)
    /\ s \in RowSteps /\ h # "pickup" /\ r.status = "delivered" => Confirmed(o)

\* The invariant behind DeliveredIsConfirmed.
ConfirmedAllAlong ==
    /\ Exclusive
    /\ DeliveredIsConfirmed
    /\ \A p \in Workers : Justified(step[p], handler[p], order[p], row[p])

\* Steps that begin no trip and no confirmation, end no creation of a trip and mark
\* no stop.
LEMMA ExclusiveFrame ==
    ASSUME TypeOK, Exclusive, stops' = stops, codes' \subseteq codes,
           \A t \in Trips : trips'[t] = "none" => trips[t] = "none",
           \A p \in Workers :
              /\ step'[p] = "markDelivered" =>
                    step[p] = "markDelivered" /\ order'[p] = order[p] /\ trip'[p] = trip[p]
              /\ step'[p] = "checkDispatch" =>
                    step[p] = "checkDispatch" /\ trip'[p] = trip[p] /\ trips'[trip[p]] = "none"
              /\ trip'[p] \in {trip[p], None}
    PROVE  Exclusive'
  <1>1. \A t \in Trips : trips'[t] = "none" => StopsOf(t)' = {}
    BY DEF Exclusive, StopsOf
  <1>2. \A c \in codes' : (c[2] \in StopsOf(c[1]))'
    BY DEF Exclusive, StopsOf
  <1>3. ASSUME NEW p \in Workers, step'[p] = "checkDispatch"
        PROVE  trips'[trip'[p]] = "none" /\ \A q \in Workers \ {p} : trip'[q] # trip'[p]
    <2>1. trip[p] # None
      BY <1>3, NoneAssumption DEF TypeOK, TripSteps
    <2> QED
      BY <1>3, <2>1 DEF Exclusive
  <1>4. ASSUME NEW p \in Workers, step'[p] = "markDelivered"
        PROVE  (order[p] \in StopsOf(trip[p]))'
    BY <1>4 DEF Exclusive, StopsOf
  <1> QED
    BY <1>1, <1>2, <1>3, <1>4 DEF Exclusive

\* A confirmation or a PATCH begins on a trip that exists.
LEMMA ExclusiveStart ==
    ASSUME TypeOK, Exclusive, stops' = stops, codes' = codes, trips' = trips,
           NEW p \in Workers, NEW t \in Trips, NEW first \in Steps, NEW o \in Orders \cup {None},
           first # "checkDispatch", trips[t] # "none", first = "markDelivered" => o \in StopsOf(t),
           step' = [step EXCEPT ![p] = first], trip' = [trip EXCEPT ![p] = t],
           order' = [order EXCEPT ![p] = o]
    PROVE  Exclusive'
  <1>1. StopsOf(t)' = StopsOf(t)
    BY DEF StopsOf
  <1>2. step'[p] = first /\ trip'[p] = t /\ order'[p] = o
    BY DEF TypeOK
  <1>3. \A q \in Workers \ {p} : step'[q] = step[q] /\ trip'[q] = trip[q] /\ order'[q] = order[q]
    BY DEF TypeOK
  <1>4. \A a \in Trips : trips'[a] = "none" => StopsOf(a)' = {}
    BY DEF Exclusive, StopsOf
  <1>5. \A c \in codes' : (c[2] \in StopsOf(c[1]))'
    BY DEF Exclusive, StopsOf
  <1>6. ASSUME NEW q \in Workers, step'[q] = "checkDispatch"
        PROVE  trips'[trip'[q]] = "none" /\ \A w \in Workers \ {q} : trip'[w] # trip'[q]
    BY <1>2, <1>3, <1>6 DEF Exclusive
  <1>7. ASSUME NEW q \in Workers, step'[q] = "markDelivered"
        PROVE  (order[q] \in StopsOf(trip[q]))'
    BY <1>1, <1>2, <1>3, <1>7 DEF Exclusive, StopsOf
  <1> QED
    BY <1>4, <1>5, <1>6, <1>7 DEF Exclusive

LEMMA ExclusiveStep == TypeOK /\ Exclusive /\ [Next]_vars => Exclusive'
  <1> SUFFICES ASSUME TypeOK, Exclusive, [Next]_vars PROVE Exclusive'
    OBVIOUS
  <1>1. ASSUME NEW p \in Workers, NEW o \in Orders,
               (\E u \in Users : Claim(p, o, u) \/ Pack(p, o, u) \/ Fulfill(p, o, u))
               \/ PickUp(p, o) \/ \E n \in Amounts : Pay(p, o, n)
        PROVE  Exclusive'
    <2>1. stops' = stops /\ codes' = codes /\ trips' = trips
      BY <1>1 DEF Claim, Pack, Fulfill, PickUp, Pay, tables
    <2>2. PICK first \in {"claim", "diffOrder", "checkFulfill", "readOrder"} :
             /\ step' = [step EXCEPT ![p] = first]
             /\ \E x : order' = [order EXCEPT ![p] = x]
             /\ trip' = [trip EXCEPT ![p] = None]
      <3>1. CASE \E u \in Users : Claim(p, o, u)
        BY <3>1 DEF Claim, StartOrder, Start
      <3>2. CASE \E u \in Users : Pack(p, o, u)
        BY <3>2 DEF Pack, StartOrder, Start
      <3>3. CASE \E u \in Users : Fulfill(p, o, u)
        BY <3>3 DEF Fulfill, StartOrder, Start
      <3>4. CASE PickUp(p, o)
        BY <3>4 DEF PickUp, StartOrder, Start
      <3>5. CASE \E n \in Amounts : Pay(p, o, n)
        BY <3>5 DEF Pay, StartOrder, Start
      <3> QED
        BY <1>1, <3>1, <3>2, <3>3, <3>4, <3>5
    <2>3. \A q \in Workers : /\ q # p => step'[q] = step[q] /\ order'[q] = order[q] /\ trip'[q] = trip[q]
                             /\ q = p => step'[q] = first /\ trip'[q] = None
      BY <2>2 DEF TypeOK
    <2> QED
      BY <2>1, <2>3, ExclusiveFrame DEF Exclusive
  <1>2. ASSUME NEW p \in Workers, NEW t \in Trips, NEW s \in Changes, ChangeTrip(p, t, s) PROVE Exclusive'
    <2>1. stops' = stops /\ codes' = codes /\ trips' = trips /\ trips[t] # "none"
      BY <1>2 DEF ChangeTrip, tables
    <2>2. /\ step' = [step EXCEPT ![p] = "diffTrip"] /\ trip' = [trip EXCEPT ![p] = t]
          /\ order' = [order EXCEPT ![p] = None]
      BY <1>2 DEF ChangeTrip, StartTrip, Start
    <2> QED
      BY <2>1, <2>2, ExclusiveStart DEF Steps
  <1>3. ASSUME NEW p \in Workers, NEW t \in Trips, NEW os \in (SUBSET Orders) \ {{}}, CreateTrip(p, t, os)
        PROVE  Exclusive'
    <2>1. stops' = stops /\ codes' = codes /\ trips' = trips /\ trips[t] = "none"
          /\ \A q \in Workers : trip[q] # t
      BY <1>3 DEF CreateTrip, tables
    <2>2. step'[p] = "checkDispatch" /\ trip'[p] = t
      BY <1>3 DEF CreateTrip, StartTrip, Start, TypeOK
    <2>3. \A q \in Workers \ {p} : step'[q] = step[q] /\ order'[q] = order[q] /\ trip'[q] = trip[q]
      BY <1>3 DEF CreateTrip, StartTrip, Start, TypeOK
    <2>4. ASSUME NEW q \in Workers, step'[q] = "checkDispatch"
          PROVE  trips'[trip'[q]] = "none" /\ \A w \in Workers \ {q} : trip'[w] # trip'[q]
      BY <2>1, <2>2, <2>3, <2>4 DEF Exclusive
    <2>5. ASSUME NEW q \in Workers, step'[q] = "markDelivered"
          PROVE  (order[q] \in StopsOf(trip[q]))'
      BY <2>1, <2>2, <2>3, <2>5 DEF Exclusive, StopsOf
    <2> QED
      BY <2>1, <2>4, <2>5 DEF Exclusive, StopsOf
  <1>4. ASSUME NEW p \in Workers, NEW t \in Trips, NEW o \in Orders, Confirm(p, t, o) PROVE Exclusive'
    <2>1. stops' = stops /\ codes' = codes /\ trips' = trips
      BY <1>4 DEF Confirm, tables
    <2>2. /\ step' = [step EXCEPT ![p] = "markDelivered"] /\ trip' = [trip EXCEPT ![p] = t]
          /\ order' = [order EXCEPT ![p] = o]
      BY <1>4 DEF Confirm, StartTrip, Start
    <2>3. o \in StopsOf(t) /\ trips[t] # "none"
      BY <1>4 DEF Confirm, Exclusive
    <2> QED
      BY <2>1, <2>2, <2>3, ExclusiveStart DEF Steps
  <1>5. ASSUME NEW p \in Workers, ClaimOrder(p) \/ CheckFulfill(p) \/ ReadOrder(p) \/ SumPayments(p) \/ DiffOrder(p)
        PROVE  Exclusive'
    <2>1. stops' = stops /\ codes' = codes /\ trips' = trips
      BY <1>5 DEF ClaimOrder, CheckFulfill, ReadOrder, SumPayments, DiffOrder, tables
    <2>2. \A q \in Workers : /\ step'[q] = "markDelivered" =>
                                   step[q] = "markDelivered" /\ order'[q] = order[q] /\ trip'[q] = trip[q]
                             /\ step'[q] = "checkDispatch" => step[q] = "checkDispatch" /\ trip'[q] = trip[q]
                             /\ trip'[q] \in {trip[q], None}
      BY <1>5 DEF ClaimOrder, CheckFulfill, ReadOrder, SumPayments, DiffOrder, Return, Goto, TypeOK
    <2> QED
      BY <2>1, <2>2, ExclusiveFrame DEF Exclusive
  <1>6. ASSUME NEW p \in Workers, SaveOrder(p) \/ ReadStops(p) \/ DiffTrip(p) \/ Crash(p)
        PROVE  Exclusive'
    <2>1. stops' = stops /\ codes' = codes /\ trips' = trips
      BY <1>6 DEF SaveOrder, ReadStops, DiffTrip, Crash, tables
    <2>2. \A q \in Workers : /\ step'[q] = "markDelivered" =>
                                   step[q] = "markDelivered" /\ order'[q] = order[q] /\ trip'[q] = trip[q]
                             /\ step'[q] = "checkDispatch" => step[q] = "checkDispatch" /\ trip'[q] = trip[q]
                             /\ trip'[q] \in {trip[q], None}
      BY <1>6 DEF SaveOrder, ReadStops, DiffTrip, Crash, Return, Goto, TypeOK
    <2> QED
      BY <2>1, <2>2, ExclusiveFrame DEF Exclusive
  <1>7. ASSUME NEW p \in Workers, SaveTrip(p) PROVE Exclusive'
    <2>1. /\ stops' = stops /\ codes' = codes /\ step[p] = "saveTrip"
          /\ trip[p] \in Trips /\ target[p] # "none"
      BY <1>7 DEF SaveTrip, TypeOK, TripSteps, TripStatus
    <2>2. \A t \in Trips : trips'[t] = trips[t] \/ (t = trip[p] /\ trips'[t] # "none")
      BY <1>7, <2>1 DEF SaveTrip, TypeOK
    <2>3. \A q \in Workers : /\ step'[q] = "markDelivered" =>
                                   step[q] = "markDelivered" /\ order'[q] = order[q] /\ trip'[q] = trip[q]
                             /\ step'[q] = "checkDispatch" =>
                                   q # p /\ step[q] = "checkDispatch" /\ trip'[q] = trip[q]
                             /\ trip'[q] \in {trip[q], None}
      BY <1>7 DEF SaveTrip, Return, TypeOK
    <2>4. ASSUME NEW q \in Workers, step'[q] = "checkDispatch"
          PROVE  trips'[trip[q]] = "none"
      <3>1. trip[q] \in Trips /\ trip[q] # trip[p] /\ trips[trip[q]] = "none"
        BY <2>3, <2>4 DEF Exclusive, TypeOK, TripSteps
      <3> QED
        BY <2>2, <3>1
    <2> QED
      BY <2>1, <2>2, <2>3, <2>4, ExclusiveFrame
  <1>8. ASSUME NEW p \in Workers, CheckDispatch(p) PROVE Exclusive'
    <2>1. PICK o \in todo[p] :
             \/ UNCHANGED <<step, order, trip>>
             \/ Return(p)
      BY <1>8 DEF CheckDispatch
    <2>2. stops' = stops /\ codes' = codes /\ trips' = trips
      BY <1>8 DEF CheckDispatch, tables
    <2>3. \A q \in Workers : /\ step'[q] = "markDelivered" =>
                                   step[q] = "markDelivered" /\ order'[q] = order[q] /\ trip'[q] = trip[q]
                             /\ step'[q] = "checkDispatch" => step[q] = "checkDispatch" /\ trip'[q] = trip[q]
                             /\ trip'[q] \in {trip[q], None}
      BY <2>1 DEF Return, TypeOK
    <2> QED
      BY <2>2, <2>3, ExclusiveFrame DEF Exclusive
  <1>9. ASSUME NEW p \in Workers, InsertTrip(p) PROVE Exclusive'
    <2>a. step[p] = "checkDispatch" /\ trip[p] \in Trips /\ target[p] # "none"
      BY <1>9 DEF InsertTrip, TypeOK, TripSteps, TripStatus
    <2>1. /\ step[p] = "checkDispatch" /\ trip[p] \in Trips /\ target[p] # "none"
          /\ trips[trip[p]] = "none" /\ StopsOf(trip[p]) = {} /\ trip[p] # None
          /\ \A q \in Workers \ {p} : trip[q] # trip[p]
      BY <2>a, NoneAssumption DEF Exclusive
    <2>2. /\ trips'[trip[p]] # "none" /\ codes' = codes
          /\ \A t \in Trips \ {trip[p]} : trips'[t] = trips[t] /\ stops'[t] = stops[t]
      BY <1>9, <2>1 DEF InsertTrip, TypeOK
    <2>3. /\ step'[p] = "idle" /\ trip'[p] = None
          /\ \A q \in Workers \ {p} : step'[q] = step[q] /\ trip'[q] = trip[q] /\ order'[q] = order[q]
      BY <1>9 DEF InsertTrip, Return, TypeOK
    <2>4. \A t \in Trips : trips'[t] = "none" => StopsOf(t)' = {}
      BY <2>2 DEF Exclusive, StopsOf
    <2>5. ASSUME NEW c \in codes' PROVE (c[2] \in StopsOf(c[1]))'
      <3>1. c[1] \in Trips /\ c[2] \in StopsOf(c[1]) /\ c[1] # trip[p]
        BY <2>1, <2>2 DEF TypeOK, Exclusive
      <3> QED
        BY <2>2, <3>1 DEF StopsOf
    <2>6. ASSUME NEW q \in Workers, step'[q] = "checkDispatch"
          PROVE  trips'[trip'[q]] = "none" /\ \A w \in Workers \ {q} : trip'[w] # trip'[q]
      <3>1. q # p /\ step[q] = "checkDispatch" /\ trip'[q] = trip[q]
        BY <2>3, <2>6
      <3>2. trip[q] \in Trips /\ trip[q] # trip[p] /\ trips[trip[q]] = "none" /\ trip[q] # None
        BY <2>1, <3>1, NoneAssumption DEF Exclusive, TypeOK, TripSteps
      <3>3. \A w \in Workers \ {q} : trip[w] # trip[q]
        BY <3>1 DEF Exclusive
      <3> QED
        BY <2>2, <2>3, <3>1, <3>2, <3>3
    <2>7. ASSUME NEW q \in Workers, step'[q] = "markDelivered"
          PROVE  (order[q] \in StopsOf(trip[q]))'
      <3>1. q # p /\ step[q] = "markDelivered" /\ trip'[q] = trip[q] /\ order'[q] = order[q]
        BY <2>3, <2>7
      <3>2. trip[q] \in Trips /\ trip[q] # trip[p] /\ order[q] \in StopsOf(trip[q])
        BY <2>1, <3>1 DEF Exclusive, TypeOK, TripSteps
      <3> QED
        BY <2>2, <3>1, <3>2 DEF StopsOf
    <2> QED
      BY <2>4, <2>5, <2>6, <2>7 DEF Exclusive
  <1>10. ASSUME NEW p \in Workers, MarkDelivered(p) PROVE Exclusive'
    <2>1. trip[p] \in Trips /\ order[p] \in Orders /\ order[p] \in StopsOf(trip[p])
      BY <1>10 DEF MarkDelivered, TypeOK, TripSteps, OrderSteps, Exclusive
    <2>2. \A t \in Trips, o \in Orders : stops'[t][o] = "none" <=> stops[t][o] = "none"
      BY <1>10, <2>1 DEF MarkDelivered, TypeOK, StopsOf
    <2>3. \A t \in Trips : StopsOf(t)' = StopsOf(t)
      BY <2>2 DEF StopsOf
    <2>4. /\ step'[p] = "readOrder" /\ UNCHANGED <<trip, order, trips, codes>>
          /\ \A q \in Workers \ {p} : step'[q] = step[q]
      BY <1>10 DEF MarkDelivered, Goto, TypeOK
    <2>5. ASSUME NEW q \in Workers, step'[q] = "markDelivered"
          PROVE  (order[q] \in StopsOf(trip[q]))'
      <3>1. q # p /\ step[q] = "markDelivered"
        BY <2>4, <2>5
      <3>2. trip[q] \in Trips /\ order[q] \in StopsOf(trip[q])
        BY <3>1 DEF Exclusive, TypeOK, TripSteps
      <3> QED
        BY <2>3, <2>4, <3>2
    <2>6. \A c \in codes' : (c[2] \in StopsOf(c[1]))'
      BY <2>3, <2>4 DEF Exclusive, TypeOK
    <2>7. ASSUME NEW q \in Workers, step'[q] = "checkDispatch"
          PROVE  trips'[trip'[q]] = "none" /\ \A w \in Workers \ {q} : trip'[w] # trip'[q]
      <3>1. step[q] = "checkDispatch"
        BY <2>4, <2>7
      <3> QED
        BY <2>4, <3>1 DEF Exclusive
    <2> QED
      BY <2>3, <2>4, <2>5, <2>6, <2>7 DEF Exclusive
  <1>11. ASSUME NEW t \in Trips, NEW o \in Orders, SendCode(t, o) PROVE Exclusive'
    <2>1. /\ stops' = stops /\ trips' = trips /\ codes' = codes \cup {<<t, o>>} /\ UNCHANGED worker
          /\ o \in StopsOf(t)
      BY <1>11 DEF SendCode, StopsOf
    <2> QED
      BY <2>1 DEF Exclusive, StopsOf, worker
  <1>12. ASSUME (\E t \in Trips, o \in Orders : Expire(t, o)) \/ (\E o \in OnCredit : CreditRequest(o)) \/ UNCHANGED vars
         PROVE  Exclusive'
    <2>1. stops' = stops /\ trips' = trips /\ codes' \subseteq codes /\ UNCHANGED worker
      BY <1>12 DEF Expire, CreditRequest, vars, tables, worker
    <2> QED
      BY <2>1 DEF Exclusive, StopsOf, worker
  <1>13. ASSUME NEW p \in Workers, Begin(p) PROVE Exclusive'
    BY <1>1, <1>2, <1>3, <1>4, <1>13 DEF Begin
  <1>14. ASSUME NEW p \in Workers, Work(p) PROVE Exclusive'
    BY <1>5, <1>6, <1>7, <1>8, <1>9, <1>10, <1>14 DEF Work
  <1> QED
    BY <1>6, <1>11, <1>12, <1>13, <1>14 DEF Next

LEMMA ConfirmedStays ==
    ASSUME TypeOK, Exclusive, [Next]_vars, NEW o \in Orders, Confirmed(o)
    PROVE  Confirmed(o)'
  <1>1. ASSUME handedOver \subseteq handedOver', stops' = stops PROVE Confirmed(o)'
    BY <1>1 DEF Confirmed
  <1>2. ASSUME NEW p \in Workers, Begin(p) PROVE Confirmed(o)'
    <2>1. ASSUME NEW a \in Orders, NEW u \in Users, Claim(p, a, u) \/ Pack(p, a, u) \/ Fulfill(p, a, u)
          PROVE  handedOver \subseteq handedOver' /\ stops' = stops
      BY <2>1 DEF Claim, Pack, Fulfill, StartOrder, Start, tables
    <2>2. ASSUME NEW a \in Orders, PickUp(p, a) \/ \E n \in Amounts : Pay(p, a, n)
          PROVE  handedOver \subseteq handedOver' /\ stops' = stops
      BY <2>2 DEF PickUp, Pay, StartOrder, Start, tables
    <2>3. ASSUME NEW t \in Trips,
                 \/ \E a \in Orders : Confirm(p, t, a)
                 \/ \E os \in (SUBSET Orders) \ {{}} : CreateTrip(p, t, os)
                 \/ \E s \in Changes : ChangeTrip(p, t, s)
          PROVE  handedOver \subseteq handedOver' /\ stops' = stops
      BY <2>3 DEF Confirm, CreateTrip, ChangeTrip, StartTrip, Start, tables
    <2> QED
      BY <1>1, <1>2, <2>1, <2>2, <2>3 DEF Begin
  <1>3. ASSUME NEW p \in Workers,
               ClaimOrder(p) \/ CheckFulfill(p) \/ ReadOrder(p) \/ SumPayments(p) \/ DiffOrder(p) \/ SaveOrder(p)
        PROVE  Confirmed(o)'
    BY <1>1, <1>3 DEF ClaimOrder, CheckFulfill, ReadOrder, SumPayments, DiffOrder, SaveOrder, tables, history
  <1>4. ASSUME NEW p \in Workers, CheckDispatch(p) \/ ReadStops(p) \/ DiffTrip(p) \/ SaveTrip(p) \/ Crash(p)
        PROVE  Confirmed(o)'
    BY <1>1, <1>4 DEF CheckDispatch, ReadStops, DiffTrip, SaveTrip, Crash, tables, history
  <1>5. ASSUME NEW p \in Workers, InsertTrip(p) PROVE Confirmed(o)'
    <2>1. handedOver' = handedOver
      BY <1>5 DEF InsertTrip, history
    <2>2. StopsOf(trip[p]) = {} /\ trip[p] \in Trips
      BY <1>5 DEF InsertTrip, Exclusive, TypeOK, TripSteps
    <2>3. \A t \in Trips \ {trip[p]} : stops'[t] = stops[t]
      BY <1>5 DEF InsertTrip, TypeOK
    <2>4. \A t \in Trips : stops[t][o] = "delivered" => t # trip[p]
      BY <2>2 DEF StopsOf
    <2> QED
      BY <2>1, <2>3, <2>4 DEF Confirmed
  <1>6. ASSUME NEW p \in Workers, MarkDelivered(p) PROVE Confirmed(o)'
    <2>1. handedOver' = handedOver
      BY <1>6 DEF MarkDelivered, history
    <2>2. \A t \in Trips : stops'[t][o] = stops[t][o] \/ stops'[t][o] = "delivered"
      BY <1>6 DEF MarkDelivered, TypeOK
    <2> QED
      BY <2>1, <2>2 DEF Confirmed
  <1>7. ASSUME \/ \E t \in Trips, a \in Orders : SendCode(t, a) \/ Expire(t, a)
               \/ \E a \in OnCredit : CreditRequest(a)
               \/ UNCHANGED vars
        PROVE  Confirmed(o)'
    BY <1>1, <1>7 DEF SendCode, Expire, CreditRequest, vars, tables, history
  <1> QED
    BY <1>2, <1>3, <1>4, <1>5, <1>6, <1>7 DEF Next, Work

\* A step is safe when no order becomes Delivered that is not confirmed, and the one
\* handler that moves is about to save nothing else.
LEMMA ConfirmedFrame ==
    ASSUME TypeOK, ConfirmedAllAlong, [Next]_vars, TypeOK', NEW p \in Workers,
           \A o \in Orders : orders'[o].status = "delivered" => orders[o].status = "delivered" \/ Confirmed(o)',
           \A q \in Workers \ {p} : step'[q] = step[q] /\ handler'[q] = handler[q]
                                   /\ order'[q] = order[q] /\ row'[q] = row[q],
           Justified(step[p], handler[p], order[p], row[p])'
    PROVE  ConfirmedAllAlong'
  <1>1. Exclusive'
    BY ExclusiveStep DEF ConfirmedAllAlong
  <1>2. \A o \in Orders : Confirmed(o) => Confirmed(o)'
    BY ConfirmedStays DEF ConfirmedAllAlong
  <1>3. DeliveredIsConfirmed'
    BY <1>2 DEF ConfirmedAllAlong, DeliveredIsConfirmed, Confirmed
  <1>4. ASSUME NEW q \in Workers \ {p} PROVE Justified(step[q], handler[q], order[q], row[q])'
    <2>1. step[q] \in RowSteps \cup {"readOrder"} => order[q] \in Orders
      BY DEF TypeOK, OrderSteps, RowSteps
    <2>2. Justified(step[q], handler[q], order[q], row[q])
      BY DEF ConfirmedAllAlong, Justified, RowSteps
    <2> QED
      BY <1>2, <2>1, <2>2 DEF Justified
  <1> QED
    BY <1>1, <1>3, <1>4 DEF ConfirmedAllAlong, Justified, RowSteps

LEMMA ConfirmedBegin ==
    ASSUME TypeOK, ConfirmedAllAlong, [Next]_vars, TypeOK', NEW p \in Workers, Begin(p)
    PROVE  ConfirmedAllAlong'
  <1> DEFINE Safe ==
        /\ orders' = orders
        /\ \A q \in Workers \ {p} : step'[q] = step[q] /\ handler'[q] = handler[q]
                                   /\ order'[q] = order[q] /\ row'[q] = row[q]
        /\ Justified(step[p], handler[p], order[p], row[p])'
  <1>1. Safe
    <2>1. ASSUME NEW k \in Kinds, NEW first \in Steps, NEW o, NEW t, NEW u, NEW os, NEW r, NEW s,
                 Start(p, k, first, o, t, u, os, r, s), orders' = orders,
                 first = "readOrder" => k = "pay",
                 first \in RowSteps => k = "pickup" \/ r.status # "delivered"
          PROVE  Safe
      BY <2>1 DEF Start, TypeOK, Justified, RowSteps
    <2>2. ASSUME NEW o \in Orders, NEW u \in Users, Claim(p, o, u) \/ Pack(p, o, u) \/ Fulfill(p, o, u)
          PROVE  Safe
      <3>1. orders[o] \in OrderRow
        BY DEF TypeOK
      <3>2. [orders[o] EXCEPT !.status = "packed", !.packedBy = u].status = "packed"
        BY <3>1 DEF OrderRow
      <3>3. CASE Claim(p, o, u)
        BY <2>1, <3>3 DEF Claim, StartOrder, tables, Kinds, Steps, RowSteps
      <3>4. CASE Pack(p, o, u)
        BY <2>1, <3>2, <3>4 DEF Pack, StartOrder, tables, Kinds, Steps, RowSteps
      <3>5. CASE Fulfill(p, o, u)
        BY <2>1, <3>2, <3>5 DEF Fulfill, StartOrder, tables, Kinds, Steps, RowSteps
      <3> QED
        BY <2>2, <3>3, <3>4, <3>5
    <2>3. ASSUME NEW o \in Orders, PickUp(p, o) PROVE Safe
      BY <2>1, <2>3 DEF PickUp, StartOrder, tables, Kinds, Steps
    <2>4. ASSUME NEW o \in Orders, NEW n \in Amounts, Pay(p, o, n) PROVE Safe
      BY <2>1, <2>4 DEF Pay, StartOrder, Kinds, Steps, RowSteps
    <2>5. ASSUME NEW t \in Trips, NEW o \in Orders, Confirm(p, t, o) PROVE Safe
      BY <2>1, <2>5 DEF Confirm, StartTrip, tables, Kinds, Steps, RowSteps
    <2>6. ASSUME NEW t \in Trips, NEW os \in (SUBSET Orders) \ {{}}, CreateTrip(p, t, os) PROVE Safe
      BY <2>1, <2>6 DEF CreateTrip, StartTrip, tables, Kinds, Steps, RowSteps
    <2>7. ASSUME NEW t \in Trips, NEW s \in Changes, ChangeTrip(p, t, s) PROVE Safe
      BY <2>1, <2>7 DEF ChangeTrip, StartTrip, tables, Kinds, Steps, RowSteps
    <2> QED
      BY <2>2, <2>3, <2>4, <2>5, <2>6, <2>7 DEF Begin
  <1> QED
    BY <1>1, ConfirmedFrame

LEMMA ReturnJustified ==
    ASSUME TypeOK, NEW p \in Workers, Return(p)
    PROVE  /\ Justified(step[p], handler[p], order[p], row[p])'
           /\ \A q \in Workers \ {p} : step'[q] = step[q] /\ handler'[q] = handler[q]
                                      /\ order'[q] = order[q] /\ row'[q] = row[q]
  <1>1. step'[p] = "idle"
    BY DEF Return, TypeOK
  <1> QED
    BY <1>1 DEF Return, TypeOK, Justified, RowSteps

LEMMA ConfirmedWork ==
    ASSUME TypeOK, ConfirmedAllAlong, [Next]_vars, TypeOK', NEW p \in Workers, Work(p) \/ Crash(p)
    PROVE  ConfirmedAllAlong'
  <1> DEFINE Others ==
        \A q \in Workers \ {p} : step'[q] = step[q] /\ handler'[q] = handler[q]
                               /\ order'[q] = order[q] /\ row'[q] = row[q]
             Mine  == Justified(step[p], handler[p], order[p], row[p])'
             Orderly == \A o \in Orders :
                orders'[o].status = "delivered" => orders[o].status = "delivered" \/ Confirmed(o)'
  <1>0. Justified(step[p], handler[p], order[p], row[p])
    BY DEF ConfirmedAllAlong
  <1>1. ASSUME Others, Mine, Orderly PROVE ConfirmedAllAlong'
    BY <1>1, ConfirmedFrame
  <1>2. \A o \in Orders : Confirmed(o) => Confirmed(o)'
    BY ConfirmedStays DEF ConfirmedAllAlong
  <1>3. ASSUME ClaimOrder(p) PROVE ConfirmedAllAlong'
    <2>1. ASSUME NEW o \in Orders PROVE orders'[o].status = orders[o].status
      <3>1. orders[o] \in OrderRow
        BY DEF TypeOK
      <3>2. [orders[o] EXCEPT !.claimedBy = user[p]].status = orders[o].status
        BY <3>1 DEF OrderRow
      <3>3. orders'[o] = orders[o] \/ orders'[o] = [orders[o] EXCEPT !.claimedBy = user[p]]
        <4>1. CASE orders' = orders
          BY <4>1
        <4>2. CASE orders' = [orders EXCEPT ![order[p]].claimedBy = user[p]]
          BY <4>2 DEF TypeOK
        <4> QED
          BY <1>3, <4>1, <4>2 DEF ClaimOrder
      <3> QED
        BY <3>2, <3>3
    <2> QED
      BY <1>1, <1>3, <2>1, ReturnJustified DEF ClaimOrder
  <1>4. ASSUME CheckFulfill(p) PROVE ConfirmedAllAlong'
    <2>1. Orderly
      BY <1>4 DEF CheckFulfill, tables
    <2>2. CASE Return(p)
      BY <1>1, <2>1, <2>2, ReturnJustified
    <2>3. CASE ~Return(p)
      <3>1. Goto(p, "diffOrder") /\ UNCHANGED <<handler, order, row, stops, handedOver>> /\ step[p] = "checkFulfill"
        BY <1>4, <2>3 DEF CheckFulfill, tables, history
      <3> QED
        BY <1>0, <1>1, <2>1, <3>1 DEF Goto, TypeOK, Justified, RowSteps, Confirmed
    <2> QED
      BY <2>2, <2>3
  <1>5. ASSUME ReadOrder(p) PROVE ConfirmedAllAlong'
    <2>1. /\ Orderly /\ UNCHANGED <<handler, order, stops, handedOver>> /\ step[p] = "readOrder"
          /\ order[p] \in Orders /\ orders[order[p]] \in OrderRow
      BY <1>5 DEF ReadOrder, tables, history, TypeOK, OrderSteps
    <2>2. CASE handler[p] = "confirm"
      BY <1>0, <1>1, <1>5, <2>1, <2>2 DEF ReadOrder, Goto, TypeOK, Justified, Confirmed
    <2>3. CASE handler[p] # "confirm"
      <3>1. step'[p] = "sum" /\ row'[p] = orders[order[p]]
        BY <1>5, <2>3 DEF ReadOrder, Goto, TypeOK
      <3>2. orders[order[p]].status = "delivered" => Confirmed(order[p])'
        BY <1>2, <2>1 DEF ConfirmedAllAlong, DeliveredIsConfirmed, Confirmed
      <3>3. Mine
        BY <2>1, <3>1, <3>2 DEF Justified, RowSteps, Confirmed
      <3>4. Others
        BY <1>5, <2>3 DEF ReadOrder, Goto, TypeOK
      <3> QED
        BY <1>1, <2>1, <3>3, <3>4
    <2> QED
      BY <2>2, <2>3
  <1>6. ASSUME SumPayments(p) PROVE ConfirmedAllAlong'
    <2>1. Orderly /\ step[p] = "sum" /\ UNCHANGED <<stops, handedOver>>
      BY <1>6 DEF SumPayments, tables, history
    <2>2. CASE Return(p)
      BY <1>1, <2>1, <2>2, ReturnJustified
    <2>3. CASE ~Return(p)
      <3>1. Goto(p, "diffOrder") /\ UNCHANGED <<handler, order>>
            /\ \E new : row' = [row EXCEPT ![p].payment = new]
        BY <1>6, <2>3 DEF SumPayments
      <3>2. row'[p].status = row[p].status /\ \A q \in Workers \ {p} : row'[q] = row[q]
        BY <3>1 DEF TypeOK, OrderRow
      <3> QED
        BY <1>0, <1>1, <2>1, <3>1, <3>2 DEF Goto, TypeOK, Justified, RowSteps, Confirmed
    <2> QED
      BY <2>2, <2>3
  <1>7. ASSUME DiffOrder(p) PROVE ConfirmedAllAlong'
    <2>1. /\ Orderly /\ step[p] = "diffOrder" /\ Goto(p, "saveOrder")
          /\ UNCHANGED <<handler, order, row, stops, handedOver>>
      BY <1>7 DEF DiffOrder, tables, history
    <2> QED
      BY <1>0, <1>1, <2>1 DEF Goto, TypeOK, Justified, RowSteps, Confirmed
  <1>8. ASSUME SaveOrder(p) PROVE ConfirmedAllAlong'
    <2>1. step[p] = "saveOrder" /\ order[p] \in Orders /\ row[p] \in OrderRow /\ stops' = stops
      BY <1>8 DEF SaveOrder, TypeOK, OrderSteps
    <2>2. \A o \in Orders : orders'[o] = orders[o] \/ (o = order[p] /\ orders'[o].status \in {orders[o].status, row[p].status})
      BY <1>8, <2>1 DEF SaveOrder, TypeOK, OrderRow, Columns
    <2>3. ASSUME NEW o \in Orders, o = order[p], row[p].status = "delivered"
          PROVE  Confirmed(o)'
      <3>1. CASE handler[p] = "pickup"
        BY <1>8, <2>3, <3>1 DEF SaveOrder, Confirmed
      <3>2. CASE handler[p] # "pickup"
        BY <1>0, <1>2, <2>1, <2>3, <3>2 DEF Justified, RowSteps
      <3> QED
        BY <3>1, <3>2
    <2>4. Orderly
      <3> SUFFICES ASSUME NEW o \in Orders, orders'[o].status = "delivered"
                   PROVE  orders[o].status = "delivered" \/ Confirmed(o)'
        OBVIOUS
      <3>1. CASE orders'[o] = orders[o]
        BY <3>1
      <3>2. CASE o = order[p] /\ orders'[o].status \in {orders[o].status, row[p].status}
        <4>1. CASE orders'[o].status = orders[o].status
          BY <4>1
        <4>2. CASE orders'[o].status = row[p].status
          BY <2>3, <3>2, <4>2
        <4> QED
          BY <3>2, <4>1, <4>2
      <3> QED
        BY <2>2, <3>1, <3>2
    <2>5. CASE handler[p] = "confirm"
      <3>1. Goto(p, "readStops") /\ UNCHANGED <<handler, order, row>>
        BY <1>8, <2>5 DEF SaveOrder
      <3> QED
        BY <1>1, <2>4, <3>1 DEF Goto, TypeOK, Justified, RowSteps
    <2>6. CASE handler[p] # "confirm"
      BY <1>1, <1>8, <2>4, <2>6, ReturnJustified DEF SaveOrder
    <2> QED
      BY <2>5, <2>6
  <1>9. ASSUME CheckDispatch(p) PROVE ConfirmedAllAlong'
    <2>1. Orderly /\ step[p] = "checkDispatch"
      BY <1>9 DEF CheckDispatch, tables
    <2>2. CASE Return(p)
      BY <1>1, <2>1, <2>2, ReturnJustified
    <2>3. CASE ~Return(p)
      <3>1. UNCHANGED <<step, handler, order, row>>
        BY <1>9, <2>3 DEF CheckDispatch
      <3> QED
        BY <1>1, <2>1, <3>1 DEF Justified, RowSteps
    <2> QED
      BY <2>2, <2>3
  <1>10. ASSUME InsertTrip(p) PROVE ConfirmedAllAlong'
    <2>1. Orderly
      BY <1>10 DEF InsertTrip, TypeOK, OrderRow
    <2> QED
      BY <1>1, <1>10, <2>1, ReturnJustified DEF InsertTrip
  <1>11. ASSUME MarkDelivered(p) PROVE ConfirmedAllAlong'
    <2>1. /\ Orderly /\ Goto(p, "readOrder") /\ UNCHANGED <<handler, order, row>>
          /\ trip[p] \in Trips /\ order[p] \in Orders
      BY <1>11 DEF MarkDelivered, TypeOK, OrderSteps, TripSteps
    <2>2. Confirmed(order[p])'
      BY <1>11, <2>1 DEF MarkDelivered, TypeOK, Confirmed
    <2>3. Mine
      BY <2>1, <2>2 DEF Goto, TypeOK, Justified, RowSteps
    <2> QED
      BY <1>1, <2>1, <2>3 DEF Goto, TypeOK
  <1>12. ASSUME ReadStops(p) \/ DiffTrip(p) PROVE ConfirmedAllAlong'
    <2>1. Orderly
      BY <1>12 DEF ReadStops, DiffTrip, tables
    <2>2. CASE Return(p)
      BY <1>1, <2>1, <2>2, ReturnJustified
    <2>3. CASE ~Return(p)
      <3>1. (Goto(p, "diffTrip") \/ Goto(p, "saveTrip")) /\ UNCHANGED <<handler, order, row>>
        BY <1>12, <2>3 DEF ReadStops, DiffTrip
      <3> QED
        BY <1>1, <2>1, <3>1 DEF Goto, TypeOK, Justified, RowSteps
    <2> QED
      BY <2>2, <2>3
  <1>13. ASSUME SaveTrip(p) \/ Crash(p) PROVE ConfirmedAllAlong'
    BY <1>1, <1>13, ReturnJustified DEF SaveTrip, Crash, tables
  <1> QED
    BY <1>3, <1>4, <1>5, <1>6, <1>7, <1>8, <1>9, <1>10, <1>11, <1>12, <1>13 DEF Work

LEMMA ConfirmedStep == TypeOK /\ ConfirmedAllAlong /\ [Next]_vars => ConfirmedAllAlong'
  <1> SUFFICES ASSUME TypeOK, ConfirmedAllAlong, [Next]_vars PROVE ConfirmedAllAlong'
    OBVIOUS
  <1>1. TypeOK' /\ Exclusive'
    BY TypeStep, ExclusiveStep DEF ConfirmedAllAlong
  <1>2. ASSUME \/ \E t \in Trips, o \in Orders : SendCode(t, o) \/ Expire(t, o)
               \/ \E o \in OnCredit : CreditRequest(o)
               \/ UNCHANGED vars
        PROVE  ConfirmedAllAlong'
    <2>1. UNCHANGED <<orders, stops, handedOver, worker>>
      BY <1>2 DEF SendCode, Expire, CreditRequest, vars, tables, history
    <2> QED
      BY <1>1, <2>1 DEF ConfirmedAllAlong, DeliveredIsConfirmed, Justified, Confirmed, worker
  <1> QED
    BY <1>1, <1>2, ConfirmedBegin, ConfirmedWork DEF Next

LEMMA ConfirmedInit == Init => ConfirmedAllAlong
  BY DEF Init, ConfirmedAllAlong, Exclusive, DeliveredIsConfirmed, Justified, RowSteps, StopsOf, NewOrder

\* No order becomes Delivered, by whichever handler and from however old a row, unless
\* a stop of it was confirmed with a code or its customer collected it.
THEOREM DeliveryIsConfirmed == Spec => []DeliveredIsConfirmed
  <1>1. TypeOK /\ ConfirmedAllAlong /\ [Next]_vars => (TypeOK /\ ConfirmedAllAlong)'
    BY TypeStep, ConfirmedStep
  <1>2. ConfirmedAllAlong => DeliveredIsConfirmed
    BY DEF ConfirmedAllAlong
  <1> QED
    BY <1>1, <1>2, TypeInit, ConfirmedInit, PTL DEF Spec

-----------------------------------------------------------------------------
(* One picker.                                                             *)

\* Inductive: who has claimed an order is the one its row names, while nobody wrote
\* an outdated column of it.
ClaimantNamed ==
    \A o \in Orders \ stale :
        claimants[o] = IF orders[o].claimedBy = None THEN {} ELSE {orders[o].claimedBy}

AtWork == \A p \in Workers : step[p] # "idle" => handler[p] \in Kinds

LEMMA AtWorkStep == TypeOK /\ AtWork /\ [Next]_vars => AtWork'
  <1> SUFFICES ASSUME TypeOK, AtWork, [Next]_vars PROVE AtWork'
    OBVIOUS
  <1>1. ASSUME NEW p \in Workers, Begin(p) PROVE AtWork'
    <2>1. PICK k \in Kinds : handler' = [handler EXCEPT ![p] = k]
      BY <1>1 DEF Begin, Claim, Pack, Fulfill, PickUp, Pay, Confirm, CreateTrip, ChangeTrip, StartOrder,
                  StartTrip, Start, Kinds
    <2>2. \A q \in Workers \ {p} : step'[q] = step[q]
      BY <1>1 DEF Begin, Claim, Pack, Fulfill, PickUp, Pay, Confirm, CreateTrip, ChangeTrip, StartOrder,
                  StartTrip, Start, TypeOK
    <2> QED
      BY <2>1, <2>2 DEF AtWork, TypeOK
  <1>2. ASSUME NEW p \in Workers, Work(p) \/ Crash(p) PROVE AtWork'
    <2>1. \/ step'[p] = "idle"
          \/ step[p] # "idle" /\ handler' = handler
      BY <1>2 DEF Work, ClaimOrder, CheckFulfill, ReadOrder, SumPayments, DiffOrder, SaveOrder, CheckDispatch,
                  InsertTrip, MarkDelivered, ReadStops, DiffTrip, SaveTrip, Crash, Return, Goto, TypeOK
    <2>2. \A q \in Workers \ {p} : step'[q] = step[q] /\ handler'[q] = handler[q]
      BY <1>2 DEF Work, ClaimOrder, CheckFulfill, ReadOrder, SumPayments, DiffOrder, SaveOrder, CheckDispatch,
                  InsertTrip, MarkDelivered, ReadStops, DiffTrip, SaveTrip, Crash, Return, Goto, TypeOK
    <2> QED
      BY <2>1, <2>2 DEF AtWork
  <1>3. ASSUME \/ \E t \in Trips, o \in Orders : SendCode(t, o) \/ Expire(t, o)
               \/ \E o \in OnCredit : CreditRequest(o)
               \/ UNCHANGED vars
        PROVE  AtWork'
    BY <1>3 DEF SendCode, Expire, CreditRequest, vars, worker, AtWork
  <1> QED
    BY <1>1, <1>2, <1>3 DEF Next

LEMMA ClaimantStep == TypeOK /\ AtWork /\ ClaimantNamed /\ [Next]_vars => ClaimantNamed'
  <1> SUFFICES ASSUME TypeOK, AtWork, ClaimantNamed, [Next]_vars PROVE ClaimantNamed'
    OBVIOUS
  <1>1. ASSUME NEW p \in Workers, ClaimOrder(p) PROVE ClaimantNamed'
    <2>1. order[p] \in Orders /\ user[p] \in Users /\ user[p] # None
      BY <1>1, NoneAssumption DEF ClaimOrder, TypeOK, OrderSteps
    <2>2. CASE Claimable(order[p])
      <3>1. /\ orders'[order[p]].claimedBy = user[p]
            /\ claimants'[order[p]] = claimants[order[p]] \cup {user[p]}
            /\ \A o \in Orders \ {order[p]} : orders'[o] = orders[o] /\ claimants'[o] = claimants[o]
        BY <1>1, <2>1, <2>2 DEF ClaimOrder, TypeOK, OrderRow
      <3>2. order[p] \notin stale => claimants[order[p]] = {}
        BY <2>1, <2>2 DEF Claimable, ClaimantNamed
      <3> QED
        BY <1>1, <2>1, <3>1, <3>2 DEF ClaimOrder, ClaimantNamed
    <2>3. CASE ~Claimable(order[p])
      BY <1>1, <2>3 DEF ClaimOrder, ClaimantNamed
    <2> QED
      BY <2>2, <2>3
  <1>2. ASSUME NEW p \in Workers, SaveOrder(p) PROVE ClaimantNamed'
    <2>1. claimants' = claimants /\ stale \subseteq stale'
      BY <1>2 DEF SaveOrder
    <2>2. \A o \in Orders : o # order[p] => orders'[o] = orders[o]
      BY <1>2 DEF SaveOrder, TypeOK
    <2>3. order[p] \in Orders
      BY <1>2 DEF SaveOrder, TypeOK, OrderSteps
    <2>4. "claimedBy" \in dirty[p] => order[p] \in stale'
      <3>1. handler[p] \in Kinds
        BY <1>2 DEF SaveOrder, AtWork
      <3>2. "claimedBy" \notin Means[handler[p]]
        BY <3>1 DEF Means
      <3> QED
        BY <1>2, <3>2 DEF SaveOrder
    <2>5. "claimedBy" \notin dirty[p] => orders'[order[p]].claimedBy = orders[order[p]].claimedBy
      BY <1>2, <2>3 DEF SaveOrder, TypeOK, Columns
    <2> QED
      BY <2>1, <2>2, <2>4, <2>5 DEF ClaimantNamed
  <1>3. ASSUME NEW p \in Workers, InsertTrip(p) PROVE ClaimantNamed'
    <2>1. \A o \in Orders : orders'[o].claimedBy = orders[o].claimedBy
      BY <1>3 DEF InsertTrip, TypeOK, OrderRow
    <2> QED
      BY <1>3, <2>1 DEF InsertTrip, ClaimantNamed, history
  <1>4. ASSUME NEW p \in Workers, Begin(p) PROVE ClaimantNamed'
    BY <1>4 DEF Begin, Claim, Pack, Fulfill, PickUp, Pay, Confirm, CreateTrip, ChangeTrip, StartOrder,
                StartTrip, Start, tables, ClaimantNamed
  <1>5. ASSUME NEW p \in Workers,
               \/ CheckFulfill(p) \/ ReadOrder(p) \/ SumPayments(p) \/ DiffOrder(p) \/ CheckDispatch(p)
               \/ MarkDelivered(p) \/ ReadStops(p) \/ DiffTrip(p) \/ SaveTrip(p) \/ Crash(p)
        PROVE  ClaimantNamed'
    BY <1>5 DEF CheckFulfill, ReadOrder, SumPayments, DiffOrder, CheckDispatch, MarkDelivered, ReadStops,
                DiffTrip, SaveTrip, Crash, tables, history, ClaimantNamed
  <1>6. ASSUME \/ \E t \in Trips, o \in Orders : SendCode(t, o) \/ Expire(t, o)
               \/ \E o \in OnCredit : CreditRequest(o)
               \/ UNCHANGED vars
        PROVE  ClaimantNamed'
    BY <1>6 DEF SendCode, Expire, CreditRequest, vars, tables, history, ClaimantNamed
  <1> QED
    BY <1>1, <1>2, <1>3, <1>4, <1>5, <1>6 DEF Next, Work

\* However many pickers claim an order at once, one succeeds; only a handler that
\* writes back an outdated row of the order can let in a second.
THEOREM OnePicker == Spec => []ClaimedByOne
  <1>1. Init => AtWork /\ ClaimantNamed
    BY DEF Init, AtWork, ClaimantNamed, NewOrder
  <1>2. ASSUME ClaimantNamed PROVE ClaimedByOne
    <2> SUFFICES ASSUME NEW o \in Orders \ stale PROVE Cardinality(claimants[o]) <= 1
      BY DEF ClaimedByOne
    <2>1. CASE claimants[o] = {}
      BY <2>1, FS_EmptySet
    <2>2. CASE claimants[o] = {orders[o].claimedBy}
      <3>1. Cardinality({orders[o].claimedBy}) = 1
        BY FS_Singleton, Zenon
      <3> QED
        BY <2>2, <3>1
    <2> QED
      BY <1>2, <2>1, <2>2 DEF ClaimantNamed
  <1>3. TypeOK /\ AtWork /\ ClaimantNamed /\ [Next]_vars => (TypeOK /\ AtWork /\ ClaimantNamed)'
    BY TypeStep, AtWorkStep, ClaimantStep
  <1> QED
    BY <1>1, <1>2, <1>3, TypeInit, PTL DEF Spec

-----------------------------------------------------------------------------
(* Trips and their stops.                                                  *)

ConfirmSteps == {"markDelivered", "readOrder", "diffOrder", "saveOrder", "readStops", "diffTrip", "saveTrip"}

\* What handler p knows of its trip.
Informed(p) ==
    /\ step[p] = "checkDispatch" => handler[p] = "trip" /\ list[p] # {} /\ target[p] = "scheduled"
    /\ step[p] \in TripSteps \ {"checkDispatch"} =>
          handler[p] = "confirm" \/ (handler[p] = "status" /\ trip[p] \in changed)
    /\ handler[p] = "confirm" =>
          /\ step[p] \in ConfirmSteps /\ target[p] = "completed"
          /\ step[p] \in {"diffTrip", "saveTrip"} => AllDelivered(trip[p])
          /\ step[p] = "saveTrip" /\ dirty[p] = {} /\ trip[p] \notin changed => trips[trip[p]] = "completed"

\* A completed trip has no stop left; one that has none left is completed, or one of
\* its confirmations still has the stops to read.
Closed(t) ==
    t \notin changed =>
        /\ trips[t] = "completed" => AllDelivered(t)
        /\ ~died /\ trips[t] # "none" /\ AllDelivered(t) =>
              trips[t] = "completed" \/ \E p \in Workers : handler[p] = "confirm" /\ trip[p] = t

\* Inductive, together with Exclusive.
TripsClose == (\A p \in Workers : Informed(p)) /\ \A t \in Trips : Closed(t)

\* Steps that write neither a trip nor a stop.  If they end a confirmation, then with
\* a stop left, the trip completed, or as a death.
LEMMA CloseFrame ==
    ASSUME TypeOK, TripsClose, NEW p \in Workers, UNCHANGED <<trips, stops>>,
           changed \subseteq changed', died => died',
           \A q \in Workers \ {p} :
               /\ handler'[q] = handler[q] /\ step'[q] = step[q] /\ trip'[q] = trip[q]
               /\ list'[q] = list[q] /\ target'[q] = target[q] /\ dirty'[q] = dirty[q],
           Informed(p)',
           handler[p] = "confirm" =>
               \/ died'
               \/ ~AllDelivered(trip[p])
               \/ trips[trip[p]] = "completed"
               \/ handler'[p] = "confirm" /\ trip'[p] = trip[p]
    PROVE  TripsClose'
  <1>1. \A t : AllDelivered(t)' = AllDelivered(t)
    BY DEF AllDelivered, StopsOf
  <1>2. ASSUME NEW q \in Workers PROVE Informed(q)'
    BY <1>1 DEF TripsClose, Informed
  <1>3. ASSUME NEW t \in Trips PROVE Closed(t)'
    BY <1>1 DEF TripsClose, Closed
  <1> QED
    BY <1>2, <1>3 DEF TripsClose

LEMMA ReturnInformed ==
    ASSUME TypeOK, NEW p \in Workers, Return(p)
    PROVE  /\ Informed(p)'
           /\ \A q \in Workers \ {p} :
                  /\ handler'[q] = handler[q] /\ step'[q] = step[q] /\ trip'[q] = trip[q]
                  /\ list'[q] = list[q] /\ target'[q] = target[q] /\ dirty'[q] = dirty[q]
  BY DEF Return, TypeOK, Informed, TripSteps

LEMMA StartInformed ==
    ASSUME TypeOK, TripsClose, NEW p \in Workers, NEW k \in Kinds, NEW first \in Steps, NEW o, NEW t, NEW u,
           NEW os, NEW r, NEW s, Start(p, k, first, o, t, u, os, r, s),
           UNCHANGED <<trips, stops>>, changed \subseteq changed',
           first = "checkDispatch" => k = "trip" /\ os # {} /\ s = "scheduled",
           first \in TripSteps \ {"checkDispatch"} => k = "confirm" \/ (k = "status" /\ t \in changed'),
           k = "confirm" => first = "markDelivered" /\ s = "completed"
    PROVE  TripsClose'
  <1>1. /\ handler'[p] = k /\ step'[p] = first /\ trip'[p] = t /\ list'[p] = os /\ target'[p] = s
        /\ \A q \in Workers \ {p} :
               /\ handler'[q] = handler[q] /\ step'[q] = step[q] /\ trip'[q] = trip[q]
               /\ list'[q] = list[q] /\ target'[q] = target[q] /\ dirty'[q] = dirty[q]
        /\ died' = died /\ step[p] = "idle"
    BY DEF Start, TypeOK
  <1>2. Informed(p)'
    BY <1>1 DEF Informed, ConfirmSteps
  <1>3. handler[p] # "confirm"
    BY <1>1 DEF TripsClose, Informed, ConfirmSteps
  <1> QED
    BY <1>1, <1>2, <1>3, CloseFrame

LEMMA CloseBegin == ASSUME TypeOK, TripsClose, NEW p \in Workers, Begin(p) PROVE TripsClose'
  <1> USE DEF Kinds, Steps, TripSteps
  <1>1. ASSUME NEW o \in Orders, NEW u \in Users, Claim(p, o, u) \/ Pack(p, o, u) \/ Fulfill(p, o, u)
        PROVE  TripsClose'
    BY <1>1, StartInformed DEF Claim, Pack, Fulfill, StartOrder, tables
  <1>2. ASSUME NEW o \in Orders, PickUp(p, o) PROVE TripsClose'
    BY <1>2, StartInformed DEF PickUp, StartOrder, tables
  <1>3. ASSUME NEW o \in Orders, NEW n \in Amounts, Pay(p, o, n) PROVE TripsClose'
    BY <1>3, StartInformed DEF Pay, StartOrder
  <1>4. ASSUME NEW o \in Orders, NEW t \in Trips, Confirm(p, t, o) PROVE TripsClose'
    <2>1. /\ Start(p, "confirm", "markDelivered", o, t, None, {}, NewOrder, "completed")
          /\ UNCHANGED <<trips, stops, changed>>
      BY <1>4 DEF Confirm, StartTrip, tables
    <2> QED
      BY <2>1, StartInformed
  <1>5. ASSUME NEW t \in Trips, NEW os \in (SUBSET Orders) \ {{}}, CreateTrip(p, t, os) PROVE TripsClose'
    <2>1. /\ Start(p, "trip", "checkDispatch", None, t, None, os, NewOrder, "scheduled")
          /\ UNCHANGED <<trips, stops, changed>>
      BY <1>5 DEF CreateTrip, StartTrip, tables
    <2> QED
      BY <2>1, StartInformed
  <1>6. ASSUME NEW t \in Trips, NEW s \in Changes, ChangeTrip(p, t, s) PROVE TripsClose'
    BY <1>6, StartInformed DEF ChangeTrip, StartTrip, tables
  <1> QED
    BY <1>1, <1>2, <1>3, <1>4, <1>5, <1>6 DEF Begin

\* A handler goes on to its next step.
LEMMA GotoClose ==
    ASSUME TypeOK, TripsClose, NEW p \in Workers, NEW s \in Steps, Goto(p, s), Informed(p)',
           UNCHANGED <<trips, stops, changed, died, handler, trip, list, target>>,
           \A q \in Workers \ {p} : dirty'[q] = dirty[q]
    PROVE  TripsClose'
  BY CloseFrame DEF Goto, TypeOK

LEMMA CloseOrders ==
    ASSUME TypeOK, TripsClose, NEW p \in Workers,
           ClaimOrder(p) \/ CheckFulfill(p) \/ ReadOrder(p) \/ SumPayments(p) \/ DiffOrder(p) \/ SaveOrder(p)
    PROVE  TripsClose'
  <1> USE DEF Steps, TripSteps, ConfirmSteps
  <1>0. Informed(p)
    BY DEF TripsClose
  <1>1. CASE ClaimOrder(p)
    <2>1. handler[p] # "confirm" /\ Return(p) /\ UNCHANGED <<trips, stops, changed, died>>
      BY <1>0, <1>1 DEF ClaimOrder, Informed
    <2> QED
      BY <2>1, ReturnInformed, CloseFrame
  <1>2. CASE CheckFulfill(p) \/ SumPayments(p)
    <2>1. handler[p] # "confirm" /\ UNCHANGED <<trips, stops, changed, died>>
      BY <1>0, <1>2 DEF CheckFulfill, SumPayments, Informed, tables, history
    <2>2. CASE Return(p)
      BY <2>1, <2>2, ReturnInformed, CloseFrame
    <2>3. CASE Goto(p, "diffOrder") /\ UNCHANGED <<handler, trip, list, dirty, target>>
      <3>1. Informed(p)'
        BY <2>1, <2>3 DEF Informed, Goto, TypeOK
      <3> QED
        BY <2>1, <2>3, <3>1, GotoClose
    <2> QED
      BY <1>2, <2>2, <2>3 DEF CheckFulfill, SumPayments
  <1>3. CASE ReadOrder(p) \/ DiffOrder(p)
    <2>1. /\ step[p] \in {"readOrder", "diffOrder"}
          /\ UNCHANGED <<trips, stops, changed, died, handler, trip, list, target>>
          /\ \A q \in Workers \ {p} : dirty'[q] = dirty[q]
      BY <1>3 DEF ReadOrder, DiffOrder, TypeOK, tables, history
    <2>2. PICK s \in {"diffOrder", "sum", "saveOrder"} :
              Goto(p, s) /\ (handler[p] = "confirm" => s # "sum")
      BY <1>3 DEF ReadOrder, DiffOrder
    <2>3. Informed(p)'
      BY <1>0, <2>1, <2>2 DEF Informed, Goto, TypeOK
    <2> QED
      BY <2>1, <2>2, <2>3, GotoClose
  <1>4. CASE SaveOrder(p)
    <2>1. UNCHANGED <<trips, stops, changed, died>> /\ step[p] = "saveOrder"
      BY <1>4 DEF SaveOrder
    <2>2. CASE handler[p] = "confirm"
      <3>1. Goto(p, "readStops") /\ UNCHANGED <<handler, trip, list, dirty, target>>
        BY <1>4, <2>2 DEF SaveOrder
      <3>2. step'[p] = "readStops" /\ handler'[p] = "confirm" /\ target'[p] = "completed"
        BY <1>0, <2>2, <3>1 DEF Informed, Goto, TypeOK
      <3>3. Informed(p)'
        BY <3>2 DEF Informed
      <3> QED
        BY <2>1, <3>1, <3>3, GotoClose
    <2>3. CASE handler[p] # "confirm"
      BY <1>4, <2>1, <2>3, ReturnInformed, CloseFrame DEF SaveOrder
    <2> QED
      BY <2>2, <2>3
  <1> QED
    BY <1>1, <1>2, <1>3, <1>4

LEMMA CloseTrips ==
    ASSUME TypeOK, Exclusive, TripsClose, NEW p \in Workers,
           \/ CheckDispatch(p) \/ InsertTrip(p)
           \/ MarkDelivered(p) \/ ReadStops(p) \/ DiffTrip(p) \/ SaveTrip(p)
    PROVE  TripsClose'
  <1> USE DEF Steps, TripSteps, ConfirmSteps
  <1>0. Informed(p) /\ (\A q \in Workers : Informed(q)) /\ \A t \in Trips : Closed(t)
    BY DEF TripsClose
  <1>1. CASE CheckDispatch(p)
    <2>1. /\ step[p] = "checkDispatch" /\ handler[p] = "trip"
          /\ UNCHANGED <<trips, stops, changed, died>>
      BY <1>0, <1>1 DEF CheckDispatch, Informed, tables, history
    <2>2. CASE Return(p)
      BY <2>1, <2>2, ReturnInformed, CloseFrame
    <2>3. CASE UNCHANGED <<handler, step, trip, list, dirty, target>>
      <3>1. Informed(p)'
        BY <1>0, <2>1, <2>3 DEF Informed
      <3> QED
        BY <2>1, <2>3, <3>1, CloseFrame
    <2> QED
      BY <1>1, <2>2, <2>3 DEF CheckDispatch
  <1>2. CASE InsertTrip(p)
    <2>1. /\ handler[p] = "trip" /\ list[p] # {} /\ list[p] \subseteq Orders
          /\ target[p] = "scheduled" /\ trip[p] \in Trips
          /\ \A q \in Workers \ {p} : trip[q] # trip[p]
      BY <1>0, <1>2 DEF InsertTrip, Informed, Exclusive, TypeOK
    <2>2. /\ trips'[trip[p]] = "scheduled" /\ \E o \in Orders : stops'[trip[p]][o] = "pending"
          /\ \A t \in Trips \ {trip[p]} : trips'[t] = trips[t] /\ stops'[t] = stops[t]
          /\ changed' = changed /\ died' = died
      BY <1>2, <2>1 DEF InsertTrip, TypeOK, history
    <2>3. \A t \in Trips : IF t = trip[p] THEN ~AllDelivered(t)' ELSE AllDelivered(t)' = AllDelivered(t)
      BY <2>2 DEF AllDelivered, StopsOf
    <2>4. Return(p)
      BY <1>2 DEF InsertTrip
    <2>5. ASSUME NEW q \in Workers \ {p} PROVE Informed(q)'
      <3>1. /\ handler'[q] = handler[q] /\ step'[q] = step[q] /\ trip'[q] = trip[q]
            /\ list'[q] = list[q] /\ target'[q] = target[q] /\ dirty'[q] = dirty[q]
        BY <2>4, ReturnInformed
      <3>2. handler[q] = "confirm" => trip[q] \in Trips \ {trip[p]}
        BY <2>1 DEF TypeOK
      <3> QED
        BY <1>0, <2>2, <2>3, <3>1, <3>2 DEF Informed
    <2>6. ASSUME NEW t \in Trips PROVE Closed(t)'
      <3>1. CASE t = trip[p]
        BY <2>2, <2>3, <3>1 DEF Closed
      <3>2. CASE t # trip[p]
        <4>1. \A q \in Workers : handler[q] = "confirm" => handler'[q] = "confirm" /\ trip'[q] = trip[q]
          BY <2>1, <2>4, ReturnInformed
        <4> QED
          BY <1>0, <2>2, <2>3, <3>2, <4>1 DEF Closed
      <3> QED
        BY <3>1, <3>2
    <2> QED
      BY <2>4, <2>5, <2>6, ReturnInformed DEF TripsClose
  <1>3. CASE MarkDelivered(p)
    <2>1. /\ step[p] = "markDelivered" /\ trip[p] \in Trips /\ order[p] \in Orders
          /\ step' = [step EXCEPT ![p] = "readOrder"]
          /\ UNCHANGED <<trips, changed, died, handler, trip, list, target, dirty>>
      BY <1>3 DEF MarkDelivered, Goto, TypeOK, OrderSteps, history
    <2>2. \A t \in Trips : AllDelivered(t) => AllDelivered(t)'
      BY <1>3, <2>1 DEF MarkDelivered, AllDelivered, StopsOf, TypeOK
    <2>3. \A t \in Trips \ {trip[p]} : AllDelivered(t)' = AllDelivered(t)
      BY <1>3, <2>1 DEF MarkDelivered, AllDelivered, StopsOf, TypeOK
    <2>4. handler[p] = "confirm" \/ trip[p] \in changed
      BY <1>0, <2>1 DEF Informed
    <2>5. ASSUME NEW q \in Workers PROVE Informed(q)'
      <3>1. handler[q] = "confirm" => trip[q] \in Trips
        BY DEF TypeOK
      <3>2. CASE q = p
        BY <1>0, <2>1, <3>2 DEF Informed, TypeOK
      <3>3. CASE q # p
        BY <1>0, <2>1, <2>2, <3>1, <3>3 DEF Informed, TypeOK
      <3> QED
        BY <3>2, <3>3
    <2>6. ASSUME NEW t \in Trips PROVE Closed(t)'
      BY <1>0, <2>1, <2>2, <2>3, <2>4 DEF Closed
    <2> QED
      BY <2>5, <2>6 DEF TripsClose
  <1>4. CASE ReadStops(p)
    <2>1. UNCHANGED <<trips, stops, changed, died>> /\ step[p] = "readStops"
      BY <1>4 DEF ReadStops, tables, history
    <2>2. CASE AllDelivered(trip[p])
      <3>1. Goto(p, "diffTrip") /\ UNCHANGED <<handler, trip, list, dirty, target>>
        BY <1>4, <2>2 DEF ReadStops
      <3>2. AllDelivered(trip[p])'
        BY <2>1, <2>2, <3>1 DEF AllDelivered, StopsOf
      <3>3. Informed(p)'
        BY <1>0, <2>1, <3>1, <3>2 DEF Informed, Goto, TypeOK
      <3> QED
        BY <2>1, <3>1, <3>3, GotoClose
    <2>3. CASE ~AllDelivered(trip[p])
      BY <1>4, <2>1, <2>3, ReturnInformed, CloseFrame DEF ReadStops
    <2> QED
      BY <2>2, <2>3
  <1>5. CASE DiffTrip(p)
    <2>1. /\ UNCHANGED <<trips, stops, changed, died, handler, trip, list, target>>
          /\ step[p] = "diffTrip" /\ Goto(p, "saveTrip")
          /\ dirty'[p] = IF trips[trip[p]] # target[p] THEN {"status"} ELSE {}
          /\ \A q \in Workers \ {p} : dirty'[q] = dirty[q]
      BY <1>5 DEF DiffTrip, TypeOK, tables, history
    <2>2. AllDelivered(trip[p])' = AllDelivered(trip[p])
      BY <2>1 DEF AllDelivered, StopsOf
    <2>3. Informed(p)'
      BY <1>0, <2>1, <2>2 DEF Informed, Goto, TypeOK
    <2> QED
      BY <2>1, <2>3, GotoClose
  <1>6. CASE SaveTrip(p)
    <2>1. /\ step[p] = "saveTrip" /\ Return(p) /\ trip[p] \in Trips
          /\ UNCHANGED <<stops, changed, died>>
          /\ trips' = IF dirty[p] = {} THEN trips ELSE [trips EXCEPT ![trip[p]] = target[p]]
      BY <1>6 DEF SaveTrip, TypeOK, history
    <2>2. \A t : AllDelivered(t)' = AllDelivered(t)
      BY <2>1 DEF AllDelivered, StopsOf
    <2>3. /\ \A t \in Trips \ {trip[p]} : trips'[t] = trips[t]
          /\ handler[p] = "confirm" /\ trip[p] \notin changed =>
                trips'[trip[p]] = "completed" /\ AllDelivered(trip[p])
      BY <1>0, <2>1 DEF Informed, TypeOK
    <2>4. handler[p] = "confirm" \/ trip[p] \in changed
      BY <1>0, <2>1 DEF Informed
    <2>5. ASSUME NEW q \in Workers \ {p} PROVE Informed(q)'
      <3>1. /\ handler'[q] = handler[q] /\ step'[q] = step[q] /\ trip'[q] = trip[q]
            /\ list'[q] = list[q] /\ target'[q] = target[q] /\ dirty'[q] = dirty[q]
        BY <2>1, ReturnInformed
      <3>2. handler[q] = "confirm" => trip[q] \in Trips
        BY DEF TypeOK
      <3> QED
        BY <1>0, <2>1, <2>2, <2>3, <2>4, <3>1, <3>2 DEF Informed
    <2>6. ASSUME NEW t \in Trips PROVE Closed(t)'
      <3>1. CASE t = trip[p]
        BY <2>1, <2>2, <2>3, <2>4, <3>1 DEF Closed
      <3>2. CASE t # trip[p]
        <4>1. \A q \in Workers : handler[q] = "confirm" /\ trip[q] = t =>
                  handler'[q] = "confirm" /\ trip'[q] = t
          BY <2>1, <3>2, ReturnInformed
        <4> QED
          BY <1>0, <2>1, <2>2, <2>3, <3>2, <4>1 DEF Closed
      <3> QED
        BY <3>1, <3>2
    <2> QED
      BY <2>1, <2>5, <2>6, ReturnInformed DEF TripsClose
  <1> QED
    BY <1>1, <1>2, <1>3, <1>4, <1>5, <1>6

LEMMA CloseStep == TypeOK /\ Exclusive /\ TripsClose /\ [Next]_vars => TripsClose'
  <1> SUFFICES ASSUME TypeOK, Exclusive, TripsClose, [Next]_vars PROVE TripsClose'
    OBVIOUS
  <1>1. ASSUME NEW p \in Workers, Crash(p) PROVE TripsClose'
    <2>1. Return(p) /\ died' /\ UNCHANGED <<trips, stops, changed>>
      BY <1>1 DEF Crash, tables
    <2> QED
      BY <2>1, ReturnInformed, CloseFrame
  <1>2. ASSUME \/ \E t \in Trips, o \in Orders : SendCode(t, o) \/ Expire(t, o)
               \/ \E o \in OnCredit : CreditRequest(o)
               \/ UNCHANGED vars
        PROVE  TripsClose'
    <2>1. UNCHANGED <<trips, stops, worker, changed, died>>
      BY <1>2 DEF SendCode, Expire, CreditRequest, vars, tables, history
    <2> QED
      BY <2>1 DEF worker, TripsClose, Informed, Closed, AllDelivered, StopsOf
  <1> QED
    BY <1>1, <1>2, CloseBegin, CloseOrders, CloseTrips DEF Next, Work

\* However confirmations of one trip overlap - each marks its stop before it reads
\* them all - a trip is completed exactly when its last stop is delivered, unless a
\* handler died or a PATCH set the trip's status.
THEOREM TripsFollowStops == Spec => []TripFollowsStops
  <1>1. Init => TripsClose
    BY DEF Init, TripsClose, Informed, Closed, TripSteps
  <1>2. TypeOK /\ TripsClose => TripFollowsStops
    BY DEF TypeOK, TripsClose, Closed, TripFollowsStops, AllDelivered, StopsOf
  <1>3. TypeOK /\ Exclusive /\ TripsClose /\ [Next]_vars => (TypeOK /\ Exclusive /\ TripsClose)'
    BY TypeStep, ExclusiveStep, CloseStep
  <1>4. Init => Exclusive
    BY ConfirmedInit DEF ConfirmedAllAlong
  <1> QED
    BY <1>1, <1>2, <1>3, <1>4, TypeInit, PTL DEF Spec
=============================================================================
