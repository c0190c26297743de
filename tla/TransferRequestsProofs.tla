----------------------- MODULE TransferRequestsProofs -----------------------
(***************************************************************************)
(* Theorems about TransferRequests for any stores, requests, transfers and *)
(* handlers: type correctness, that a request is credited to its store     *)
(* only after it was debited from another, that a request whose handlers   *)
(* take turns keeps to its lifecycle, and that no stock is made or lost,   *)
(* which takes sums over finite sets of stores and requests.               *)
(***************************************************************************)
EXTENDS TransferRequests, FiniteSetTheorems, TLAPS

-----------------------------------------------------------------------------
(* Type correctness.                                                       *)

LEMMA ReturnType ==
    ASSUME TypeOK, NEW p \in Workers, Return(p),
           UNCHANGED <<jobs, debited, credited, madeFor>>,
           requests' \in [Requests -> RequestRow], transfers' \in [Transfers -> TransferStatus],
           stock' \in [Locations -> Int], disturbed' \in SUBSET Requests
    PROVE  TypeOK'
  <1>1. NoRow \in RequestRow
    BY DEF NoRow, RequestRow, RequestStatus
  <1> QED
    BY <1>1, NoneAssumption DEF TypeOK, Return, Handlers, Steps

LEMMA StartType ==
    ASSUME TypeOK, NEW p \in Workers, NEW h \in Handlers, NEW r \in Requests,
           NEW l \in Locations \cup {None}, NEW first \in {"check", "add", "diffRequest"},
           first = "check" => l \in Locations, Start(p, h, r, l, first)
    PROVE  TypeOK'
  <1>1. requests[r] \in RequestRow /\ requests[r].transfer \in Transfers \cup {None}
    BY DEF TypeOK, RequestRow
  <1> QED
    BY <1>1 DEF TypeOK, Start, tables, Steps

LEMMA StartTransferType ==
    ASSUME TypeOK, NEW p \in Workers, NEW h \in Handlers \ {"claim"}, NEW t \in Transfers,
           NEW first \in {"moveStock", "diffTransfer"}, StartTransfer(p, h, t, first)
    PROVE  TypeOK'
  BY DEF TypeOK, StartTransfer, tables, Steps

LEMMA ChangedType ==
    ASSUME TypeOK, NEW p \in Workers
    PROVE  Changed(p) \in RequestRow
  <1>1. /\ entity[p] \in RequestRow /\ transfer[p] \in Transfers \cup {None}
        /\ location[p] \in Locations \cup {None}
    BY DEF TypeOK
  <1>2. CASE handler[p] = "accept"
    BY <1>1, <1>2 DEF Changed, RequestRow, RequestStatus
  <1>3. CASE handler[p] = "claim"
    BY <1>1, <1>3 DEF Changed, RequestRow, RequestStatus
  <1>4. CASE handler[p] = "cancelRequest"
    BY <1>1, <1>4 DEF Changed, RequestRow, RequestStatus
  <1> QED
    BY <1>1, <1>2, <1>3, <1>4 DEF Changed

LEMMA TypeStep == TypeOK /\ [Next]_vars => TypeOK'
  <1> SUFFICES ASSUME TypeOK, [Next]_vars PROVE TypeOK'
    OBVIOUS
  <1>1. ASSUME NEW r \in Requests, Raise(r) PROVE TypeOK'
    BY <1>1 DEF Raise, TypeOK, RequestRow, RequestStatus, worker, history
  <1>2. ASSUME NEW t \in Transfers, CreateTransfer(t) PROVE TypeOK'
    BY <1>2 DEF CreateTransfer, TypeOK, TransferStatus, worker, history
  <1>3. ASSUME NEW p \in Workers, NEW r \in Requests, NEW l \in Locations, Accept(p, r, l) PROVE TypeOK'
    BY <1>3, StartType DEF Accept, Handlers
  <1>4. ASSUME NEW p \in Workers, NEW r \in Requests, Claim(p, r) PROVE TypeOK'
    BY <1>4, StartType DEF Claim, Handlers
  <1>5. ASSUME NEW p \in Workers, NEW r \in Requests, CancelRequest(p, r) PROVE TypeOK'
    BY <1>5, StartType DEF CancelRequest, Handlers
  <1>6. ASSUME NEW p \in Workers, NEW t \in Transfers, Complete(p, t) \/ CancelTransfer(p, t)
        PROVE  TypeOK'
    BY <1>6, StartTransferType DEF Complete, CancelTransfer, Handlers
  <1>7. ASSUME NEW p \in Workers, CheckStock(p) PROVE TypeOK'
    BY <1>7 DEF CheckStock, Goto, TypeOK, Steps, tables, history
  <1>8. ASSUME NEW p \in Workers, RemoveStock(p) PROVE TypeOK'
    <2>1. Quantity[subject[p]] \in Nat /\ location[p] \in Locations /\ subject[p] \in Requests
      BY <1>8, QuantityAssumption DEF RemoveStock, TypeOK
    <2>2. stock' \in [Locations -> Int] /\ debited' \in [Requests -> Nat]
      BY <1>8, <2>1 DEF RemoveStock, TypeOK
    <2> QED
      BY <1>8, <2>1, <2>2 DEF RemoveStock, Goto, TypeOK, Steps
  <1>9. ASSUME NEW p \in Workers, Reject(p) PROVE TypeOK'
    BY <1>9, ReturnType DEF Reject, tables, history, TypeOK
  <1>10. ASSUME NEW p \in Workers, CreateFulfilment(p) PROVE TypeOK'
    <2>1. PICK t \in Transfers : /\ transfers' = [transfers EXCEPT ![t] = "Pending"]
                                 /\ madeFor' = [madeFor EXCEPT ![t] = subject[p]]
                                 /\ transfer' = [transfer EXCEPT ![p] = t]
      BY <1>10 DEF CreateFulfilment
    <2> QED
      BY <1>10, <2>1 DEF CreateFulfilment, Goto, TypeOK, Steps, TransferStatus
  <1>11. ASSUME NEW p \in Workers, AddStock(p) PROVE TypeOK'
    <2>1. subject[p] \in Requests
      BY <1>11 DEF AddStock, TypeOK
    <2>2. Quantity[subject[p]] \in Nat /\ Home[subject[p]] \in Locations
      BY <2>1, QuantityAssumption, HomeAssumption
    <2>3. stock' \in [Locations -> Int] /\ credited' \in [Requests -> Nat]
      BY <1>11, <2>1, <2>2 DEF AddStock, TypeOK
    <2> QED
      BY <1>11, <2>1, <2>3 DEF AddStock, Goto, TypeOK, Steps
  <1>12. ASSUME NEW p \in Workers, NEW l \in Locations, NEW m \in Locations,
                NEW q \in {Quantity[r] : r \in Requests},
                MoveStock(p, l, m, q) \/ MoveRejected(p, l, q)
         PROVE  TypeOK'
    <2>1. q \in Nat
      BY QuantityAssumption
    <2>2. stock' \in [Locations -> Int] /\ transfers' \in [Transfers -> TransferStatus]
      BY <1>12, <2>1 DEF MoveStock, MoveRejected, TypeOK, TransferStatus, tables
    <2>3. requests' = requests /\ disturbed' = disturbed
      BY <1>12 DEF MoveStock, MoveRejected, tables, history
    <2> QED
      BY <1>12, <2>2, <2>3, ReturnType DEF MoveStock, MoveRejected, history, TypeOK
  <1>13. ASSUME NEW p \in Workers, DiffTransfer(p) PROVE TypeOK'
    BY <1>13 DEF DiffTransfer, Goto, TypeOK, Steps, Columns, tables, history
  <1>14. ASSUME NEW p \in Workers, SaveTransfer(p) PROVE TypeOK'
    <2>1. transfers' \in [Transfers -> TransferStatus]
      BY <1>14 DEF SaveTransfer, TransferTarget, TypeOK, TransferStatus
    <2>2. CASE handler[p] = "claim"
      BY <1>14, <2>1, <2>2 DEF SaveTransfer, Goto, TypeOK, Steps, history
    <2>3. CASE handler[p] # "claim"
      BY <1>14, <2>1, <2>3, ReturnType DEF SaveTransfer, TypeOK, history
    <2> QED
      BY <2>2, <2>3
  <1>15. ASSUME NEW p \in Workers, DiffRequest(p) PROVE TypeOK'
    <2>1. Changed(p) \in RequestRow
      BY <1>15, ChangedType DEF DiffRequest
    <2> QED
      BY <1>15, <2>1 DEF DiffRequest, Goto, TypeOK, Steps, Columns, tables, history
  <1>16. ASSUME NEW p \in Workers, SaveRequest(p) PROVE TypeOK'
    <2>1. requests' \in [Requests -> RequestRow]
      BY <1>16 DEF SaveRequest, TypeOK, RequestRow, Columns
    <2> QED
      BY <1>16, <2>1, ReturnType DEF SaveRequest, TypeOK, history
  <1>17. ASSUME NEW p \in Workers, Crash(p) PROVE TypeOK'
    BY <1>17, ReturnType DEF Crash, TypeOK, tables
  <1>18. CASE UNCHANGED vars
    BY <1>18 DEF vars, tables, worker, history, TypeOK
  <1> QED
    BY <1>1, <1>2, <1>3, <1>4, <1>5, <1>6, <1>7, <1>8, <1>9, <1>10, <1>11, <1>12, <1>13, <1>14,
       <1>15, <1>16, <1>17, <1>18 DEF Next, Work

LEMMA TypeInit == Init => TypeOK
  <1>1. NoRow \in RequestRow
    BY DEF NoRow, RequestRow, RequestStatus
  <1> QED
    BY <1>1, OpeningAssumption DEF Init, TypeOK, TransferStatus, Handlers, Steps

\* Every table and every handler's memory keeps its type.
THEOREM TypeCorrect == Spec => []TypeOK
  BY TypeInit, TypeStep, PTL DEF Spec

-----------------------------------------------------------------------------
(* Credit needs debit.                                                     *)

Taken == {"Accepted", "Completed"}

\* Inductive: whoever says that a request's stock has left, says so after it
\* left - the row, a handler's copy of it, an accept past its removal, a claim.
DebitedBefore ==
    /\ \A r \in Requests : requests[r].status \in Taken => debited[r] > 0
    /\ \A p \in Workers : subject[p] \in Requests =>
          /\ entity[p].status \in Taken => debited[subject[p]] > 0
          /\ handler[p] = "accept" /\ step[p] \notin {"check", "remove"} => debited[subject[p]] > 0
          /\ handler[p] = "claim" => debited[subject[p]] > 0
          /\ step[p] = "add" => handler[p] = "claim"
    /\ CreditNeedsDebit

LEMMA ReturnBefore ==
    ASSUME TypeOK, DebitedBefore, NEW p \in Workers, Return(p),
           UNCHANGED <<requests, debited, credited>>
    PROVE  DebitedBefore'
  BY NoneAssumption DEF TypeOK, DebitedBefore, Return, CreditNeedsDebit

LEMMA StartBefore ==
    ASSUME TypeOK, DebitedBefore, NEW p \in Workers, NEW r \in Requests, NEW h, NEW l, NEW first,
           Start(p, h, r, l, first), requests[r].status \in Taken \/ h # "claim",
           h = "accept" => first = "check", first = "add" => h = "claim"
    PROVE  DebitedBefore'
  BY DEF TypeOK, DebitedBefore, Start, CreditNeedsDebit, tables

LEMMA DebitedStep == TypeOK /\ DebitedBefore /\ [Next]_vars => DebitedBefore'
  <1> SUFFICES ASSUME TypeOK, DebitedBefore, [Next]_vars PROVE DebitedBefore'
    OBVIOUS
  <1>1. ASSUME NEW r \in Requests, Raise(r) PROVE DebitedBefore'
    BY <1>1 DEF Raise, TypeOK, RequestRow, Taken, DebitedBefore, CreditNeedsDebit, worker, history
  <1>2. ASSUME NEW t \in Transfers, CreateTransfer(t) PROVE DebitedBefore'
    BY <1>2 DEF CreateTransfer, DebitedBefore, CreditNeedsDebit, worker, history
  <1>3. ASSUME NEW p \in Workers, NEW r \in Requests, NEW l \in Locations, Accept(p, r, l)
        PROVE  DebitedBefore'
    BY <1>3, StartBefore DEF Accept
  <1>4. ASSUME NEW p \in Workers, NEW r \in Requests, Claim(p, r) PROVE DebitedBefore'
    BY <1>4, StartBefore DEF Claim, Taken
  <1>5. ASSUME NEW p \in Workers, NEW r \in Requests, CancelRequest(p, r) PROVE DebitedBefore'
    BY <1>5, StartBefore DEF CancelRequest
  <1>6. ASSUME NEW p \in Workers, NEW t \in Transfers, Complete(p, t) \/ CancelTransfer(p, t)
        PROVE  DebitedBefore'
    BY <1>6 DEF Complete, CancelTransfer, StartTransfer, TypeOK, DebitedBefore, CreditNeedsDebit, tables
  <1>7. ASSUME NEW p \in Workers, CheckStock(p) PROVE DebitedBefore'
    BY <1>7 DEF CheckStock, Goto, TypeOK, DebitedBefore, CreditNeedsDebit, tables, history
  <1>8. ASSUME NEW p \in Workers, RemoveStock(p) PROVE DebitedBefore'
    <2>1. subject[p] \in Requests
      BY <1>8 DEF RemoveStock, TypeOK
    <2>2. debited'[subject[p]] > 0 /\ \A r \in Requests : debited[r] > 0 => debited'[r] > 0
      BY <1>8, <2>1 DEF RemoveStock, TypeOK
    <2> QED
      BY <1>8, <2>1, <2>2 DEF RemoveStock, Goto, TypeOK, DebitedBefore, CreditNeedsDebit
  <1>9. ASSUME NEW p \in Workers, Reject(p) PROVE DebitedBefore'
    BY <1>9, ReturnBefore DEF Reject, tables, history
  <1>10. ASSUME NEW p \in Workers, CreateFulfilment(p) PROVE DebitedBefore'
    BY <1>10 DEF CreateFulfilment, Goto, TypeOK, DebitedBefore, CreditNeedsDebit
  <1>11. ASSUME NEW p \in Workers, AddStock(p) PROVE DebitedBefore'
    <2>1. subject[p] \in Requests /\ debited[subject[p]] > 0
      BY <1>11 DEF AddStock, TypeOK, DebitedBefore
    <2>2. \A r \in Requests : credited'[r] > 0 => debited[r] > 0
      BY <1>11, <2>1 DEF AddStock, TypeOK, DebitedBefore, CreditNeedsDebit
    <2>3. /\ step[p] = "add" /\ step'[p] # "add"
          /\ \A q \in Workers : q # p => step'[q] = step[q]
      BY <1>11 DEF AddStock, Goto, TypeOK
    <2> QED
      BY <1>11, <2>1, <2>2, <2>3 DEF AddStock, DebitedBefore, CreditNeedsDebit
  <1>12. ASSUME NEW p \in Workers, NEW l \in Locations, NEW m \in Locations, NEW q,
                MoveStock(p, l, m, q) \/ MoveRejected(p, l, q)
         PROVE  DebitedBefore'
    BY <1>12, ReturnBefore DEF MoveStock, MoveRejected, tables, history
  <1>13. ASSUME NEW p \in Workers, DiffTransfer(p) PROVE DebitedBefore'
    BY <1>13 DEF DiffTransfer, Goto, TypeOK, DebitedBefore, CreditNeedsDebit, tables, history
  <1>14. ASSUME NEW p \in Workers, SaveTransfer(p) PROVE DebitedBefore'
    <2>1. CASE handler[p] = "claim"
      BY <1>14, <2>1 DEF SaveTransfer, Goto, TypeOK, DebitedBefore, CreditNeedsDebit, history
    <2>2. CASE handler[p] # "claim"
      BY <1>14, <2>2, ReturnBefore DEF SaveTransfer, history
    <2> QED
      BY <2>1, <2>2
  <1>15. ASSUME NEW p \in Workers, DiffRequest(p) PROVE DebitedBefore'
    <2>1. subject[p] \in Requests
      BY <1>15 DEF DiffRequest, TypeOK
    <2>2. Changed(p).status \in Taken => debited[subject[p]] > 0
      BY <1>15, <2>1 DEF DiffRequest, Changed, DebitedBefore, Taken, TypeOK, RequestRow
    <2>3. /\ entity'[p] = Changed(p) /\ step'[p] = "saveRequest"
          /\ \A q \in Workers : q # p => step'[q] = step[q] /\ entity'[q] = entity[q]
      BY <1>15 DEF DiffRequest, Goto, TypeOK
    <2>4. step[p] = "diffRequest"
      BY <1>15 DEF DiffRequest
    <2> QED
      BY <1>15, <2>1, <2>2, <2>3, <2>4 DEF DiffRequest, DebitedBefore, CreditNeedsDebit, tables, history
  <1>16. ASSUME NEW p \in Workers, SaveRequest(p) PROVE DebitedBefore'
    <2>1. subject[p] \in Requests
      BY <1>16 DEF SaveRequest, TypeOK
    <2>2. requests'[subject[p]].status \in Taken => debited[subject[p]] > 0
      BY <1>16, <2>1 DEF SaveRequest, DebitedBefore, TypeOK, Columns
    <2>3. \A r \in Requests : r # subject[p] => requests'[r] = requests[r]
      BY <1>16 DEF SaveRequest, TypeOK
    <2>4. \A r \in Requests : requests'[r].status \in Taken => debited'[r] > 0
      BY <1>16, <2>2, <2>3 DEF SaveRequest, DebitedBefore, history
    <2>5. debited' = debited /\ credited' = credited /\ Return(p)
      BY <1>16 DEF SaveRequest, history
    <2> QED
      BY <2>4, <2>5, NoneAssumption DEF Return, TypeOK, DebitedBefore, CreditNeedsDebit
  <1>17. ASSUME NEW p \in Workers, Crash(p) PROVE DebitedBefore'
    BY <1>17, ReturnBefore DEF Crash, tables
  <1>18. CASE UNCHANGED vars
    BY <1>18 DEF vars, tables, worker, history, DebitedBefore, CreditNeedsDebit
  <1> QED
    BY <1>1, <1>2, <1>3, <1>4, <1>5, <1>6, <1>7, <1>8, <1>9, <1>10, <1>11, <1>12, <1>13, <1>14,
       <1>15, <1>16, <1>17, <1>18 DEF Next, Work

LEMMA DebitedInit == Init => DebitedBefore
  BY NoneAssumption DEF Init, DebitedBefore, CreditNeedsDebit, NoRow, Taken

\* A request's store is credited only after another store was debited for it,
\* whatever handlers overlap, repeat, die or overwrite each other's rows.
THEOREM CreditFollowsDebit == Spec => []CreditNeedsDebit
  <1>1. DebitedBefore => CreditNeedsDebit
    BY DEF DebitedBefore
  <1> QED
    BY <1>1, TypeInit, TypeStep, DebitedInit, DebitedStep, PTL DEF Spec

-----------------------------------------------------------------------------
(* The life of a request.                                                  *)

OfRequest == {"accept", "claim", "cancelRequest"}

From(h) == IF h = "claim" THEN "Accepted" ELSE "Open"

To(h) == CASE h = "accept" -> "Accepted" [] h = "claim" -> "Completed" [] OTHER -> "Cancelled"

\* What handler p of a request that nobody disturbed may rely on: it is the only one,
\* the request still has the status that p has checked, and p will save the next.
Relies(p) ==
    /\ handler[p] \in OfRequest
    /\ requests[subject[p]].status = From(handler[p])
    /\ step[p] = "saveRequest" => entity[p].status = To(handler[p])
    /\ \A q \in Workers : subject[q] = subject[p] => q = p

\* Inductive.
InTurn ==
    \A p \in Workers :
        /\ step[p] = "idle" => subject[p] \notin Requests
        /\ subject[p] \in Requests \ disturbed => Relies(p)

Legal(a, b) ==
    <<a, b>> \in { <<"None", "Open">>, <<"Open", "Accepted">>, <<"Open", "Cancelled">>,
                  <<"Accepted", "Completed">> }

LifecycleStep ==
    \A r \in Requests \ disturbed' :
        requests'[r].status # requests[r].status => Legal(requests[r].status, requests'[r].status)

LEMMA ReturnInTurn ==
    ASSUME TypeOK, InTurn, NEW p \in Workers, Return(p), disturbed \subseteq disturbed',
           \A r \in Requests \ disturbed' : r # subject[p] => requests'[r].status = requests[r].status
    PROVE  InTurn'
  <1>1. /\ step'[p] = "idle" /\ subject'[p] \notin Requests
        /\ \A q \in Workers \ {p} : /\ step'[q] = step[q] /\ subject'[q] = subject[q]
                                    /\ handler'[q] = handler[q] /\ entity'[q] = entity[q]
    BY NoneAssumption DEF Return, TypeOK
  <1>2. ASSUME NEW q \in Workers, subject'[q] \in Requests \ disturbed' PROVE Relies(q)'
    <2>1. q # p /\ subject'[q] = subject[q] /\ Relies(q)
      BY <1>1, <1>2 DEF InTurn
    <2>2. subject[q] # subject[p]
      BY <2>1 DEF Relies
    <2>3. requests'[subject[q]].status = requests[subject[q]].status
      BY <1>2, <2>1, <2>2
    <2>4. \A w \in Workers : subject'[w] = subject'[q] => w = q
      BY <1>1, <1>2, <2>1 DEF Relies
    <2> QED
      BY <1>1, <2>1, <2>3, <2>4 DEF Relies
  <1> QED
    BY <1>1, <1>2 DEF InTurn

LEMMA StartInTurn ==
    ASSUME TypeOK, InTurn, NEW p \in Workers, NEW r \in Requests, NEW h \in OfRequest, NEW l,
           NEW first \in {"check", "add", "diffRequest"},
           Start(p, h, r, l, first), requests[r].status = From(h)
    PROVE  InTurn'
  <1>1. /\ step'[p] = first /\ subject'[p] = r /\ handler'[p] = h /\ requests' = requests
        /\ \A q \in Workers \ {p} : /\ step'[q] = step[q] /\ subject'[q] = subject[q]
                                    /\ handler'[q] = handler[q] /\ entity'[q] = entity[q]
        /\ disturbed \subseteq disturbed'
    BY DEF Start, TypeOK, tables
  <1>2. r \notin disturbed' => \A q \in Workers : subject[q] # r
    BY DEF Start, Busy
  <1>3. ASSUME NEW q \in Workers, subject'[q] \in Requests \ disturbed' PROVE Relies(q)'
    <2>1. CASE q = p
      BY <1>1, <1>2, <1>3, <2>1 DEF Relies
    <2>2. CASE q # p
      BY <1>1, <1>2, <1>3, <2>2 DEF Relies, InTurn
    <2> QED
      BY <2>1, <2>2
  <1> QED
    BY <1>1, <1>3 DEF InTurn

\* A handler goes on to its next step.
LEMMA GotoInTurn ==
    ASSUME TypeOK, InTurn, NEW p \in Workers, NEW s \in Steps \ {"idle", "saveRequest"}, Goto(p, s),
           UNCHANGED <<requests, handler, subject, entity, disturbed>>, step[p] # "idle"
    PROVE  InTurn'
  BY DEF Goto, TypeOK, InTurn, Relies

LEMMA InTurnStep == TypeOK /\ InTurn /\ [Next]_vars => InTurn' /\ LifecycleStep
  <1> SUFFICES ASSUME TypeOK, InTurn, [Next]_vars PROVE InTurn' /\ LifecycleStep
    OBVIOUS
  <1>0. requests' = requests => LifecycleStep
    BY DEF LifecycleStep
  <1>1. ASSUME NEW r \in Requests, Raise(r) PROVE InTurn' /\ LifecycleStep
    <2>1. /\ requests[r].status = "None" /\ requests'[r].status = "Open"
          /\ \A o \in Requests \ {r} : requests'[o] = requests[o]
      BY <1>1 DEF Raise, TypeOK, RequestRow
    <2>2. \A p \in Workers : subject[p] \in Requests \ disturbed => subject[p] # r
      BY <2>1 DEF InTurn, Relies, From
    <2> QED
      BY <1>1, <2>1, <2>2 DEF Raise, InTurn, Relies, LifecycleStep, Legal, worker, history
  <1>2. ASSUME NEW t \in Transfers, CreateTransfer(t) PROVE InTurn' /\ LifecycleStep
    BY <1>0, <1>2 DEF CreateTransfer, InTurn, Relies, worker, history
  <1>3. ASSUME NEW p \in Workers, NEW r \in Requests, NEW l \in Locations, Accept(p, r, l)
        PROVE  InTurn' /\ LifecycleStep
    BY <1>0, <1>3, StartInTurn DEF Accept, From, OfRequest, Start, tables
  <1>4. ASSUME NEW p \in Workers, NEW r \in Requests, Claim(p, r) PROVE InTurn' /\ LifecycleStep
    BY <1>0, <1>4, StartInTurn DEF Claim, From, OfRequest, Start, tables
  <1>5. ASSUME NEW p \in Workers, NEW r \in Requests, CancelRequest(p, r) PROVE InTurn' /\ LifecycleStep
    BY <1>0, <1>5, StartInTurn DEF CancelRequest, From, OfRequest, Start, tables
  <1>6. ASSUME NEW p \in Workers, NEW t \in Transfers, Complete(p, t) \/ CancelTransfer(p, t)
        PROVE  InTurn' /\ LifecycleStep
    <2>1. step[p] = "idle" /\ subject[p] \notin Requests
      BY <1>6 DEF Complete, CancelTransfer, StartTransfer, InTurn
    <2>2. /\ UNCHANGED <<requests, subject, entity>> /\ disturbed \subseteq disturbed'
          /\ \A q \in Workers \ {p} : step'[q] = step[q] /\ handler'[q] = handler[q]
      BY <1>6 DEF Complete, CancelTransfer, StartTransfer, TypeOK, tables
    <2> QED
      BY <1>0, <2>1, <2>2 DEF InTurn, Relies
  <1>7. ASSUME NEW p \in Workers,
               CheckStock(p) \/ RemoveStock(p) \/ CreateFulfilment(p) \/ AddStock(p) \/ DiffTransfer(p)
        PROVE  InTurn' /\ LifecycleStep
    BY <1>0, <1>7, GotoInTurn
       DEF CheckStock, RemoveStock, CreateFulfilment, AddStock, DiffTransfer, tables, history, Steps
  <1>8. ASSUME NEW p \in Workers,
               \/ Reject(p) \/ Crash(p)
               \/ \E l, m \in Locations, q \in {Quantity[r] : r \in Requests} :
                      MoveStock(p, l, m, q) \/ MoveRejected(p, l, q)
        PROVE  InTurn' /\ LifecycleStep
    BY <1>0, <1>8, ReturnInTurn DEF Reject, Crash, MoveStock, MoveRejected, tables, history
  <1>9. ASSUME NEW p \in Workers, SaveTransfer(p) PROVE InTurn' /\ LifecycleStep
    <2>1. CASE handler[p] = "claim"
      BY <1>0, <1>9, <2>1, GotoInTurn DEF SaveTransfer, history, Steps
    <2>2. CASE handler[p] # "claim"
      BY <1>0, <1>9, <2>2, ReturnInTurn DEF SaveTransfer, history
    <2> QED
      BY <2>1, <2>2
  <1>10. ASSUME NEW p \in Workers, DiffRequest(p) PROVE InTurn' /\ LifecycleStep
    <2>1. /\ step[p] # "idle" /\ step'[p] = "saveRequest" /\ entity'[p] = Changed(p)
          /\ \A q \in Workers \ {p} : step'[q] = step[q] /\ entity'[q] = entity[q]
          /\ UNCHANGED <<requests, handler, subject, disturbed>>
      BY <1>10 DEF DiffRequest, Goto, TypeOK, tables, history
    <2>2. handler[p] \in OfRequest => Changed(p).status = To(handler[p])
      BY DEF OfRequest, Changed, To, TypeOK, RequestRow
    <2> QED
      BY <1>0, <2>1, <2>2 DEF InTurn, Relies
  <1>11. ASSUME NEW p \in Workers, SaveRequest(p) PROVE InTurn' /\ LifecycleStep
    <2>1. /\ subject[p] \in Requests /\ step[p] = "saveRequest" /\ Return(p) /\ disturbed' = disturbed
          /\ \A r \in Requests \ {subject[p]} : requests'[r] = requests[r]
      BY <1>11 DEF SaveRequest, TypeOK, history
    <2>2. requests'[subject[p]].status \in {requests[subject[p]].status, entity[p].status}
      BY <1>11, <2>1 DEF SaveRequest, Columns, TypeOK, RequestRow
    <2>3. subject[p] \notin disturbed =>
            Legal(requests[subject[p]].status, entity[p].status)
      BY <2>1 DEF InTurn, Relies, OfRequest, From, To, Legal
    <2>4. InTurn'
      BY <2>1, ReturnInTurn
    <2> QED
      BY <2>1, <2>2, <2>3, <2>4 DEF LifecycleStep
  <1>12. CASE UNCHANGED vars
    BY <1>0, <1>12 DEF vars, tables, worker, history, InTurn, Relies
  <1> QED
    BY <1>1, <1>2, <1>3, <1>4, <1>5, <1>6, <1>7, <1>8, <1>9, <1>10, <1>11, <1>12 DEF Next, Work

LEMMA InTurnInit == Init => InTurn
  BY NoneAssumption DEF Init, InTurn

\* A request that no two handlers, crash or general endpoint got mixed up with
\* goes Open, Accepted, Completed, or Open, Cancelled, and never back: each handler's
\* status check, made before its awaits, still holds when it saves.
THEOREM RequestsLive == Spec => LifecycleKept
  <1>1. TypeOK /\ InTurn /\ [Next]_vars => [LifecycleStep]_vars
    BY InTurnStep
  <1>2. LifecycleKept <=> [][LifecycleStep]_vars
    BY DEF LifecycleKept, LifecycleStep, Legal
  <1>3. TypeOK /\ InTurn /\ [Next]_vars => (TypeOK /\ InTurn)'
    BY TypeStep, InTurnStep
  <1>4. Spec => [][LifecycleStep]_vars
    BY <1>1, <1>3, TypeInit, InTurnInit, PTL DEF Spec
  <1> QED
    BY <1>2, <1>4
-----------------------------------------------------------------------------
(* Who a transfer belongs to.                                              *)

StepsOf(h) ==
    CASE h = "accept"         -> {"check", "remove", "create", "diffRequest", "saveRequest"}
      [] h = "claim"          -> {"add", "diffTransfer", "saveTransfer", "diffRequest", "saveRequest"}
      [] h = "cancelRequest"  -> {"diffRequest", "saveRequest"}
      [] h = "complete"       -> {"moveStock"}
      [] h = "cancelTransfer" -> {"diffTransfer", "saveTransfer"}
      [] OTHER                -> {"idle"}

\* A transfer that may stand in a row or in the memory of a handler of request r.
For(t, r) == t = None \/ madeFor[t] = r

\* Inductive: a handler is at one of its steps, a transfer made for a request is
\* behind no other, and a general endpoint at it has disturbed the request.
Owned ==
    /\ \A t \in Transfers : madeFor[t] # None => transfers[t] # "None"
    /\ \A r \in Requests : For(requests[r].transfer, r)
    /\ \A p \in Workers :
          /\ step[p] \in StepsOf(handler[p])
          /\ handler[p] \in OfRequest <=> subject[p] \in Requests
          /\ subject[p] \in Requests => For(transfer[p], subject[p]) /\ For(entity[p].transfer, subject[p])
          /\ handler[p] \in {"complete", "cancelTransfer"} =>
                transfers[transfer[p]] # "None" /\ madeFor[transfer[p]] \in disturbed \cup {None}


LEMMA OwnedReturn ==
    ASSUME TypeOK, Owned, NEW p \in Workers, Return(p), madeFor' = madeFor,
           disturbed \subseteq disturbed',
           \A t \in Transfers : transfers[t] # "None" => transfers'[t] # "None",
           \A r \in Requests : For(requests'[r].transfer, r)
    PROVE  Owned'
  <1>1. /\ step'[p] = "idle" /\ handler'[p] = "none" /\ subject'[p] \notin Requests
        /\ \A q \in Workers \ {p} :
              UNCHANGED <<step[q], handler[q], subject[q], transfer[q], entity[q]>>
    BY NoneAssumption DEF Return, TypeOK
  <1>2. "idle" \in StepsOf("none") /\ "none" \notin OfRequest
    BY DEF StepsOf, OfRequest
  <1>3. \A q \in Workers : handler[q] \in {"complete", "cancelTransfer"} => transfer[q] \in Transfers
    BY DEF Owned, TypeOK, StepsOf
  <1> QED
    BY <1>1, <1>2, <1>3 DEF Owned, For

LEMMA OwnedStart ==
    ASSUME TypeOK, Owned, NEW p \in Workers, NEW r \in Requests, NEW h \in OfRequest, NEW l, NEW first,
           first \in StepsOf(h), Start(p, h, r, l, first)
    PROVE  Owned'
  <1>1. /\ step'[p] = first /\ handler'[p] = h /\ subject'[p] = r
        /\ transfer'[p] = requests[r].transfer /\ entity'[p] = requests[r]
        /\ \A q \in Workers \ {p} :
              UNCHANGED <<step[q], handler[q], subject[q], transfer[q], entity[q]>>
        /\ UNCHANGED <<requests, transfers, madeFor>> /\ disturbed \subseteq disturbed'
    BY DEF Start, TypeOK, tables
  <1>2. h \notin {"complete", "cancelTransfer"}
    BY DEF OfRequest
  <1> QED
    BY <1>1, <1>2 DEF Owned, For

LEMMA OwnedStartTransfer ==
    ASSUME TypeOK, InTurn, Owned, NEW p \in Workers, NEW t \in Transfers, NEW h \in {"complete", "cancelTransfer"},
           NEW first, first \in StepsOf(h), StartTransfer(p, h, t, first)
    PROVE  Owned'
  <1>1. /\ step'[p] = first /\ handler'[p] = h /\ transfer'[p] = t /\ transfers[t] = "Pending"
        /\ \A q \in Workers \ {p} :
              UNCHANGED <<step[q], handler[q], subject[q], transfer[q], entity[q]>>
        /\ UNCHANGED <<requests, transfers, madeFor, subject>> /\ disturbed \subseteq disturbed'
        /\ subject[p] \notin Requests
        /\ madeFor[t] \in disturbed' \cup {None}
    BY DEF StartTransfer, TypeOK, tables, InTurn
  <1>2. h \notin OfRequest
    BY DEF OfRequest
  <1> QED
    BY <1>1, <1>2 DEF Owned, For

\* A handler goes on to its next step.
LEMMA OwnedGoto ==
    ASSUME TypeOK, Owned, NEW p \in Workers, NEW s, s \in StepsOf(handler[p]), Goto(p, s),
           UNCHANGED <<requests, handler, subject, transfer, madeFor, disturbed>>,
           \A t \in Transfers : transfers[t] # "None" => transfers'[t] # "None",
           \A q \in Workers : entity'[q].transfer \in {entity[q].transfer, transfer[q]}
    PROVE  Owned'
  <1>1. step'[p] = s /\ \A q \in Workers \ {p} : step'[q] = step[q]
    BY DEF Goto, TypeOK
  <1>2. \A q \in Workers : handler[q] \in {"complete", "cancelTransfer"} => transfer[q] \in Transfers
    BY DEF Owned, TypeOK, StepsOf
  <1> QED
    BY <1>1, <1>2 DEF Owned, For

LEMMA OwnedStep == TypeOK /\ InTurn /\ Owned /\ [Next]_vars => Owned'
  <1> SUFFICES ASSUME TypeOK, InTurn, Owned, [Next]_vars PROVE Owned'
    OBVIOUS
  <1>0. /\ \A p \in Workers : step[p] \in StepsOf(handler[p])
        /\ \A r \in Requests : For(requests[r].transfer, r)
    BY DEF Owned
  <1>1. ASSUME NEW r \in Requests, Raise(r) PROVE Owned'
    <2>1. \A o \in Requests : requests'[o].transfer = requests[o].transfer
      BY <1>1 DEF Raise, TypeOK, RequestRow
    <2> QED
      BY <1>1, <2>1 DEF Raise, Owned, For, worker, history
  <1>2. ASSUME NEW t \in Transfers, CreateTransfer(t) PROVE Owned'
    <2>1. \A u \in Transfers : transfers[u] # "None" => transfers'[u] = transfers[u]
      BY <1>2 DEF CreateTransfer, TypeOK
    <2>2. \A q \in Workers : handler[q] \in {"complete", "cancelTransfer"} => transfer[q] \in Transfers
      BY DEF Owned, TypeOK, StepsOf
    <2> QED
      BY <1>2, <2>1, <2>2 DEF CreateTransfer, Owned, For, worker, history
  <1>3. ASSUME NEW p \in Workers, NEW r \in Requests,
               (\E l \in Locations : Accept(p, r, l)) \/ Claim(p, r) \/ CancelRequest(p, r)
        PROVE  Owned'
    BY <1>3, OwnedStart DEF Accept, Claim, CancelRequest, OfRequest, StepsOf
  <1>4. ASSUME NEW p \in Workers, NEW t \in Transfers, Complete(p, t) \/ CancelTransfer(p, t) PROVE Owned'
    BY <1>4, OwnedStartTransfer DEF Complete, CancelTransfer, StepsOf
  <1>5. ASSUME NEW p \in Workers, CheckStock(p) PROVE Owned'
    <2>1. "remove" \in StepsOf(handler[p])
      BY <1>0, <1>5 DEF CheckStock, StepsOf
    <2> QED
      BY <1>5, <2>1, OwnedGoto DEF CheckStock, tables, history
  <1>6. ASSUME NEW p \in Workers, RemoveStock(p) PROVE Owned'
    <2>1. "create" \in StepsOf(handler[p])
      BY <1>0, <1>6 DEF RemoveStock, StepsOf
    <2> QED
      BY <1>6, <2>1, OwnedGoto DEF RemoveStock
  <1>7. ASSUME NEW p \in Workers, CreateFulfilment(p) PROVE Owned'
    <2>1. PICK t \in Transfers :
            /\ transfers[t] = "None"
            /\ transfers' = [transfers EXCEPT ![t] = "Pending"]
            /\ madeFor' = [madeFor EXCEPT ![t] = subject[p]]
            /\ transfer' = [transfer EXCEPT ![p] = t]
      BY <1>7 DEF CreateFulfilment
    <2>2. /\ step[p] = "create" /\ step'[p] = "diffRequest" /\ subject[p] \in Requests
          /\ \A q \in Workers \ {p} : step'[q] = step[q] /\ transfer'[q] = transfer[q]
          /\ transfer'[p] = t /\ madeFor[t] = None
          /\ \A u \in Transfers \ {t} : madeFor'[u] = madeFor[u] /\ transfers'[u] = transfers[u]
          /\ madeFor'[t] = subject[p] /\ transfers'[t] = "Pending"
          /\ UNCHANGED <<requests, handler, subject, entity, disturbed>>
      BY <1>7, <2>1 DEF CreateFulfilment, Goto, TypeOK, Owned
    <2>3. "diffRequest" \in StepsOf(handler[p]) /\ handler[p] = "accept"
      BY <1>0, <2>2 DEF StepsOf
    <2>4. \A u \in Transfers \cup {None}, r \in Requests : For(u, r) => For(u, r)'
      BY <2>2, NoneAssumption DEF For
    <2>5. /\ \A q \in Workers : transfer[q] \in Transfers \cup {None} /\ entity[q].transfer \in Transfers \cup {None}
          /\ \A r \in Requests : requests[r].transfer \in Transfers \cup {None}
      BY DEF TypeOK, RequestRow
    <2>6. \A q \in Workers : handler[q] \in {"complete", "cancelTransfer"} =>
              transfer[q] \in Transfers \ {t} /\ q # p
      BY <2>2, <2>1, <2>3 DEF Owned, TypeOK, StepsOf
    <2>7. \A u \in Transfers : madeFor'[u] # None => transfers'[u] # "None"
      BY <2>2 DEF Owned
    <2>8. \A r \in Requests : For(requests[r].transfer, r)'
      BY <1>0, <2>2, <2>4, <2>5
    <2>9. For(transfer[p], subject[p])'
      BY <2>2 DEF For
    <2>10. \A q \in Workers : subject[q] \in Requests =>
              For(transfer[q], subject[q])' /\ For(entity[q].transfer, subject[q])'
      BY <2>2, <2>4, <2>5, <2>9 DEF Owned
    <2>11. \A q \in Workers : handler'[q] \in {"complete", "cancelTransfer"} =>
              transfers'[transfer'[q]] # "None" /\ madeFor'[transfer'[q]] \in disturbed' \cup {None}
      BY <2>2, <2>6 DEF Owned
    <2>12. \A q \in Workers : step'[q] \in StepsOf(handler'[q])
      BY <1>0, <2>2, <2>3
    <2> QED
      BY <2>2, <2>7, <2>8, <2>10, <2>11, <2>12 DEF Owned
  <1>8. ASSUME NEW p \in Workers, AddStock(p) PROVE Owned'
    <2>1. {"diffRequest", "diffTransfer"} \subseteq StepsOf(handler[p])
      BY <1>0, <1>8 DEF AddStock, StepsOf
    <2> QED
      BY <1>8, <2>1, OwnedGoto DEF AddStock
  <1>9. ASSUME NEW p \in Workers,
               \/ Reject(p) \/ Crash(p)
               \/ \E l, m \in Locations, q \in {Quantity[r] : r \in Requests} :
                      MoveStock(p, l, m, q) \/ MoveRejected(p, l, q)
        PROVE  Owned'
    <2>1. \A t \in Transfers : transfers[t] # "None" => transfers'[t] # "None"
      BY <1>9 DEF Reject, Crash, MoveStock, MoveRejected, tables, TypeOK
    <2>2. Return(p) /\ madeFor' = madeFor /\ disturbed \subseteq disturbed' /\ requests' = requests
      BY <1>9 DEF Reject, Crash, MoveStock, MoveRejected, tables, history
    <2> QED
      BY <1>0, <2>1, <2>2, OwnedReturn
  <1>10. ASSUME NEW p \in Workers, DiffTransfer(p) PROVE Owned'
    <2>1. "saveTransfer" \in StepsOf(handler[p])
      BY <1>0, <1>10 DEF DiffTransfer, StepsOf
    <2> QED
      BY <1>10, <2>1, OwnedGoto DEF DiffTransfer, tables, history
  <1>11. ASSUME NEW p \in Workers, SaveTransfer(p) PROVE Owned'
    <2>1. \A t \in Transfers : transfers[t] # "None" => transfers'[t] # "None"
      BY <1>11 DEF SaveTransfer, TypeOK, TransferTarget
    <2>2. CASE handler[p] = "claim"
      <3>1. "diffRequest" \in StepsOf(handler[p])
        BY <2>2 DEF StepsOf
      <3> QED
        BY <1>11, <2>1, <2>2, <3>1, OwnedGoto DEF SaveTransfer, history
    <2>3. CASE handler[p] # "claim"
      BY <1>0, <1>11, <2>1, <2>3, OwnedReturn DEF SaveTransfer, history
    <2> QED
      BY <2>2, <2>3
  <1>12. ASSUME NEW p \in Workers, DiffRequest(p) PROVE Owned'
    <2>1. "saveRequest" \in StepsOf(handler[p]) /\ handler[p] \in OfRequest
      BY <1>0, <1>12 DEF DiffRequest, StepsOf, OfRequest
    <2>2. Changed(p).transfer \in {entity[p].transfer, transfer[p]}
      BY DEF Changed, TypeOK, RequestRow
    <2>3. \A q \in Workers : entity'[q].transfer \in {entity[q].transfer, transfer[q]}
      BY <1>12, <2>2 DEF DiffRequest, TypeOK
    <2> QED
      BY <1>12, <2>1, <2>3, OwnedGoto DEF DiffRequest, tables, history
  <1>13. ASSUME NEW p \in Workers, SaveRequest(p) PROVE Owned'
    <2>1. subject[p] \in Requests
      BY <1>13 DEF SaveRequest, TypeOK
    <2>2. /\ \A r \in Requests \ {subject[p]} : requests'[r] = requests[r]
          /\ requests'[subject[p]].transfer \in {requests[subject[p]].transfer, entity[p].transfer}
      BY <1>13, <2>1 DEF SaveRequest, Columns, TypeOK, RequestRow
    <2>3. \A r \in Requests : For(requests'[r].transfer, r)
      BY <1>0, <2>1, <2>2 DEF Owned
    <2> QED
      BY <1>13, <2>3, OwnedReturn DEF SaveRequest, history
  <1>14. CASE UNCHANGED vars
    BY <1>14 DEF vars, tables, worker, history, Owned, For
  <1> QED
    BY <1>1, <1>2, <1>3, <1>4, <1>5, <1>6, <1>7, <1>8, <1>9, <1>10, <1>11, <1>12, <1>13, <1>14 DEF Next, Work

LEMMA OwnedInit == Init => Owned
  BY NoneAssumption DEF Init, Owned, For, NoRow, StepsOf, OfRequest

-----------------------------------------------------------------------------
(* Where the stock of a request is.  The handler that is alone with it has *)
(* done what its step says, and a request at rest is what its status says. *)

\* Times that a request's quantity has left a store and not arrived.
Underway(r) == debited[r] - credited[r]

Behind(t, s) == t \in Transfers /\ transfers[t] = s

\* What holds of an undisturbed request that no handler is at.
Rest(r) ==
    LET s == requests[r].status IN
    /\ Underway(r) = IF s = "Accepted" THEN 1 ELSE 0
    /\ s = "Accepted" => Behind(requests[r].transfer, "Pending")
    /\ s = "Completed" => Behind(requests[r].transfer, "Completed")

\* And what its only handler p has done about it so far.
Midway(p) ==
    LET r == subject[p]
        t == transfer[p]
    IN
    /\ Underway(r) = CASE step[p] = "create" \/ step[p] = "add" -> 1
                       [] step[p] \in {"diffRequest", "saveRequest"} /\ handler[p] = "accept" -> 1
                       [] OTHER -> 0
    /\ handler[p] = "accept" /\ step[p] \in {"diffRequest", "saveRequest"} => Behind(t, "Pending")
    /\ handler[p] = "claim" =>
          /\ t = requests[r].transfer /\ entity[p].transfer = t
          /\ Behind(t, IF step[p] \in {"diffRequest", "saveRequest"} THEN "Completed" ELSE "Pending")
    /\ step[p] = "saveTransfer" => dirty[p] # {}
    /\ step[p] = "saveRequest" =>
          /\ handler[p] = "accept" => entity[p].transfer = t
          /\ \A c \in Columns \ dirty[p] : entity[p][c] = requests[r][c]

\* Inductive, with Owned and InTurn.
Books ==
    /\ \A r \in Requests \ disturbed : (\A p \in Workers : subject[p] # r) => Rest(r)
    /\ \A p \in Workers : subject[p] \in Requests \ disturbed => Midway(p)


\* A step of handler p at request o, or at none, leaves the others alone.
Elsewhere(p, o) ==
    /\ \A q \in Workers \ {p} :
          UNCHANGED <<step[q], handler[q], subject[q], transfer[q], entity[q], dirty[q]>>
    /\ p \in Workers => /\ subject[p] \in Requests => subject[p] = o
                        /\ subject'[p] \in Requests => subject'[p] = o
    /\ disturbed \subseteq disturbed'
    /\ \A r \in Requests \ {o} : UNCHANGED <<requests[r], debited[r], credited[r]>>
    /\ \A t \in Transfers :
          transfers[t] # "None" /\ madeFor[t] \in Requests \ (disturbed' \cup {o})
              => transfers'[t] = transfers[t]

LEMMA BooksKept ==
    ASSUME TypeOK, Owned, Books, NEW p, NEW o, Elsewhere(p, o),
           o \in Requests \ disturbed' =>
               /\ \A q \in Workers : subject'[q] = o => Midway(q)'
               /\ (\A q \in Workers : subject'[q] # o) => Rest(o)'
    PROVE  Books'
  <1>1. ASSUME NEW r \in Requests \ (disturbed' \cup {o}), NEW t, For(t, r), NEW s \in {"Pending", "Completed"},
               Behind(t, s)
        PROVE  Behind(t, s)'
    BY <1>1, NoneAssumption DEF For, Behind, Elsewhere
  <1>2. ASSUME NEW r \in Requests \ (disturbed' \cup {o}), \A q \in Workers : subject'[q] # r
        PROVE  Rest(r)'
    <2>1. \A q \in Workers : subject[q] # r
      BY <1>2 DEF Elsewhere
    <2>2. Rest(r) /\ For(requests[r].transfer, r) /\ Underway(r)' = Underway(r) /\ requests'[r] = requests[r]
      BY <2>1 DEF Books, Owned, Elsewhere, Underway
    <2>3. \A s \in {"Pending", "Completed"} :
              Behind(requests[r].transfer, s) => Behind(requests[r].transfer, s)'
      <3>1. PICK t : t = requests[r].transfer
        OBVIOUS
      <3> QED
        BY <1>1, <2>2, <3>1 DEF Behind
    <2> QED
      BY <2>2, <2>3 DEF Rest
  <1>3. ASSUME NEW q \in Workers, subject'[q] \in Requests \ (disturbed' \cup {o})
        PROVE  Midway(q)'
    <2>1. /\ q # p /\ subject'[q] = subject[q] /\ subject[q] \notin disturbed
          /\ UNCHANGED <<step[q], handler[q], transfer[q], entity[q], dirty[q]>>
      BY <1>3 DEF Elsewhere
    <2>2. /\ Midway(q) /\ For(transfer[q], subject[q]) /\ Underway(subject[q])' = Underway(subject[q])
          /\ requests'[subject[q]] = requests[subject[q]]
      BY <1>3, <2>1 DEF Books, Owned, Elsewhere, Underway
    <2>3. \A s \in {"Pending", "Completed"} : Behind(transfer[q], s) => Behind(transfer[q], s)'
      <3>1. PICK t : t = transfer[q]
        OBVIOUS
      <3> QED
        BY <1>1, <1>3, <2>1, <2>2, <3>1 DEF Behind
    <2> QED
      BY <2>1, <2>2, <2>3 DEF Midway
  <1> QED
    BY <1>2, <1>3 DEF Books

\* What a handler of an undisturbed request knows.
LEMMA Alone ==
    ASSUME TypeOK, InTurn, Owned, Books, NEW p \in Workers, subject[p] \in Requests \ disturbed
    PROVE  /\ Midway(p) /\ handler[p] \in OfRequest /\ step[p] \in StepsOf(handler[p])
           /\ requests[subject[p]].status = From(handler[p])
           /\ \A q \in Workers : subject[q] = subject[p] => q = p
  BY DEF InTurn, Relies, Owned, Books

\* The handler of a request returns.
LEMMA BooksReturn ==
    ASSUME TypeOK, InTurn, Owned, Books, NEW p \in Workers, NEW o, o = subject[p], Return(p),
           disturbed \subseteq disturbed', UNCHANGED <<debited, credited>>,
           \A r \in Requests \ {o} : requests'[r] = requests[r],
           \A t \in Transfers :
               transfers[t] # "None" /\ madeFor[t] \in Requests \ (disturbed' \cup {o})
                  => transfers'[t] = transfers[t],
           o \in Requests \ disturbed' => Rest(o)'
    PROVE  Books'
  <1>1. /\ subject'[p] = None
        /\ \A q \in Workers \ {p} :
              UNCHANGED <<step[q], handler[q], subject[q], transfer[q], entity[q], dirty[q]>>
    BY DEF Return, TypeOK
  <1>2. Elsewhere(p, o)
    BY <1>1, NoneAssumption DEF Elsewhere
  <1>3. o \in Requests \ disturbed' => \A q \in Workers : subject'[q] # o
    BY <1>1, Alone, NoneAssumption
  <1> QED
    BY <1>2, <1>3, BooksKept

\* The handler of a request starts.
LEMMA BooksStart ==
    ASSUME TypeOK, InTurn, Owned, Books, NEW p \in Workers, NEW r \in Requests,
           NEW h \in OfRequest, NEW l, NEW first, Start(p, h, r, l, first),
           requests[r].status = From(h),
           first = CASE h = "accept" -> "check" [] h = "claim" -> "add" [] OTHER -> "diffRequest"
    PROVE  Books'
  <1>1. /\ subject'[p] = r /\ handler'[p] = h /\ step'[p] = first /\ step[p] = "idle"
        /\ transfer'[p] = requests[r].transfer /\ entity'[p] = requests[r]
        /\ \A q \in Workers \ {p} :
              UNCHANGED <<step[q], handler[q], subject[q], transfer[q], entity[q], dirty[q]>>
        /\ UNCHANGED <<requests, transfers, debited, credited>> /\ disturbed \subseteq disturbed'
    BY DEF Start, TypeOK, tables
  <1>2. Elsewhere(p, r)
    BY <1>1 DEF Elsewhere, InTurn
  <1>3. ASSUME r \notin disturbed' PROVE \A q \in Workers : subject[q] # r
    BY <1>3 DEF Start, Busy
  <1>4. ASSUME r \notin disturbed' PROVE Midway(p)'
    <2>1. Rest(r)
      BY <1>1, <1>3, <1>4 DEF Books
    <2> QED
      BY <1>1, <2>1 DEF Rest, Midway, Underway, Behind, From, OfRequest
  <1> QED
    BY <1>1, <1>2, <1>3, <1>4, BooksKept

\* A handler goes on to its next step.
LEMMA BooksGoto ==
    ASSUME TypeOK, InTurn, Owned, Books, NEW p \in Workers, NEW s, Goto(p, s),
           UNCHANGED <<requests, handler, subject, disturbed>>,
           \A q \in Workers \ {p} : UNCHANGED <<transfer[q], entity[q], dirty[q]>>,
           \A r \in Requests : r # subject[p] => UNCHANGED <<debited[r], credited[r]>>,
           \A t \in Transfers :
               transfers[t] # "None" /\ madeFor[t] \in Requests \ (disturbed \cup {subject[p]})
                  => transfers'[t] = transfers[t],
           subject[p] \in Requests \ disturbed => Midway(p)'
    PROVE  Books'
  <1> DEFINE o == subject[p]
  <1>1. \A q \in Workers \ {p} : step'[q] = step[q]
    BY DEF Goto, TypeOK
  <1>2. Elsewhere(p, o)
    BY <1>1 DEF Elsewhere
  <1>3. o \in Requests \ disturbed' => \A q \in Workers : subject'[q] = o => Midway(q)'
    BY Alone
  <1>4. subject'[p] = o
    OBVIOUS
  <1>5. PICK r : r = o
    OBVIOUS
  <1> HIDE DEF o
  <1> QED
    BY <1>2, <1>3, <1>4, <1>5, BooksKept

LEMMA BooksStep == TypeOK /\ InTurn /\ Owned /\ Books /\ [Next]_vars => Books'
  <1> SUFFICES ASSUME TypeOK, InTurn, Owned, Books, [Next]_vars PROVE Books'
    OBVIOUS
  <1>1. ASSUME NEW r \in Requests, Raise(r) PROVE Books'
    <2>1. /\ requests[r].status = "None" /\ requests'[r].status = "Open"
          /\ \A o \in Requests \ {r} : requests'[o] = requests[o]
          /\ UNCHANGED <<transfers, debited, credited, disturbed, subject, step, handler, transfer, entity, dirty>>
      BY <1>1 DEF Raise, TypeOK, RequestRow, worker, history
    <2>2. Elsewhere(None, r)
      BY <2>1, NoneAssumption DEF Elsewhere
    <2>3. r \notin disturbed => \A q \in Workers : subject[q] # r
      BY <2>1, Alone DEF From
    <2>4. r \notin disturbed => Rest(r)'
      BY <2>1, <2>3 DEF Books, Rest, Underway
    <2> QED
      BY <2>1, <2>2, <2>3, <2>4, BooksKept
  <1>2. ASSUME NEW t \in Transfers, CreateTransfer(t) PROVE Books'
    <2>1. Elsewhere(None, None)
      BY <1>2, NoneAssumption DEF CreateTransfer, Elsewhere, TypeOK, worker, history
    <2> QED
      BY <2>1, NoneAssumption, BooksKept
  <1>3. ASSUME NEW p \in Workers, NEW r \in Requests,
               (\E l \in Locations : Accept(p, r, l)) \/ Claim(p, r) \/ CancelRequest(p, r)
        PROVE  Books'
    BY <1>3, BooksStart DEF Accept, Claim, CancelRequest, OfRequest, From
  <1>4. ASSUME NEW p \in Workers, NEW t \in Transfers, Complete(p, t) \/ CancelTransfer(p, t) PROVE Books'
    <2>1. /\ UNCHANGED <<requests, transfers, debited, credited, subject>> /\ disturbed \subseteq disturbed'
          /\ subject[p] \notin Requests
          /\ \A q \in Workers \ {p} :
                UNCHANGED <<step[q], handler[q], transfer[q], entity[q], dirty[q]>>
      BY <1>4 DEF Complete, CancelTransfer, StartTransfer, TypeOK, tables, InTurn
    <2>2. Elsewhere(p, None)
      BY <2>1 DEF Elsewhere
    <2> QED
      BY <2>2, NoneAssumption, BooksKept
  <1>5. ASSUME NEW p \in Workers, CheckStock(p) \/ RemoveStock(p) PROVE Books'
    <2>1. /\ step[p] \in {"check", "remove"} /\ subject[p] \in Requests
          /\ Goto(p, IF step[p] = "check" THEN "remove" ELSE "create")
          /\ step'[p] = IF step[p] = "check" THEN "remove" ELSE "create"
          /\ UNCHANGED <<requests, transfers, handler, subject, transfer, entity, dirty, credited, disturbed>>
          /\ debited' = IF step[p] = "check" THEN debited ELSE [debited EXCEPT ![subject[p]] = @ + 1]
      BY <1>5 DEF CheckStock, RemoveStock, Goto, TypeOK, tables, history
    <2>2. subject[p] \in Requests \ disturbed => Midway(p)'
      BY <2>1, Alone DEF Midway, Underway, StepsOf, OfRequest, TypeOK
    <2> QED
      BY <2>1, <2>2, BooksGoto
  <1>6. ASSUME NEW p \in Workers, CreateFulfilment(p) PROVE Books'
    <2>1. PICK t \in Transfers :
            /\ transfers[t] = "None"
            /\ transfers' = [transfers EXCEPT ![t] = "Pending"]
            /\ transfer' = [transfer EXCEPT ![p] = t]
      BY <1>6 DEF CreateFulfilment
    <2>2. /\ step[p] = "create" /\ step'[p] = "diffRequest" /\ Goto(p, "diffRequest") /\ subject[p] \in Requests
          /\ \A q \in Workers \ {p} : transfer'[q] = transfer[q]
          /\ transfer'[p] = t
          /\ \A u \in Transfers \ {t} : transfers'[u] = transfers[u]
          /\ transfers'[t] = "Pending"
          /\ UNCHANGED <<requests, handler, subject, entity, dirty, debited, credited, disturbed>>
      BY <1>6, <2>1 DEF CreateFulfilment, Goto, TypeOK
    <2>3. subject[p] \in Requests \ disturbed => Midway(p)'
      BY <2>2, Alone DEF Midway, Underway, Behind, StepsOf, OfRequest
    <2> QED
      BY <2>1, <2>2, <2>3, BooksGoto
  <1>7. ASSUME NEW p \in Workers, AddStock(p) PROVE Books'
    <2> DEFINE s == IF transfer[p] = None THEN "diffRequest" ELSE "diffTransfer"
    <2>1. /\ step[p] = "add" /\ subject[p] \in Requests /\ Goto(p, s) /\ step'[p] = s
          /\ UNCHANGED <<requests, transfers, handler, subject, transfer, entity, dirty, debited, disturbed>>
          /\ credited' = [credited EXCEPT ![subject[p]] = @ + 1]
      BY <1>7 DEF AddStock, Goto, TypeOK
    <2>2. subject[p] \in Requests \ disturbed => Midway(p)'
      BY <2>1, Alone, NoneAssumption DEF Midway, Underway, Behind, StepsOf, OfRequest, TypeOK
    <2> QED
      BY <2>1, <2>2, BooksGoto
  <1>8. ASSUME NEW p \in Workers, Reject(p) PROVE Books'
    <2>1. /\ step[p] \in {"check", "remove"} /\ subject[p] \in Requests /\ Return(p)
          /\ UNCHANGED <<requests, transfers, debited, credited, disturbed>>
      BY <1>8 DEF Reject, TypeOK, tables, history
    <2>2. PICK o : o = subject[p]
      OBVIOUS
    <2>3. o \notin disturbed => requests[o].status = "Open" /\ Underway(o) = 0
      BY <2>1, <2>2, Alone DEF Midway, StepsOf, OfRequest, From
    <2>4. o \in Requests \ disturbed' => Rest(o)'
      BY <2>1, <2>3 DEF Rest, Underway
    <2> QED
      BY <2>1, <2>2, <2>4, BooksReturn
  <1>9. ASSUME NEW p \in Workers, Crash(p) PROVE Books'
    <2>1. PICK o : o = subject[p]
      OBVIOUS
    <2>2. /\ Return(p) /\ disturbed' = disturbed \cup ({o} \cap Requests)
          /\ UNCHANGED <<requests, transfers, debited, credited>>
      BY <1>9, <2>1 DEF Crash, tables
    <2>3. o \notin Requests \ disturbed'
      BY <2>2
    <2> QED
      BY <2>1, <2>2, <2>3, BooksReturn
  <1>10. ASSUME NEW p \in Workers, NEW l \in Locations, NEW m \in Locations, NEW k \in {Quantity[r] : r \in Requests},
                MoveStock(p, l, m, k) \/ MoveRejected(p, l, k)
         PROVE  Books'
    <2>1. /\ step[p] = "moveStock" /\ Return(p)
          /\ UNCHANGED <<requests, debited, credited, disturbed>>
          /\ \A t \in Transfers \ {transfer[p]} : transfers'[t] = transfers[t]
      BY <1>10 DEF MoveStock, MoveRejected, tables, history, TypeOK
    <2>2. /\ handler[p] = "complete" /\ subject[p] \notin Requests
          /\ madeFor[transfer[p]] \in disturbed \cup {None}
      BY <2>1 DEF Owned, StepsOf, OfRequest
    <2>3. PICK o : o = subject[p]
      OBVIOUS
    <2> QED
      BY <2>1, <2>2, <2>3, NoneAssumption, BooksReturn
  <1>11. ASSUME NEW p \in Workers, DiffTransfer(p) PROVE Books'
    <2>1. /\ step[p] = "diffTransfer" /\ step'[p] = "saveTransfer" /\ Goto(p, "saveTransfer")
          /\ UNCHANGED <<requests, transfers, handler, subject, transfer, entity, debited, credited, disturbed>>
          /\ \A q \in Workers \ {p} : dirty'[q] = dirty[q]
          /\ dirty'[p] = IF transfers[transfer[p]] = TransferTarget(p) THEN {} ELSE {"status"}
      BY <1>11 DEF DiffTransfer, Goto, TypeOK, tables, history
    <2>2. subject[p] \in Requests \ disturbed => Midway(p)'
      BY <2>1, Alone DEF Midway, Underway, Behind, StepsOf, OfRequest, TransferTarget
    <2> QED
      BY <2>1, <2>2, BooksGoto
  <1>12. ASSUME NEW p \in Workers, SaveTransfer(p) PROVE Books'
    <2>1. /\ step[p] = "saveTransfer" /\ transfer[p] \in Transfers
          /\ UNCHANGED <<requests, debited, credited, disturbed>>
          /\ \A t \in Transfers \ {transfer[p]} : transfers'[t] = transfers[t]
          /\ dirty[p] # {} => transfers'[transfer[p]] = TransferTarget(p)
      BY <1>12 DEF SaveTransfer, TypeOK, history
    <2>2. /\ subject[p] \in Requests => madeFor[transfer[p]] = subject[p]
          /\ handler[p] \in {"claim", "cancelTransfer"}
          /\ handler[p] = "claim" <=> subject[p] \in Requests
          /\ subject[p] \notin Requests => madeFor[transfer[p]] \in disturbed \cup {None}
      BY <2>1, NoneAssumption DEF Owned, For, StepsOf, OfRequest
    <2>3. CASE handler[p] = "claim"
      <3>1. /\ Goto(p, "diffRequest") /\ step'[p] = "diffRequest"
            /\ UNCHANGED <<handler, subject, transfer, entity, dirty>>
        BY <1>12, <2>3 DEF SaveTransfer, Goto, TypeOK
      <3>2. subject[p] \in Requests \ disturbed => Midway(p)'
        BY <2>1, <2>3, <3>1, Alone DEF Midway, Underway, Behind, TransferTarget
      <3> QED
        BY <2>1, <2>2, <2>3, <3>1, <3>2, BooksGoto
    <2>4. CASE handler[p] # "claim"
      <3>1. Return(p)
        BY <1>12, <2>4 DEF SaveTransfer
      <3>2. PICK o : o = subject[p]
        OBVIOUS
      <3> QED
        BY <2>1, <2>2, <2>4, <3>1, <3>2, NoneAssumption, BooksReturn
    <2> QED
      BY <2>3, <2>4
  <1>13. ASSUME NEW p \in Workers, DiffRequest(p) PROVE Books'
    <2>1. /\ step[p] = "diffRequest" /\ step'[p] = "saveRequest" /\ Goto(p, "saveRequest")
          /\ subject[p] \in Requests
          /\ UNCHANGED <<requests, transfers, handler, subject, transfer, debited, credited, disturbed>>
          /\ \A q \in Workers \ {p} : dirty'[q] = dirty[q] /\ entity'[q] = entity[q]
          /\ entity'[p] = Changed(p)
          /\ dirty'[p] = {c \in Columns : Changed(p)[c] # requests[subject[p]][c]}
      BY <1>13 DEF DiffRequest, Goto, TypeOK, tables, history
    <2>2. /\ handler[p] = "accept" => Changed(p).transfer = transfer[p]
          /\ handler[p] = "claim" => Changed(p).transfer = entity[p].transfer
      BY DEF Changed, TypeOK, RequestRow
    <2>3. subject[p] \in Requests \ disturbed => Midway(p)'
      BY <2>1, <2>2, Alone DEF Midway, Underway, Behind, StepsOf, OfRequest
    <2> QED
      BY <2>1, <2>3, BooksGoto
  <1>14. ASSUME NEW p \in Workers, SaveRequest(p) PROVE Books'
    <2>1. PICK o : o = subject[p]
      OBVIOUS
    <2>2. /\ step[p] = "saveRequest" /\ o \in Requests /\ Return(p)
          /\ UNCHANGED <<transfers, debited, credited, disturbed>>
          /\ \A r \in Requests \ {o} : requests'[r] = requests[r]
          /\ requests'[o] = [c \in Columns |-> IF c \in dirty[p] THEN entity[p][c] ELSE requests[o][c]]
      BY <1>14, <2>1 DEF SaveRequest, TypeOK, history
    <2>3. ASSUME o \notin disturbed PROVE Rest(o)'
      <3>1. /\ Midway(p) /\ handler[p] \in OfRequest /\ Relies(p)
        BY <2>1, <2>2, <2>3, Alone DEF InTurn
      <3>2. requests'[o].status = entity[p].status /\ requests'[o].transfer = entity[p].transfer
        BY <2>1, <2>2, <3>1 DEF Midway, Columns
      <3>3. entity[p].status = To(handler[p])
        BY <2>2, <3>1 DEF Relies
      <3> QED
        BY <2>1, <2>2, <3>1, <3>2, <3>3 DEF Midway, Rest, Underway, Behind, OfRequest, To
    <2> QED
      BY <2>1, <2>2, <2>3, BooksReturn
  <1>15. CASE UNCHANGED vars
    <2>1. Elsewhere(None, None)
      BY <1>15, NoneAssumption DEF vars, tables, worker, history, Elsewhere
    <2> QED
      BY <2>1, NoneAssumption, BooksKept
  <1> QED
    BY <1>1, <1>2, <1>3, <1>4, <1>5, <1>6, <1>7, <1>8, <1>9, <1>10, <1>11, <1>12, <1>13, <1>14, <1>15 DEF Next, Work

LEMMA BooksInit == Init => Books
  BY NoneAssumption DEF Init, Books, Rest, Underway, NoRow

-----------------------------------------------------------------------------
(* Sums over a finite set.  What SumOver computes is a function on the     *)
(* subsets, defined by recursion; that it exists, and that it does not     *)
(* depend on the order of the elements, is by induction on subsets, in the *)
(* form "of the subsets that are bad, take a least one".                   *)

LEMMA LeastSubset ==
    ASSUME NEW S, IsFiniteSet(S), NEW Bad \in SUBSET SUBSET S, Bad # {}
    PROVE  \E T \in Bad : \A U \in SUBSET T : U # T => U \notin Bad
  <1>1. IsWellFoundedOn(StrictSubsetOrdering(S), FiniteSubsetsOf(S))
    BY FS_StrictSubsetOrderingWellFounded
  <1>2. Bad \subseteq FiniteSubsetsOf(S)
    BY FS_FiniteSubsetsOfFinite
  <1>3. \E T \in Bad : \A U \in Bad : ~(<<U, T>> \in StrictSubsetOrdering(S))
    BY <1>1, <1>2, WFMin
  <1> QED
    BY <1>3 DEF StrictSubsetOrdering

Pick(s) == CHOOSE x \in s : TRUE

Unfolds(g, f, S) ==
    g = [s \in SUBSET S |-> IF s = {} THEN 0 ELSE f[Pick(s)] + g[s \ {Pick(s)}]]

\* Only the values on the set count.
LEMMA SumUnique ==
    ASSUME NEW S, IsFiniteSet(S), NEW T, NEW f, NEW e, NEW g, NEW h,
           Unfolds(g, f, S), Unfolds(h, e, T),
           NEW U, U \subseteq S, U \subseteq T, \A x \in U : f[x] = e[x]
    PROVE  g[U] = h[U]
  <1> DEFINE Bad == {s \in SUBSET U : g[s] # h[s]}
  <1> SUFFICES ASSUME Bad # {} PROVE FALSE
    OBVIOUS
  <1>1. PICK s \in Bad : \A r \in SUBSET s : r # s => r \notin Bad
    <2>1. IsFiniteSet(U) /\ Bad \in SUBSET SUBSET U
      BY FS_Subset
    <2> HIDE DEF Bad
    <2> QED
      BY <2>1, LeastSubset
  <1>2. /\ g[s] = IF s = {} THEN 0 ELSE f[Pick(s)] + g[s \ {Pick(s)}]
        /\ h[s] = IF s = {} THEN 0 ELSE e[Pick(s)] + h[s \ {Pick(s)}]
    BY <1>1 DEF Unfolds
  <1>3. s # {} => Pick(s) \in s
    BY DEF Pick
  <1> QED
    BY <1>1, <1>2, <1>3

LEMMA SumUnfolds ==
    ASSUME NEW S, IsFiniteSet(S), NEW f
    PROVE  Unfolds(CHOOSE g : Unfolds(g, f, S), f, S)
  <1> DEFINE G(s) == CHOOSE g : Unfolds(g, f, s)
             V(s) == G(s)[s]
             Bad == {s \in SUBSET S : ~Unfolds(G(s), f, s)}
  <1> SUFFICES ASSUME Bad # {} PROVE FALSE
    OBVIOUS
  <1>1. PICK s \in Bad : \A r \in SUBSET s : r # s => r \notin Bad
    <2>1. Bad \in SUBSET SUBSET S
      OBVIOUS
    <2> HIDE DEF Bad
    <2> QED
      BY <2>1, LeastSubset
  <1> DEFINE h == [r \in SUBSET s |-> IF r = {} THEN 0 ELSE f[Pick(r)] + V(r \ {Pick(r)})]
  <1>2. ASSUME NEW r \in SUBSET s, r # s PROVE V(r) = h[r]
    <2>0. Unfolds(G(r), f, r) /\ IsFiniteSet(r)
      BY <1>1, <1>2, FS_Subset
    <2>1. V(r) = IF r = {} THEN 0 ELSE f[Pick(r)] + G(r)[r \ {Pick(r)}]
      BY <2>0 DEF Unfolds
    <2>2. CASE r # {}
      <3> DEFINE q == r \ {Pick(r)}
      <3>1. Unfolds(G(q), f, q) /\ q \subseteq r
        BY <1>1, <1>2, <2>2 DEF Pick
      <3> HIDE DEF G
      <3>2. G(r)[q] = G(q)[q]
        BY <2>0, <3>1, SumUnique
      <3> QED
        BY <2>1, <2>2, <3>2
    <2> QED
      BY <2>1, <2>2
  <1>3. \A r \in SUBSET s : r # {} => r \ {Pick(r)} \in SUBSET s /\ r \ {Pick(r)} # s
    BY DEF Pick
  <1>4. h = [r \in SUBSET s |-> IF r = {} THEN 0 ELSE f[Pick(r)] + h[r \ {Pick(r)}]]
    <2> HIDE DEF V
    <2>1. \A r \in SUBSET s : h[r] = IF r = {} THEN 0 ELSE f[Pick(r)] + h[r \ {Pick(r)}]
      <3>1. \A r \in SUBSET s : h[r] = IF r = {} THEN 0 ELSE f[Pick(r)] + V(r \ {Pick(r)})
        OBVIOUS
      <3> HIDE DEF h
      <3> QED
        BY <1>2, <1>3, <3>1
    <2>2. h = [r \in SUBSET s |-> h[r]]
      OBVIOUS
    <2> HIDE DEF h
    <2> QED
      BY <2>1, <2>2
  <1>5. Unfolds(G(s), f, s)
    <2> HIDE DEF h
    <2> QED
      BY <1>4 DEF Unfolds
  <1> QED
    BY <1>1, <1>5

LEMMA SumSame ==
    ASSUME NEW S, IsFiniteSet(S), NEW f, NEW e, \A x \in S : f[x] = e[x]
    PROVE  /\ SumOver(S, f) = SumOver(S, e)
           /\ SumOver(S, f) = IF S = {} THEN 0 ELSE f[Pick(S)] + SumOver(S \ {Pick(S)}, f)
  <1> DEFINE G(s, d) == CHOOSE g : Unfolds(g, d, s)
             q == S \ {Pick(S)}
  <1>1. IsFiniteSet(q) /\ q \subseteq S
    BY FS_Subset
  <1>2. \A s, d : SumOver(s, d) = G(s, d)[s]
    BY DEF SumOver, FoldFunctionOnSet, MapThenFoldSet, Unfolds, Pick
  <1>3. Unfolds(G(S, f), f, S) /\ Unfolds(G(S, e), e, S) /\ Unfolds(G(q, f), f, q)
    BY <1>1, SumUnfolds
  <1> HIDE DEF G
  <1>4. G(S, f)[S] = IF S = {} THEN 0 ELSE f[Pick(S)] + G(S, f)[q]
    BY <1>3 DEF Unfolds
  <1> HIDE DEF q
  <1>5. G(S, f)[q] = G(q, f)[q] /\ G(S, f)[S] = G(S, e)[S]
    BY <1>1, <1>3, SumUnique
  <1> QED
    BY <1>2, <1>4, <1>5 DEF q

\* A sum of integers is one, and may be unfolded at any element.
LEMMA SumRemove ==
    ASSUME NEW S, IsFiniteSet(S), NEW f, \A x \in S : f[x] \in Int
    PROVE  /\ SumOver(S, f) \in Int
           /\ \A x \in S : SumOver(S, f) = f[x] + SumOver(S \ {x}, f)
  <1> DEFINE Good(s) == /\ SumOver(s, f) \in Int
                        /\ \A x \in s : SumOver(s, f) = f[x] + SumOver(s \ {x}, f)
             Bad == {s \in SUBSET S : ~Good(s)}
  <1> SUFFICES ASSUME Bad # {} PROVE FALSE
    OBVIOUS
  <1>1. PICK s \in Bad : \A r \in SUBSET s : r # s => r \notin Bad
    <2>1. Bad \in SUBSET SUBSET S
      OBVIOUS
    <2> HIDE DEF Bad
    <2> QED
      BY <2>1, LeastSubset
  <1>2. s \subseteq S /\ ~Good(s) /\ \A r \in SUBSET s : r # s => Good(r)
    BY <1>1
  <1> DEFINE p == Pick(s)
  <1>3. SumOver(s, f) = IF s = {} THEN 0 ELSE f[p] + SumOver(s \ {p}, f)
    BY <1>2, FS_Subset, SumSame
  <1> HIDE DEF Bad
  <1>4. CASE s # {}
    <2>1. p \in s
      BY <1>4 DEF Pick
    <2> HIDE DEF p
    <2>2. Good(s \ {p})
      BY <1>2, <2>1
    <2>3. ASSUME NEW x \in s, x # p PROVE SumOver(s, f) = f[x] + SumOver(s \ {x}, f)
      <3>1. /\ SumOver(s \ {p}, f) = f[x] + SumOver((s \ {p}) \ {x}, f)
            /\ SumOver(s \ {x}, f) = f[p] + SumOver((s \ {x}) \ {p}, f)
            /\ SumOver((s \ {p}) \ {x}, f) \in Int
        BY <1>2, <2>1, <2>3
      <3>2. (s \ {p}) \ {x} = (s \ {x}) \ {p} /\ f[x] \in Int /\ f[p] \in Int
        BY <1>2, <2>1
      <3> HIDE DEF Good
      <3> QED
        BY <1>3, <1>4, <3>1, <3>2
    <2>4. \A x \in s : SumOver(s, f) = f[x] + SumOver(s \ {x}, f)
      BY <1>3, <1>4, <2>3
    <2> QED
      BY <1>2, <1>3, <1>4, <2>1, <2>2, <2>4
  <1> QED
    BY <1>2, <1>3, <1>4

\* Changing one term changes the sum by as much.
LEMMA SumChange ==
    ASSUME NEW S, IsFiniteSet(S), NEW f, NEW g, NEW x \in S, g[x] \in Int,
           \A y \in S : f[y] \in Int, \A y \in S \ {x} : g[y] = f[y]
    PROVE  SumOver(S, g) = SumOver(S, f) + g[x] - f[x]
  <1>1. IsFiniteSet(S \ {x})
    BY FS_Subset
  <1>2. /\ SumOver(S, g) = g[x] + SumOver(S \ {x}, g)
        /\ SumOver(S, f) = f[x] + SumOver(S \ {x}, f)
        /\ SumOver(S \ {x}, f) \in Int
    BY <1>1, SumRemove
  <1>3. SumOver(S \ {x}, g) = SumOver(S \ {x}, f)
    BY <1>1, SumSame
  <1> QED
    BY <1>2, <1>3
-----------------------------------------------------------------------------
(* No stock is made or lost.                                               *)

Under == [r \in Requests |-> Quantity[r] * Underway(r)]

\* Inductive: whatever overlaps or dies, what the stores hold and what has left one
\* and not arrived at another is what they opened with.
Conserved == SumOver(Locations, stock) + SumOver(Requests, Under) = SumOver(Locations, Opening)

LEMMA UnderType ==
    ASSUME NEW d \in [Requests -> Nat], NEW c \in [Requests -> Nat]
    PROVE  [r \in Requests |-> Quantity[r] * (d[r] - c[r])] \in [Requests -> Int]
  <1>1. ASSUME NEW r \in Requests PROVE Quantity[r] * (d[r] - c[r]) \in Int
    <2>1. Quantity[r] \in Int /\ d[r] - c[r] \in Int
      BY QuantityAssumption
    <2> QED
      BY <2>1
  <1> QED
    BY <1>1

\* A store's stock and what is under way of a request change by opposite amounts.
LEMMA ConservedExchange ==
    ASSUME TypeOK, TypeOK', Conserved, NEW l \in Locations, NEW r \in Requests,
           \A m \in Locations \ {l} : stock'[m] = stock[m],
           \A q \in Requests \ {r} : Underway(q)' = Underway(q),
           stock'[l] + Quantity[r] * Underway(r)' = stock[l] + Quantity[r] * Underway(r)
    PROVE  Conserved'
  <1>1. PICK u : u = Under'
    OBVIOUS
  <1>2. Under \in [Requests -> Int] /\ u \in [Requests -> Int]
    <2>1. /\ debited \in [Requests -> Nat] /\ credited \in [Requests -> Nat]
          /\ debited' \in [Requests -> Nat] /\ credited' \in [Requests -> Nat]
      BY DEF TypeOK
    <2> QED
      BY <1>1, <2>1, UnderType DEF Under, Underway
  <1>3. SumOver(Locations, stock') = SumOver(Locations, stock) + stock'[l] - stock[l]
    BY FiniteAssumption, SumChange DEF TypeOK
  <1>4. \A q \in Requests \ {r} : u[q] = Under[q]
    BY <1>1 DEF Under
  <1>5. SumOver(Requests, u) = SumOver(Requests, Under) + u[r] - Under[r]
    BY <1>2, <1>4, FiniteAssumption, SumChange
  <1>6. Under[r] = Quantity[r] * Underway(r) /\ u[r] = Quantity[r] * Underway(r)'
    BY <1>1 DEF Under
  <1>7. /\ SumOver(Locations, stock) \in Int /\ SumOver(Requests, Under) \in Int
        /\ stock[l] \in Int /\ stock'[l] \in Int /\ u[r] \in Int /\ Under[r] \in Int
    BY <1>2, FiniteAssumption, SumRemove DEF TypeOK
  <1>8. stock'[l] + u[r] = stock[l] + Under[r]
    BY <1>6
  <1>9. SumOver(Locations, stock') + SumOver(Requests, u) = SumOver(Locations, stock) + SumOver(Requests, Under)
    BY <1>3, <1>5, <1>7, <1>8
  <1> QED
    BY <1>1, <1>9 DEF Conserved

LEMMA ConservedStep == TypeOK /\ TypeOK' /\ Conserved /\ [Next]_vars => Conserved'
  <1> SUFFICES ASSUME TypeOK, TypeOK', Conserved, [Next]_vars PROVE Conserved'
    OBVIOUS
  <1>1. ASSUME UNCHANGED <<stock, debited, credited>> PROVE Conserved'
    BY <1>1 DEF Conserved, Under, Underway
  <1>2. ASSUME NEW p \in Workers, RemoveStock(p) PROVE Conserved'
    <2>1. /\ step[p] = "remove" /\ subject[p] \in Requests /\ location[p] \in Locations
          /\ stock' = [stock EXCEPT ![location[p]] = @ - Quantity[subject[p]]]
          /\ debited' = [debited EXCEPT ![subject[p]] = @ + 1] /\ credited' = credited
      BY <1>2 DEF RemoveStock, TypeOK
    <2>2. PICK l \in Locations, r \in Requests : l = location[p] /\ r = subject[p]
      BY <2>1
    <2>0. /\ debited \in [Requests -> Nat] /\ credited \in [Requests -> Nat]
          /\ stock \in [Locations -> Int] /\ Quantity[r] \in Int
      BY <2>2, QuantityAssumption DEF TypeOK
    <2>3. /\ \A m \in Locations \ {l} : stock'[m] = stock[m]
          /\ \A q \in Requests \ {r} : Underway(q)' = Underway(q)
          /\ stock'[l] = stock[l] - Quantity[r] /\ Underway(r)' = Underway(r) + 1
          /\ Quantity[r] \in Int /\ stock[l] \in Int /\ Underway(r) \in Int
      BY <2>1, <2>2, <2>0 DEF Underway
    <2>4. Quantity[r] * Underway(r)' = Quantity[r] * Underway(r) + Quantity[r]
      BY <2>3
    <2>5. Quantity[r] * Underway(r) \in Int
      BY <2>3
    <2>6. stock'[l] + Quantity[r] * Underway(r)' = stock[l] + Quantity[r] * Underway(r)
      BY <2>3, <2>4, <2>5
    <2> QED
      BY <2>3, <2>6, ConservedExchange
  <1>3. ASSUME NEW p \in Workers, AddStock(p) PROVE Conserved'
    <2>1. /\ step[p] = "add" /\ subject[p] \in Requests
          /\ stock' = [stock EXCEPT ![Home[subject[p]]] = @ + Quantity[subject[p]]]
          /\ credited' = [credited EXCEPT ![subject[p]] = @ + 1] /\ debited' = debited
      BY <1>3 DEF AddStock, TypeOK
    <2>2. PICK l \in Locations, r \in Requests : l = Home[subject[p]] /\ r = subject[p]
      BY <2>1, HomeAssumption
    <2>0. /\ debited \in [Requests -> Nat] /\ credited \in [Requests -> Nat]
          /\ stock \in [Locations -> Int] /\ Quantity[r] \in Int
      BY <2>2, QuantityAssumption DEF TypeOK
    <2>3. /\ \A m \in Locations \ {l} : stock'[m] = stock[m]
          /\ \A q \in Requests \ {r} : Underway(q)' = Underway(q)
          /\ stock'[l] = stock[l] + Quantity[r] /\ Underway(r)' = Underway(r) - 1
          /\ Quantity[r] \in Int /\ stock[l] \in Int /\ Underway(r) \in Int
      BY <2>1, <2>2, <2>0 DEF Underway
    <2>4. Quantity[r] * Underway(r)' = Quantity[r] * Underway(r) - Quantity[r]
      BY <2>3
    <2>5. Quantity[r] * Underway(r) \in Int
      BY <2>3
    <2>6. stock'[l] + Quantity[r] * Underway(r)' = stock[l] + Quantity[r] * Underway(r)
      BY <2>3, <2>4, <2>5
    <2> QED
      BY <2>3, <2>6, ConservedExchange
  <1>4. ASSUME NEW p \in Workers, NEW l \in Locations, NEW m \in Locations, l # m,
               NEW k \in {Quantity[r] : r \in Requests}, MoveStock(p, l, m, k)
        PROVE  Conserved'
    <2> DEFINE mid == [stock EXCEPT ![l] = @ - k]
    <2>1. /\ stock' = [stock EXCEPT ![l] = @ - k, ![m] = @ + k] /\ stock \in [Locations -> Int] /\ k \in Int
          /\ UNCHANGED <<debited, credited>>
      BY <1>4, QuantityAssumption DEF MoveStock, TypeOK, history
    <2>2. /\ mid \in [Locations -> Int] /\ mid[l] = stock[l] - k /\ mid[m] = stock[m]
          /\ \A n \in Locations \ {l} : mid[n] = stock[n]
          /\ \A n \in Locations \ {m} : stock'[n] = mid[n]
          /\ stock'[m] = stock[m] + k /\ stock'[m] \in Int
      BY <1>4, <2>1
    <2> HIDE DEF mid
    <2>3. SumOver(Locations, mid) = SumOver(Locations, stock) + mid[l] - stock[l]
      <3>1. mid[l] \in Int /\ \A n \in Locations : stock[n] \in Int
        BY <2>1, <2>2
      <3> QED
        BY <2>2, <3>1, FiniteAssumption, SumChange
    <2>4. SumOver(Locations, stock') = SumOver(Locations, mid) + stock'[m] - mid[m]
      <3>1. \A n \in Locations : mid[n] \in Int
        BY <2>2
      <3> QED
        BY <2>2, <3>1, FiniteAssumption, SumChange
    <2>5. SumOver(Locations, stock) \in Int
      BY <2>1, FiniteAssumption, SumRemove
    <2>6. SumOver(Locations, stock') = SumOver(Locations, stock)
      BY <2>1, <2>2, <2>3, <2>4, <2>5
    <2>7. Under' = Under
      BY <2>1 DEF Under, Underway
    <2> QED
      BY <2>6, <2>7 DEF Conserved
  <1>5. CASE UNCHANGED vars
    BY <1>1, <1>5 DEF vars, tables, history
  <1>6. ASSUME NEW p \in Workers, Work(p) PROVE Conserved'
    BY <1>1, <1>2, <1>3, <1>4, <1>6
       DEF Work, CheckStock, Reject, CreateFulfilment, MoveRejected, DiffTransfer, SaveTransfer,
           DiffRequest, SaveRequest, tables, history
  <1>7. ASSUME NEW p \in Workers, NEW r \in Requests,
               (\E l \in Locations : Accept(p, r, l)) \/ Claim(p, r) \/ CancelRequest(p, r)
        PROVE  Conserved'
    BY <1>1, <1>7 DEF Accept, Claim, CancelRequest, Start, tables
  <1>8. ASSUME NEW p \in Workers, NEW t \in Transfers, Complete(p, t) \/ CancelTransfer(p, t) PROVE Conserved'
    BY <1>1, <1>8 DEF Complete, CancelTransfer, StartTransfer, tables
  <1>9. ASSUME NEW p \in Workers, Crash(p) PROVE Conserved'
    BY <1>1, <1>9 DEF Crash, tables
  <1>10. ASSUME NEW r \in Requests, Raise(r) PROVE Conserved'
    BY <1>1, <1>10 DEF Raise, history
  <1>11. ASSUME NEW t \in Transfers, CreateTransfer(t) PROVE Conserved'
    BY <1>1, <1>11 DEF CreateTransfer, history
  <1> QED
    BY <1>5, <1>6, <1>7, <1>8, <1>9, <1>10, <1>11 DEF Next

LEMMA ConservedInit == Init => Conserved
  <1> SUFFICES ASSUME Init PROVE Conserved
    OBVIOUS
  <1> DEFINE zero == [r \in Requests |-> 0]
             Bad == {S \in SUBSET Requests : SumOver(S, zero) # 0}
  <1>1. Under = zero /\ stock = Opening
    BY QuantityAssumption DEF Init, Under, Underway
  <1>2. Bad = {}
    <2> SUFFICES ASSUME Bad # {} PROVE FALSE
      OBVIOUS
    <2>1. PICK S \in Bad : \A U \in SUBSET S : U # S => U \notin Bad
      <3>1. Bad \in SUBSET SUBSET Requests
        OBVIOUS
      <3> HIDE DEF Bad
      <3> QED
        BY <3>1, FiniteAssumption, LeastSubset
    <2>2. SumOver(S, zero) = IF S = {} THEN 0 ELSE zero[Pick(S)] + SumOver(S \ {Pick(S)}, zero)
      BY <2>1, FiniteAssumption, FS_Subset, SumSame
    <2>3. S # {} => Pick(S) \in S
      BY DEF Pick
    <2> QED
      BY <2>1, <2>2, <2>3
  <1>3. SumOver(Locations, Opening) \in Int
    BY OpeningAssumption, FiniteAssumption, SumRemove
  <1> QED
    BY <1>1, <1>2, <1>3 DEF Conserved

\* The handlers of every request, however they overlap, repeat or die, and the
\* general endpoints make and lose no stock: what is not in the stores has been
\* taken for a request once more than it has been given.
THEOREM NoStockLost == Spec => []Conserved
  BY TypeInit, TypeStep, ConservedInit, ConservedStep, PTL DEF Spec

LEMMA AllAccounted ==
    ASSUME TypeOK, InTurn, Owned, Books, Conserved
    PROVE  StockAccountedFor
  <1> SUFFICES ASSUME disturbed = {}, \A p \in Workers : step[p] = "idle"
               PROVE  /\ SumOver(Locations, stock) + SumOver(Requests, [r \in Requests |-> InTransit(r)])
                            = SumOver(Locations, Opening)
                      /\ \A r \in Requests : Rest(r)
    BY DEF StockAccountedFor, Rest, Behind
  <1>1. \A r \in Requests : Rest(r)
    BY DEF Books, InTurn
  <1> DEFINE transit == [r \in Requests |-> InTransit(r)]
  <1>2. \A r \in Requests : Under[r] = transit[r]
    <2>1. \A r \in Requests : Quantity[r] \in Int
      BY QuantityAssumption
    <2> QED
      BY <1>1, <2>1 DEF Rest, Under, InTransit
  <1> HIDE DEF transit
  <1>3. SumOver(Requests, Under) = SumOver(Requests, transit)
    BY <1>2, FiniteAssumption, SumSame
  <1> QED
    BY <1>1, <1>3 DEF Conserved, transit

\* When no handler runs, and none was mixed up with another, cut short or bypassed,
\* the stores hold what they opened with less what the accepted requests have under
\* way, and every request agrees with the transfer behind it.
THEOREM StockIsAccountedFor == Spec => []StockAccountedFor
  BY TypeInit, TypeStep, InTurnInit, InTurnStep, OwnedInit, OwnedStep, BooksInit, BooksStep,
     ConservedInit, ConservedStep, AllAccounted, PTL DEF Spec
=============================================================================
