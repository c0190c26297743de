------------------------ MODULE BillCompletionProofs ------------------------
(***************************************************************************)
(* Theorems about BillCompletion for any bills, requests, customers' limit *)
(* and handlers: type correctness, that a completed bill is backed by the  *)
(* goods, the charge and the commission it stands for, and that handlers   *)
(* in turn keep balance, limit and sales consistent.                       *)
(***************************************************************************)
EXTENDS BillCompletion, TLAPS

-----------------------------------------------------------------------------
(* Type correctness.                                                       *)

LEMMA ReturnType ==
    ASSUME TypeOK, NEW p \in Workers, Return(p), UNCHANGED <<stock, ledger, commissions, jobs>>,
           balance' \in Int,
           bills' \in [Bills -> BillStatus],
           approvals' \in [Approvals -> [bill : Bills \cup {None}, status : ApprovalStatus]],
           \A a \in Approvals : approvals'[a].status # "None" => approvals'[a].bill \in Bills,
           \A a \in Approvals : approvals[a].status # "None" => approvals'[a].status # "None",
           UNCHANGED <<deducted, charged, delivered>>, disturbed' \in BOOLEAN
    PROVE  TypeOK'
  <1>1. "None" \in BillStatus
    BY DEF BillStatus
  <1> QED
    BY <1>1 DEF TypeOK, Return, Handlers, Steps, AboutBill

LEMMA StartType ==
    ASSUME TypeOK, NEW p \in Workers, NEW h \in Handlers, NEW b \in Bills \cup {None},
           NEW a \in Approvals \cup {None}, NEW s \in BillStatus, NEW n \in Nat,
           NEW first \in Steps \ {"diffCustomer", "saveCustomer"}, Start(p, h, b, a, s, n, first),
           bills' \in [Bills -> BillStatus],
           first \in AboutBill => b \in Bills,
           first \in {"diffApproval", "saveApproval"} \/ h = "reject" => a \in Approvals,
           first = "record" <=> h = "pay", a # None => approvals[a].status # "None"
    PROVE  TypeOK'
  <1>1. balance - n \in Int
    BY DEF TypeOK
  <1>2. step' \in [Workers -> Steps] /\ handler' \in [Workers -> Handlers]
        /\ subject' \in [Workers -> Bills \cup {None}] /\ request' \in [Workers -> Approvals \cup {None}]
        /\ target' \in [Workers -> BillStatus] /\ amount' \in [Workers -> Nat] /\ after' \in [Workers -> Int]
        /\ jobs' \in Nat /\ disturbed' \in BOOLEAN
    BY <1>1 DEF TypeOK, Start
  <1>4. delivered' \in [Bills -> BOOLEAN]
    BY DEF TypeOK, Start
  <1>3. \A q \in Workers : IF q = p THEN step'[q] = first /\ handler'[q] = h /\ subject'[q] = b /\ request'[q] = a
                           ELSE step'[q] = step[q] /\ handler'[q] = handler[q] /\ subject'[q] = subject[q]
                                /\ request'[q] = request[q]
    BY DEF TypeOK, Start
  <1> QED
    BY <1>2, <1>3, <1>4 DEF TypeOK, Start, AboutBill

LEMMA TypeStep == TypeOK /\ [Next]_vars => TypeOK'
  <1> SUFFICES ASSUME TypeOK, [Next]_vars PROVE TypeOK'
    OBVIOUS
  <1>1. ASSUME NEW b \in Bills, Create(b) PROVE TypeOK'
    BY <1>1 DEF Create, TypeOK, BillStatus, worker, history
  <1>2. ASSUME NEW p \in Workers, NEW b \in Bills, CreateForOrder(p, b) PROVE TypeOK'
    <2>1. bills' \in [Bills -> BillStatus] /\ "None" \in BillStatus
      BY <1>2 DEF CreateForOrder, TypeOK, BillStatus
    <2> QED
      BY <1>2, <2>1, StartType DEF CreateForOrder, Handlers, Steps
  <1>3. ASSUME NEW p \in Workers, NEW b \in Bills, NEW s \in BillStatus, Transition(p, b, s) PROVE TypeOK'
    <2>1. bills' \in [Bills -> BillStatus]
      BY <1>3 DEF Transition, TypeOK
    <2> QED
      BY <1>3, <2>1, StartType DEF Transition, Handlers, Steps
  <1>4. ASSUME NEW p \in Workers, NEW a \in Approvals, Approve(p, a) PROVE TypeOK'
    <2>1. bills' \in [Bills -> BillStatus] /\ "None" \in BillStatus /\ approvals[a].status # "None"
      BY <1>4 DEF Approve, TypeOK, BillStatus
    <2>2. "approve" \in Handlers /\ "diffApproval" \in Steps \ {"diffCustomer", "saveCustomer"}
          /\ "diffApproval" \notin AboutBill
      BY DEF Handlers, Steps, AboutBill
    <2>3. Start(p, "approve", None, a, "None", 0, "diffApproval")
      BY <1>4 DEF Approve
    <2> QED
      BY <2>1, <2>2, <2>3, StartType
  <1>5. ASSUME NEW p \in Workers, NEW a \in Approvals, Reject(p, a) PROVE TypeOK'
    <2>1. bills' \in [Bills -> BillStatus] /\ "Cancelled" \in BillStatus /\ approvals[a].bill \in Bills
      BY <1>5 DEF Reject, TypeOK, BillStatus
    <2> QED
      BY <1>5, <2>1, StartType DEF Reject, Handlers, Steps
  <1>6. ASSUME NEW p \in Workers, NEW n \in Payments, Pay(p, n) PROVE TypeOK'
    <2>1. bills' \in [Bills -> BillStatus] /\ "None" \in BillStatus /\ n \in Nat
      BY <1>6, AmountAssumption DEF Pay, TypeOK, BillStatus
    <2> QED
      BY <1>6, <2>1, StartType DEF Pay, Handlers, Steps, AboutBill
  <1>7. ASSUME NEW p \in Workers, CheckCredit(p) \/ PriorApproved(p) PROVE TypeOK'
    BY <1>7 DEF CheckCredit, PriorApproved, Passed, Goto, TypeOK, Steps, AboutBill, tables, history
  <1>8. ASSUME NEW p \in Workers, SendForApproval(p) PROVE TypeOK'
    <2>1. subject[p] \in Bills
      BY <1>8 DEF SendForApproval, TypeOK, AboutBill
    <2>2. PICK a \in Approvals :
             approvals' = [approvals EXCEPT ![a] = [bill |-> subject[p], status |-> "Pending"]]
      BY <1>8 DEF SendForApproval
    <2>3. [bill |-> subject[p], status |-> "Pending"] \in [bill : Bills \cup {None}, status : ApprovalStatus]
      BY <2>1 DEF ApprovalStatus
    <2>4. approvals' \in [Approvals -> [bill : Bills \cup {None}, status : ApprovalStatus]]
      <3>1. approvals \in [Approvals -> [bill : Bills \cup {None}, status : ApprovalStatus]]
        BY DEF TypeOK
      <3> QED
        BY <2>2, <2>3, <3>1, Zenon
    <2>5. Return(p) /\ UNCHANGED <<bills, stock, balance, ledger, commissions, jobs, history>>
      BY <1>8 DEF SendForApproval
    <2>6. /\ Return(p) /\ UNCHANGED <<stock, ledger, commissions, jobs>> /\ UNCHANGED <<deducted, charged, delivered>>
          /\ balance' \in Int /\ bills' \in [Bills -> BillStatus] /\ disturbed' \in BOOLEAN
      BY <2>5 DEF TypeOK, history
    <2>7. \A x \in Approvals : approvals'[x].status # "None" => approvals'[x].bill \in Bills
      BY <2>1, <2>2 DEF TypeOK
    <2>8. \A x \in Approvals : approvals[x].status # "None" => approvals'[x].status # "None"
      BY <2>1, <2>2 DEF TypeOK
    <2> QED
      BY <2>4, <2>6, <2>7, <2>8, ReturnType
  <1>9. ASSUME NEW p \in Workers, End(p) \/ OutOfStock(p) PROVE TypeOK'
    BY <1>9, ReturnType DEF End, OutOfStock, TypeOK, tables, history
  <1>10. ASSUME NEW p \in Workers, Deduct(p) PROVE TypeOK'
    <2>1. subject[p] \in Bills /\ Kind(subject[p]) \in {"official", "black"}
      BY <1>10 DEF Deduct, TypeOK, AboutBill, Kind
    <2>2. Amount[subject[p]] \in Nat
      BY <2>1, AmountAssumption
    <2>3. stock' \in [{"official", "black"} -> Nat] /\ deducted' \in [Bills -> Nat]
      BY <1>10, <2>1, <2>2 DEF Deduct, TypeOK
    <2>4. AfterDeduct(subject[p]) \in {"commission", "readCustomer", "diffBill"}
      BY <2>1, SaleTypeAssumption DEF AfterDeduct
    <2>5. step' = [step EXCEPT ![p] = AfterDeduct(subject[p])]
      BY <1>10 DEF Deduct, Goto
    <2>6. step' \in [Workers -> Steps]
      BY <2>4, <2>5 DEF TypeOK, Steps
    <2>7. \A q \in Workers : q # p => step'[q] = step[q]
      BY <2>5 DEF TypeOK
    <2>8. step'[p] \in {"commission", "readCustomer", "diffBill"}
      BY <2>4, <2>5 DEF TypeOK
    <2> QED
      BY <1>10, <2>1, <2>3, <2>6, <2>7, <2>8 DEF Deduct, TypeOK, AboutBill
  <1>11. ASSUME NEW p \in Workers, RecordCommission(p) PROVE TypeOK'
    <2>1. commissions' \in [Bills -> Nat]
      BY <1>11 DEF RecordCommission, TypeOK, AboutBill
    <2> QED
      BY <1>11, <2>1 DEF RecordCommission, Goto, TypeOK, Steps, AboutBill, history
  <1>12. ASSUME NEW p \in Workers, ReadCustomer(p) PROVE TypeOK'
    <2>1. subject[p] \in Bills
      BY <1>12 DEF ReadCustomer, TypeOK, AboutBill
    <2>2. balance + Amount[subject[p]] \in Int
      BY <2>1, AmountAssumption DEF TypeOK
    <2> QED
      BY <1>12, <2>1, <2>2 DEF ReadCustomer, Goto, TypeOK, Steps, AboutBill, tables, history
  <1>13. ASSUME NEW p \in Workers, RecordPayment(p) PROVE TypeOK'
    <2>1. handler[p] = "pay" \/ subject[p] \in Bills
      BY <1>13 DEF RecordPayment, TypeOK
    <2>2. ledger' \in Int
      BY <1>13 DEF RecordPayment, TypeOK
    <2> QED
      BY <1>13, <2>1, <2>2 DEF RecordPayment, Goto, TypeOK, Steps, AboutBill, history
  <1>14. ASSUME NEW p \in Workers, DiffCustomer(p) PROVE TypeOK'
    BY <1>14 DEF DiffCustomer, Goto, TypeOK, Steps, AboutBill, tables, history
  <1>15. ASSUME NEW p \in Workers, SaveCustomer(p) PROVE TypeOK'
    <2>1. balance' \in Int
      BY <1>15 DEF SaveCustomer, TypeOK
    <2>2. CASE handler[p] = "pay"
      BY <1>15, <2>1, <2>2, ReturnType DEF SaveCustomer, TypeOK, history
    <2>3. CASE handler[p] # "pay"
      BY <1>15, <2>1, <2>3 DEF SaveCustomer, Goto, TypeOK, Steps, AboutBill, history
    <2> QED
      BY <2>2, <2>3
  <1>16. ASSUME NEW p \in Workers, Charge(p) PROVE TypeOK'
    <2>1. subject[p] \in Bills
      BY <1>16 DEF Charge, TypeOK, AboutBill
    <2>2. ledger' \in Int /\ charged' \in [Bills -> Nat]
      BY <1>16, <2>1, AmountAssumption DEF Charge, TypeOK
    <2> QED
      BY <1>16, <2>1, <2>2 DEF Charge, Goto, TypeOK, Steps, AboutBill
  <1>17. ASSUME NEW p \in Workers, DiffBill(p) PROVE TypeOK'
    BY <1>17 DEF DiffBill, Goto, TypeOK, Steps, AboutBill, tables, history
  <1>18. ASSUME NEW p \in Workers, SaveBill(p) PROVE TypeOK'
    <2>1. bills' \in [Bills -> BillStatus]
      BY <1>18 DEF SaveBill, TypeOK
    <2>2. CASE handler[p] = "reject"
      BY <1>18, <2>1, <2>2 DEF SaveBill, Goto, TypeOK, Steps, AboutBill, history
    <2>3. CASE handler[p] # "reject"
      BY <1>18, <2>1, <2>3, ReturnType DEF SaveBill, TypeOK, history
    <2> QED
      BY <2>2, <2>3
  <1>19. ASSUME NEW p \in Workers, DiffApproval(p) PROVE TypeOK'
    BY <1>19 DEF DiffApproval, Goto, TypeOK, Steps, AboutBill, tables, history
  <1>20. ASSUME NEW p \in Workers, SaveApproval(p) PROVE TypeOK'
    <2>1. request[p] \in Approvals /\ Decision(p) \in ApprovalStatus
      BY <1>20 DEF SaveApproval, TypeOK, Decision, ApprovalStatus
    <2>2. approvals' \in [Approvals -> [bill : Bills \cup {None}, status : ApprovalStatus]]
      <3>1. approvals \in [Approvals -> [bill : Bills \cup {None}, status : ApprovalStatus]]
        BY DEF TypeOK
      <3>2. approvals' = approvals \/ approvals' = [approvals EXCEPT ![request[p]].status = Decision(p)]
        BY <1>20 DEF SaveApproval
      <3> QED
        BY <2>1, <3>1, <3>2
    <2>3. \A a \in Approvals : /\ approvals[a].status # "None" => approvals'[a].status # "None"
                               /\ approvals'[a].status # "None" => approvals'[a].bill \in Bills
      BY <1>20, <2>1, NoneAssumption DEF SaveApproval, TypeOK, Decision
    <2> QED
      BY <1>20, <2>2, <2>3, ReturnType DEF SaveApproval, TypeOK, history
  <1>21. ASSUME NEW p \in Workers, Crash(p) PROVE TypeOK'
    BY <1>21, ReturnType DEF Crash, TypeOK, tables
  <1>22. CASE UNCHANGED vars
    BY <1>22 DEF vars, tables, worker, history, TypeOK
  <1>23. ASSUME NEW p \in Workers, NEW b \in Bills, Deliver(p, b) PROVE TypeOK'
    <2>1. bills' \in [Bills -> BillStatus] /\ "Completed" \in BillStatus
      BY <1>23 DEF Deliver, TypeOK, BillStatus
    <2> QED
      BY <1>23, <2>1, StartType DEF Deliver, Handlers, Steps
  <1> QED
    BY <1>1, <1>2, <1>3, <1>4, <1>5, <1>6, <1>7, <1>8, <1>9, <1>10, <1>11, <1>12, <1>13, <1>14, <1>15,
       <1>16, <1>17, <1>18, <1>19, <1>20, <1>21, <1>22, <1>23 DEF Next, Work

LEMMA TypeInit == Init => TypeOK
  <1>1. NoRequest \in [bill : Bills \cup {None}, status : ApprovalStatus] /\ "None" \in BillStatus
    BY DEF NoRequest, ApprovalStatus, BillStatus
  <1> SUFFICES ASSUME Init PROVE TypeOK
    OBVIOUS
  <1>2. /\ bills \in [Bills -> BillStatus]
        /\ approvals \in [Approvals -> [bill : Bills \cup {None}, status : ApprovalStatus]]
        /\ \A a \in Approvals : approvals[a].status = "None"
    BY <1>1 DEF Init, NoRequest
  <1>3. /\ handler \in [Workers -> Handlers] /\ step \in [Workers -> Steps]
        /\ subject \in [Workers -> Bills \cup {None}] /\ request \in [Workers -> Approvals \cup {None}]
        /\ target \in [Workers -> BillStatus]
        /\ amount \in [Workers -> Nat] /\ after \in [Workers -> Int] /\ dirty \in [Workers -> BOOLEAN]
    BY <1>1 DEF Init, Handlers, Steps
  <1>4. \A p \in Workers : step[p] = "idle" /\ handler[p] = "none" /\ request[p] = None
    BY DEF Init
  <1>5. balance \in Int /\ ledger \in Int /\ jobs \in Nat
    BY DEF Init
  <1>6. stock \in [{"official", "black"} -> Nat]
    BY StockAssumption DEF Init
  <1>7. commissions \in [Bills -> Nat] /\ deducted \in [Bills -> Nat] /\ charged \in [Bills -> Nat]
    BY DEF Init
  <1>8. \A p \in Workers :
          /\ step[p] \in AboutBill => subject[p] \in Bills
          /\ step[p] \in {"diffCustomer", "saveCustomer"} /\ handler[p] # "pay" => subject[p] \in Bills
          /\ step[p] \in {"diffApproval", "saveApproval"} => request[p] \in Approvals
          /\ step[p] = "record" => handler[p] = "pay"
          /\ handler[p] = "pay" => step[p] \in {"record", "diffCustomer", "saveCustomer"}
          /\ handler[p] = "reject" => request[p] \in Approvals
          /\ request[p] # None => approvals[request[p]].status # "None"
    BY <1>4 DEF AboutBill
  <1>9. disturbed \in BOOLEAN
    BY DEF Init
  <1>10. delivered \in [Bills -> BOOLEAN]
    BY DEF Init
  <1> QED
    BY <1>2, <1>3, <1>5, <1>6, <1>7, <1>8, <1>9, <1>10 DEF TypeOK

\* Every table and every handler's memory keeps its type, and no stock is negative.
THEOREM TypeCorrect == Spec => []TypeOK
  BY TypeInit, TypeStep, PTL DEF Spec
-----------------------------------------------------------------------------
(* What a completed bill stands for.                                       *)

\* Inductive: a handler that is past a step of the completion has done it, and one
\* that is about to save "Completed" has done them all.
Done(p) ==
    /\ step[p] = "commission" => deducted[subject[p]] > 0 /\ SaleType[subject[p]] = "black"
    /\ step[p] \in {"readCustomer", "charge"} \/ (step[p] \in {"diffCustomer", "saveCustomer"} /\ handler[p] # "pay")
          => deducted[subject[p]] > 0 /\ SaleType[subject[p]] = "credit"
    /\ step[p] \in {"diffBill", "saveBill"} /\ target[p] = "Completed" => Backed(subject[p])

BackedAllAlong == CompletedIsBacked /\ \A p \in Workers : Done(p)

\* Nothing that was done is undone.
LEMMA StillBacked ==
    ASSUME TypeOK, [Next]_vars
    PROVE  \A b \in Bills : /\ deducted'[b] >= deducted[b] /\ charged'[b] >= charged[b]
                            /\ commissions'[b] >= commissions[b]
                            /\ delivered[b] => delivered'[b]
                            /\ Backed(b) => Backed(b)'
  <1> DEFINE Counted == \A b \in Bills : /\ deducted'[b] >= deducted[b] /\ charged'[b] >= charged[b]
                                         /\ commissions'[b] >= commissions[b]
             Same == UNCHANGED <<deducted, charged, commissions>>
             Delivered == \A b \in Bills : delivered[b] => delivered'[b]
  <1>1. Counted /\ Delivered
    <2>1. \A b \in Bills : deducted[b] \in Nat /\ charged[b] \in Nat /\ commissions[b] \in Nat
      BY DEF TypeOK
    <2>2. ASSUME NEW p \in Workers, Deduct(p) \/ RecordCommission(p) \/ Charge(p)
          PROVE  Counted /\ UNCHANGED delivered
      BY <2>1, <2>2 DEF Deduct, RecordCommission, Charge, TypeOK, history
    <2>3. Same => Counted
      BY <2>1
    <2>4. ASSUME NEW b \in Bills, Create(b) PROVE Same /\ UNCHANGED delivered
      BY <2>4 DEF Create, history
    <2>5. ASSUME NEW p \in Workers, NEW b \in Bills,
                 CreateForOrder(p, b) \/ Deliver(p, b) \/ \E s \in BillStatus \ {"None"} : Transition(p, b, s)
          PROVE  Same /\ Delivered
      <3>1. Same /\ (UNCHANGED delivered \/ delivered' = [delivered EXCEPT ![b] = TRUE])
        BY <2>5 DEF CreateForOrder, Deliver, Transition, Start
      <3> QED
        BY <3>1 DEF TypeOK
    <2>6. ASSUME NEW p \in Workers,
                 \/ \E a \in Approvals : Approve(p, a) \/ Reject(p, a)
                 \/ \E n \in Payments : Pay(p, n)
          PROVE  Same /\ UNCHANGED delivered
      BY <2>6 DEF Approve, Reject, Pay, Start
    <2>7. ASSUME NEW p \in Workers, Crash(p) PROVE Same /\ UNCHANGED delivered
      BY <2>7 DEF Crash, tables
    <2>8. ASSUME NEW p \in Workers, Work(p), ~(Deduct(p) \/ RecordCommission(p) \/ Charge(p))
          PROVE  Same /\ UNCHANGED delivered
      BY <2>8 DEF Work, CheckCredit, PriorApproved, SendForApproval, End, OutOfStock, ReadCustomer, DiffCustomer,
                  SaveCustomer, RecordPayment, DiffBill, SaveBill, DiffApproval, SaveApproval, tables, history
    <2>9. ASSUME UNCHANGED vars PROVE Same /\ UNCHANGED delivered
      BY <2>9 DEF vars, tables, history
    <2>10. UNCHANGED delivered => Delivered
      OBVIOUS
    <2>11. \/ Same /\ Delivered
           \/ \E p \in Workers : Deduct(p) \/ RecordCommission(p) \/ Charge(p)
      <3> HIDE DEF Same, Delivered
      <3> QED
        BY <2>4, <2>5, <2>6, <2>7, <2>8, <2>9, <2>10 DEF Next
    <2> HIDE DEF Same, Counted, Delivered
    <2> QED
      BY <2>2, <2>3, <2>10, <2>11
  <1>2. \A b \in Bills : deducted[b] \in Nat /\ charged[b] \in Nat /\ commissions[b] \in Nat
                         /\ deducted'[b] \in Nat /\ charged'[b] \in Nat /\ commissions'[b] \in Nat
    BY TypeStep DEF TypeOK
  <1> QED
    BY <1>1, <1>2 DEF Backed

\* A handler that does not move keeps what it has done.
LEMMA OthersDone ==
    ASSUME TypeOK, BackedAllAlong, [Next]_vars, NEW q \in Workers,
           step'[q] = step[q], handler'[q] = handler[q], subject'[q] = subject[q], target'[q] = target[q]
    PROVE  Done(q)'
  <1>1. Done(q) /\ (step[q] \in AboutBill => subject[q] \in Bills)
    BY DEF BackedAllAlong, TypeOK
  <1>2. step[q] \in {"diffCustomer", "saveCustomer"} /\ handler[q] # "pay" => subject[q] \in Bills
    BY DEF TypeOK
  <1>3. \A b \in Bills : deducted[b] \in Nat /\ deducted'[b] \in Nat
    BY TypeStep DEF TypeOK
  <1>4. step[q] \in {"diffBill", "saveBill"} /\ target[q] = "Completed" => Backed(subject[q])'
    BY <1>1, StillBacked DEF Done, AboutBill
  <1>5. step[q] \in {"commission", "readCustomer", "charge"} \/ (step[q] \in {"diffCustomer", "saveCustomer"} /\ handler[q] # "pay")
           => (deducted[subject[q]] > 0 => deducted'[subject[q]] > 0)
    BY <1>1, <1>2, <1>3, StillBacked DEF AboutBill
  <1> QED
    BY <1>1, <1>4, <1>5 DEF Done

\* A handler returns, leaving the bills alone.
LEMMA ReturnDone ==
    ASSUME TypeOK, NEW p \in Workers, Return(p)
    PROVE  /\ Done(p)'
           /\ \A q \in Workers \ {p} : /\ step'[q] = step[q] /\ handler'[q] = handler[q]
                                       /\ subject'[q] = subject[q] /\ target'[q] = target[q]
  <1>1. step'[p] = "idle"
    BY DEF Return, TypeOK
  <1> QED
    BY <1>1 DEF Return, Done, TypeOK

LEMMA StartDone ==
    ASSUME TypeOK, NEW p \in Workers, NEW h, NEW b, NEW a, NEW s, NEW n, NEW first,
           Start(p, h, b, a, s, n, first),
           first \in {"checkCredit", "end", "deduct", "record", "diffApproval"}
             \/ (first = "diffBill" /\ s # "Completed")
    PROVE  /\ Done(p)'
           /\ \A q \in Workers \ {p} : /\ step'[q] = step[q] /\ handler'[q] = handler[q]
                                       /\ subject'[q] = subject[q] /\ target'[q] = target[q]
  <1>1. step'[p] = first /\ target'[p] = s
    BY DEF Start, TypeOK
  <1> QED
    BY <1>1 DEF Start, Done, TypeOK

\* Only SaveBill makes a bill Completed.
LEMMA CompletedByOne ==
    ASSUME TypeOK, BackedAllAlong, [Next]_vars, NEW p \in Workers, Done(p)',
           \A q \in Workers \ {p} : /\ step'[q] = step[q] /\ handler'[q] = handler[q]
                                    /\ subject'[q] = subject[q] /\ target'[q] = target[q],
           \A b \in Bills : bills'[b] = "Completed" => bills[b] = "Completed" \/ Backed(b)
    PROVE  BackedAllAlong'
  <1>1. \A b \in Bills : bills'[b] = "Completed" => Backed(b)'
    BY StillBacked DEF BackedAllAlong, CompletedIsBacked
  <1>2. \A q \in Workers : Done(q)'
    BY OthersDone
  <1> QED
    BY <1>1, <1>2 DEF BackedAllAlong, CompletedIsBacked

\* The step of one worker that leaves the bills alone.
LEMMA BackedByOne ==
    ASSUME TypeOK, BackedAllAlong, [Next]_vars, NEW p \in Workers, Done(p)', bills' = bills,
           \A q \in Workers \ {p} : /\ step'[q] = step[q] /\ handler'[q] = handler[q]
                                    /\ subject'[q] = subject[q] /\ target'[q] = target[q]
    PROVE  BackedAllAlong'
  BY CompletedByOne

LEMMA BackedStep == TypeOK /\ BackedAllAlong /\ [Next]_vars => BackedAllAlong'
  <1> SUFFICES ASSUME TypeOK, BackedAllAlong, [Next]_vars PROVE BackedAllAlong'
    OBVIOUS
  <1>1. ASSUME NEW b \in Bills, Create(b) PROVE BackedAllAlong'
    <2>1. \A x \in Bills : bills'[x] = "Completed" => bills[x] = "Completed"
      BY <1>1 DEF Create, TypeOK
    <2>2. \A q \in Workers : Done(q)'
      BY <1>1, OthersDone DEF Create, worker
    <2> QED
      BY <2>1, <2>2, StillBacked DEF BackedAllAlong, CompletedIsBacked
  <1>2. ASSUME NEW p \in Workers, NEW b \in Bills, CreateForOrder(p, b) PROVE BackedAllAlong'
    <2>1. \A x \in Bills : bills'[x] = "Completed" => bills[x] = "Completed"
      BY <1>2 DEF CreateForOrder, TypeOK
    <2> QED
      BY <1>2, <2>1, StartDone, CompletedByOne DEF CreateForOrder
  <1>3. ASSUME NEW p \in Workers, NEW b \in Bills, NEW s \in BillStatus, Transition(p, b, s) PROVE BackedAllAlong'
    BY <1>3, StartDone, BackedByOne DEF Transition
  <1>4. ASSUME NEW p \in Workers, NEW a \in Approvals, Approve(p, a) \/ Reject(p, a) PROVE BackedAllAlong'
    BY <1>4, StartDone, BackedByOne DEF Approve, Reject
  <1>5. ASSUME NEW p \in Workers, NEW n \in Payments, Pay(p, n) PROVE BackedAllAlong'
    BY <1>5, StartDone, BackedByOne DEF Pay
  <1>6. ASSUME NEW p \in Workers, CheckCredit(p) \/ PriorApproved(p) PROVE BackedAllAlong'
    BY <1>6, BackedByOne DEF CheckCredit, PriorApproved, Passed, Goto, Done, tables, TypeOK
  <1>7. ASSUME NEW p \in Workers, SendForApproval(p) \/ End(p) \/ OutOfStock(p) \/ SaveApproval(p) \/ Crash(p)
        PROVE  BackedAllAlong'
    BY <1>7, ReturnDone, BackedByOne DEF SendForApproval, End, OutOfStock, SaveApproval, Crash, tables
  <1>8. ASSUME NEW p \in Workers, Deduct(p) PROVE BackedAllAlong'
    <2>1. subject[p] \in Bills
      BY <1>8 DEF Deduct, TypeOK, AboutBill
    <2>2. /\ step' = [step EXCEPT ![p] = AfterDeduct(subject[p])] /\ deducted'[subject[p]] > 0
          /\ subject' = subject /\ handler' = handler /\ target' = target /\ bills' = bills
      BY <1>8, <2>1 DEF Deduct, Goto, TypeOK
    <2>3. handler[p] # "pay"
      BY <1>8 DEF Deduct, TypeOK
    <2>4. Done(p)'
      BY <2>1, <2>2, <2>3, SaleTypeAssumption DEF AfterDeduct, Done, Backed, TypeOK
    <2> QED
      BY <2>2, <2>4, BackedByOne DEF TypeOK
  <1>9. ASSUME NEW p \in Workers, RecordCommission(p) PROVE BackedAllAlong'
    <2>1. subject[p] \in Bills /\ deducted[subject[p]] > 0 /\ SaleType[subject[p]] = "black"
      BY <1>9 DEF RecordCommission, TypeOK, AboutBill, BackedAllAlong, Done
    <2>2. /\ step' = [step EXCEPT ![p] = "diffBill"] /\ commissions'[subject[p]] > 0 /\ deducted' = deducted
          /\ subject' = subject /\ handler' = handler /\ target' = target /\ bills' = bills
      BY <1>9, <2>1 DEF RecordCommission, Goto, TypeOK, history
    <2>3. Done(p)'
      BY <2>1, <2>2 DEF Done, Backed, TypeOK
    <2> QED
      BY <2>2, <2>3, BackedByOne DEF TypeOK
  <1>10. ASSUME NEW p \in Workers, ReadCustomer(p) \/ RecordPayment(p) \/ DiffCustomer(p) PROVE BackedAllAlong'
    <2>1. Done(p)'
      BY <1>10 DEF ReadCustomer, RecordPayment, DiffCustomer, Goto, Done, BackedAllAlong, TypeOK, tables, history
    <2> QED
      BY <1>10, <2>1, BackedByOne DEF ReadCustomer, RecordPayment, DiffCustomer, Goto, TypeOK, tables
  <1>11. ASSUME NEW p \in Workers, SaveCustomer(p) PROVE BackedAllAlong'
    <2>1. CASE handler[p] = "pay"
      BY <1>11, <2>1, ReturnDone, BackedByOne DEF SaveCustomer
    <2>2. CASE handler[p] # "pay"
      <3>1. Done(p)'
        BY <1>11, <2>2 DEF SaveCustomer, Goto, Done, BackedAllAlong, TypeOK, history
      <3> QED
        BY <1>11, <2>2, <3>1, BackedByOne DEF SaveCustomer, Goto, TypeOK
    <2> QED
      BY <2>1, <2>2
  <1>12. ASSUME NEW p \in Workers, Charge(p) PROVE BackedAllAlong'
    <2>1. subject[p] \in Bills /\ deducted[subject[p]] > 0 /\ SaleType[subject[p]] = "credit"
      BY <1>12 DEF Charge, TypeOK, AboutBill, BackedAllAlong, Done
    <2>2. Amount[subject[p]] \in Nat
      BY <2>1, AmountAssumption
    <2>3. /\ step' = [step EXCEPT ![p] = "diffBill"] /\ charged'[subject[p]] > 0 /\ deducted' = deducted
          /\ subject' = subject /\ handler' = handler /\ target' = target /\ bills' = bills
      BY <1>12, <2>1 DEF Charge, Goto, TypeOK
    <2>4. Done(p)'
      BY <2>1, <2>3 DEF Done, Backed, TypeOK
    <2> QED
      BY <2>3, <2>4, BackedByOne DEF TypeOK
  <1>13. ASSUME NEW p \in Workers, DiffBill(p) PROVE BackedAllAlong'
    <2>1. Done(p)'
      BY <1>13 DEF DiffBill, Goto, Done, Backed, BackedAllAlong, TypeOK, tables, history
    <2> QED
      BY <1>13, <2>1, BackedByOne DEF DiffBill, Goto, TypeOK, tables
  <1>14. ASSUME NEW p \in Workers, SaveBill(p) PROVE BackedAllAlong'
    <2>1. \A b \in Bills : bills'[b] = "Completed" => bills[b] = "Completed" \/ Backed(b)
      BY <1>14 DEF SaveBill, BackedAllAlong, Done, TypeOK
    <2>2. CASE handler[p] = "reject"
      <3>1. Done(p)'
        BY <1>14, <2>2 DEF SaveBill, Goto, Done, TypeOK
      <3> QED
        BY <1>14, <2>1, <2>2, <3>1, CompletedByOne DEF SaveBill, Goto, TypeOK
    <2>3. CASE handler[p] # "reject"
      BY <1>14, <2>1, <2>3, ReturnDone, CompletedByOne DEF SaveBill
    <2> QED
      BY <2>2, <2>3
  <1>15. ASSUME NEW p \in Workers, DiffApproval(p) PROVE BackedAllAlong'
    <2>1. Done(p)'
      BY <1>15 DEF DiffApproval, Goto, Done, TypeOK
    <2> QED
      BY <1>15, <2>1, BackedByOne DEF DiffApproval, Goto, TypeOK, tables
  <1>16. CASE UNCHANGED vars
    <2>1. \A q \in Workers : Done(q)'
      BY <1>16, OthersDone DEF vars, worker
    <2> QED
      BY <1>16, <2>1, StillBacked DEF BackedAllAlong, CompletedIsBacked, vars, tables
  <1>17. ASSUME NEW p \in Workers, NEW b \in Bills, Deliver(p, b) PROVE BackedAllAlong'
    <2>1. step'[p] = "diffBill" /\ subject'[p] = b /\ delivered'[b] /\ bills' = bills
      BY <1>17 DEF Deliver, Start, TypeOK
    <2>2. Done(p)'
      BY <2>1 DEF Done, Backed
    <2> QED
      BY <1>17, <2>1, <2>2, BackedByOne DEF Deliver, Start, TypeOK
  <1> QED
    BY <1>1, <1>2, <1>3, <1>4, <1>5, <1>6, <1>7, <1>8, <1>9, <1>10, <1>11, <1>12, <1>13, <1>14, <1>15, <1>16,
       <1>17 DEF Next, Work

LEMMA BackedInit == Init => BackedAllAlong
  BY DEF Init, BackedAllAlong, CompletedIsBacked, Done

\* However handlers overlap, repeat or die, a completed bill's goods have left the
\* stock and its customer is charged or its commission recorded.
THEOREM CompletedBillsAreBacked == Spec => []CompletedIsBacked
  BY TypeInit, TypeStep, BackedInit, BackedStep, PTL DEF Spec, BackedAllAlong

-----------------------------------------------------------------------------
(* Handlers that take turns.                                               *)

Rejected(b) == \E a \in Approvals : approvals[a] = [bill |-> b, status |-> "Rejected"]
Approved(b) == \E a \in Approvals : approvals[a] = [bill |-> b, status |-> "Approved"]

Selling(p) ==
    \/ step[p] \in {"deduct", "commission", "readCustomer", "charge"}
    \/ step[p] \in {"diffCustomer", "saveCustomer"} /\ handler[p] # "pay"

Paying(p) == step[p] \in {"diffCustomer", "saveCustomer"} /\ handler[p] = "pay"

OverApproved ==
    ~SkipsApproval /\ balance > Limit =>
        \E a \in Approvals : approvals[a].status = "Approved" /\ charged[approvals[a].bill] > 0

SoldOf(b) == deducted[b] > 0 => bills[b] = "Completed" \/ Rejected(b)

\* How a handler that runs alone stands at each of its steps: with the balance and
\* its ledger, with the limit, with the goods that left, and with a request.
OnBalance(p) ==
    /\ step[p] = "charge" => balance = ledger + Amount[subject[p]]
    /\ Paying(p) => after[p] = ledger /\ after[p] <= balance
    /\ step[p] # "charge" /\ ~Paying(p) => balance = ledger
    /\ step[p] = "record" => after[p] = balance - amount[p]
    /\ step[p] \in {"diffCustomer", "saveCustomer"} /\ handler[p] # "pay" =>
          after[p] = balance + Amount[subject[p]]
    /\ step[p] = "saveCustomer" => dirty[p] = (after[p] # balance)

OnLimit(p) ==
    /\ step[p] = "charge" /\ ~SkipsApproval /\ balance > Limit => Approved(subject[p])
    /\ step[p] # "charge" => OverApproved
    /\ Selling(p) /\ step[p] # "charge" /\ SaleType[subject[p]] = "credit" =>
          (~SkipsApproval /\ balance + Amount[subject[p]] > Limit => Approved(subject[p]))

OnSales(p) ==
    /\ \A b \in Bills \ {subject[p]} : SoldOf(b)
    /\ step[p] \in {"checkCredit", "checkApproval", "deduct", "end"} =>
          subject[p] \in Bills /\ SoldOf(subject[p])
    /\ Selling(p) \/ (step[p] \in {"checkCredit", "checkApproval"} /\ handler[p] # "create") =>
          target[p] = "Completed"
    /\ step[p] \in {"diffBill", "saveBill"} => target[p] # "None"
    /\ step[p] \in {"diffBill", "saveBill"} /\ handler[p] # "reject" =>
          target[p] = "Completed" \/ (deducted[subject[p]] > 0 => Rejected(subject[p]))
    /\ step[p] = "saveBill" => dirty[p] \/ bills[subject[p]] = target[p]

OnRequest(p) ==
    /\ step[p] \in {"diffApproval", "saveApproval"} => handler[p] \in {"approve", "reject"}
    /\ step[p] = "saveApproval" => dirty[p]
    /\ handler[p] = "approve" => subject[p] = None /\ step[p] \in {"diffApproval", "saveApproval"}
    /\ handler[p] = "reject" => step[p] \in {"diffBill", "saveBill", "diffApproval", "saveApproval"}
    /\ handler[p] \in {"approve", "reject"} =>
          request[p] \in Approvals /\ approvals[request[p]].status = "Pending"
    /\ handler[p] = "reject" => approvals[request[p]].bill = subject[p]
    /\ handler[p] = "pay" => subject[p] = None

Turn(p) == OnBalance(p) /\ OnLimit(p) /\ OnSales(p) /\ OnRequest(p)

Calm == balance = ledger /\ OverApproved /\ \A b \in Bills : SoldOf(b)

\* Inductive.
Serial ==
    ~disturbed =>
        /\ \A p, q \in Workers : step[p] # "idle" /\ step[q] # "idle" => p = q
        /\ (\A p \in Workers : step[p] = "idle") => Calm
        /\ \A p \in Workers : step[p] # "idle" => Turn(p)

LEMMA TurnReturn ==
    ASSUME TypeOK, Serial, NEW p \in Workers, step[p] # "idle", Return(p), disturbed' = disturbed,
           ~disturbed => Calm'
    PROVE  Serial'
  BY DEF Serial, Return, TypeOK

LEMMA TurnGoto ==
    ASSUME TypeOK, Serial, NEW p \in Workers, step[p] # "idle", NEW s \in Steps \ {"idle"}, Goto(p, s),
           disturbed' = disturbed, ~disturbed => Turn(p)'
    PROVE  Serial'
  <1>1. step'[p] = s /\ \A q \in Workers \ {p} : step'[q] = step[q]
    BY DEF Goto, TypeOK
  <1> QED
    BY <1>1 DEF Serial

LEMMA TurnStart ==
    ASSUME TypeOK, Serial, NEW p \in Workers, NEW h, NEW b, NEW a, NEW s, NEW n, NEW first \in Steps \ {"idle"},
           Start(p, h, b, a, s, n, first), Calm /\ ~disturbed => Turn(p)'
    PROVE  Serial'
  <1>1. step'[p] = first /\ \A q \in Workers \ {p} : step'[q] = step[q]
    BY DEF Start, TypeOK
  <1>2. ~disturbed' => ~disturbed /\ \A q \in Workers : step[q] = "idle"
    BY DEF Start
  <1> QED
    BY <1>1, <1>2 DEF Serial

\* A request that is decided stays so: the one under decision was pending.
LEMMA DecisionsStay ==
    ASSUME approvals' = approvals \/
           \E a \in Approvals : /\ approvals[a].status \notin {"Approved", "Rejected"}
                               /\ \A x \in Approvals \ {a} : approvals'[x] = approvals[x],
           UNCHANGED <<balance, charged>>
    PROVE  /\ \A b : Approved(b) => Approved(b)'
           /\ \A b : Rejected(b) => Rejected(b)'
           /\ OverApproved => OverApproved'
  BY DEF Approved, Rejected, OverApproved

LEMMA SerialCreate == ASSUME TypeOK, Serial, NEW b \in Bills, Create(b) PROVE Serial'
  <1>1. /\ UNCHANGED <<approvals, balance, ledger, deducted, charged, disturbed,
                       handler, step, subject, request, target, amount, after, dirty>>
        /\ bills[b] = "None" /\ bills'[b] = "Initiated" /\ \A x \in Bills \ {b} : bills'[x] = bills[x]
    BY DEF Create, TypeOK, worker, history
  <1>2. /\ OverApproved' = OverApproved /\ (\A x : Rejected(x)' = Rejected(x) /\ Approved(x)' = Approved(x))
        /\ \A x \in Bills : SoldOf(x) => SoldOf(x)'
    BY <1>1 DEF OverApproved, Rejected, Approved, SoldOf
  <1>3. Calm => Calm'
    BY <1>1, <1>2 DEF Calm
  <1>4. ASSUME NEW p \in Workers, Turn(p) PROVE Turn(p)'
    <2>1. OnBalance(p)' /\ OnRequest(p)'
      BY <1>1, <1>4 DEF Turn, OnBalance, OnRequest, Paying
    <2>2. OnLimit(p)'
      BY <1>1, <1>2, <1>4 DEF Turn, OnLimit, Selling
    <2>3. OnSales(p)'
      <3>1. /\ \A x \in Bills \ {subject[p]} : SoldOf(x)'
            /\ step[p] \in {"checkCredit", "checkApproval", "deduct", "end"} =>
                  subject[p] \in Bills /\ SoldOf(subject[p])'
        BY <1>1, <1>2, <1>4 DEF Turn, OnSales
      <3>2. step[p] = "saveBill" => dirty[p] \/ bills'[subject[p]] = target[p]
        <4>1. step[p] = "saveBill" => subject[p] \in Bills
          BY DEF TypeOK, AboutBill
        <4> QED
          BY <1>1, <1>4, <4>1 DEF Turn, OnSales
      <3> QED
        BY <1>1, <1>2, <1>4, <3>1, <3>2 DEF Turn, OnSales, Selling
    <2> QED
      BY <2>1, <2>2, <2>3 DEF Turn
  <1> QED
    BY <1>1, <1>3, <1>4 DEF Serial

\* A handler's start.
LEMMA SerialStart ==
    ASSUME TypeOK, Serial, NEW p \in Workers,
           \/ \E b \in Bills :
                 CreateForOrder(p, b) \/ Deliver(p, b) \/ \E s \in BillStatus \ {"None"} : Transition(p, b, s)
           \/ \E a \in Approvals : Approve(p, a) \/ Reject(p, a)
           \/ \E n \in Payments : Pay(p, n)
    PROVE  Serial'
  <1> DEFINE Same == /\ UNCHANGED <<approvals, stock, balance, ledger, deducted, charged>>
                     /\ OverApproved' = OverApproved
                     /\ \A x : Rejected(x)' = Rejected(x) /\ Approved(x)' = Approved(x)
             Mine(h, b, a, s, n, first) ==
                     /\ handler'[p] = h /\ step'[p] = first /\ subject'[p] = b /\ request'[p] = a
                     /\ target'[p] = s /\ amount'[p] = n /\ after'[p] = balance - n
  <1>1. ASSUME NEW h, NEW b, NEW a, NEW s, NEW n, NEW first, Start(p, h, b, a, s, n, first)
        PROVE  Same /\ Mine(h, b, a, s, n, first)
    BY <1>1 DEF Start, TypeOK, OverApproved, Rejected, Approved
  <1> USE DEF Steps
  <1> HIDE DEF Same, Mine
  <1>2. ASSUME NEW b \in Bills, CreateForOrder(p, b) PROVE Serial'
    <2> DEFINE first == IF SaleType[b] = "credit" THEN "checkCredit" ELSE "end"
    <2>1. Start(p, "create", b, None, "None", 0, first) /\ bills[b] = "None"
          /\ bills' = [bills EXCEPT ![b] = "Initiated"]
      BY <1>2 DEF CreateForOrder
    <2>2. Same /\ Mine("create", b, None, "None", 0, first)
      BY <1>1, <2>1
    <2>3. Calm => Turn(p)'
      <3>1. (\A x \in Bills : SoldOf(x)) => \A x \in Bills : SoldOf(x)'
        BY <2>1, <2>2 DEF SoldOf, TypeOK, Same
      <3> QED
        BY <2>2, <3>1 DEF Same, Mine, Calm, Turn, OnBalance, OnLimit, OnSales, OnRequest, Selling, Paying
    <2> QED
      BY <2>1, <2>3, TurnStart
  <1>3. ASSUME NEW b \in Bills, Deliver(p, b) PROVE Serial'
    <2>1. Start(p, "deliver", b, None, "Completed", 0, "diffBill") /\ bills' = bills
      BY <1>3 DEF Deliver
    <2>2. Same /\ Mine("deliver", b, None, "Completed", 0, "diffBill")
      BY <1>1, <2>1
    <2>3. Calm => Turn(p)'
      BY <2>1, <2>2 DEF Same, Mine, SoldOf, Calm, Turn, OnBalance, OnLimit, OnSales, OnRequest, Selling, Paying
    <2> QED
      BY <2>1, <2>3, TurnStart
  <1>4. ASSUME NEW b \in Bills, NEW s \in BillStatus \ {"None"}, Transition(p, b, s) PROVE Serial'
    <2> DEFINE first == CASE s # "Completed"        -> "diffBill"
                          [] s = "Completed" /\ SaleType[b] = "credit" -> "checkCredit"
                          [] OTHER                  -> "deduct"
    <2>1. /\ Start(p, "transition", b, None, s, 0, first) /\ bills' = bills
          /\ s = bills[b] \/ s \in AllowedFrom[bills[b]]
      BY <1>4 DEF Transition
    <2>2. Same /\ Mine("transition", b, None, s, 0, first) /\ first \in {"diffBill", "checkCredit", "deduct"}
      BY <1>1, <2>1
    <2>3. Calm => Turn(p)'
      <3>1. ASSUME Calm PROVE OnSales(p)'
        <4>1. \A x \in Bills : SoldOf(x)'
          BY <2>1, <2>2, <3>1 DEF SoldOf, Calm, Same
        <4>2. bills[b] \in BillStatus /\ AllowedFrom["Completed"] = {}
          BY DEF TypeOK, AllowedFrom, BillStatus
        <4>3. s # "Completed" => bills[b] # "Completed"
          BY <2>1, <4>2
        <4>4. s # "Completed" => (deducted[b] > 0 => Rejected(b))
          BY <3>1, <4>3 DEF Calm, SoldOf
        <4>5. IF s = "Completed" THEN first # "diffBill" ELSE first = "diffBill"
          OBVIOUS
        <4> HIDE DEF first
        <4> QED
          BY <2>2, <4>1, <4>4, <4>5 DEF Mine, OnSales, Selling, Same
      <3>2. ASSUME Calm PROVE OnBalance(p)' /\ OnRequest(p)'
        <4> HIDE DEF first
        <4> QED
          BY <2>2, <3>2 DEF Mine, Same, Calm, OnBalance, OnRequest, Paying
      <3>3. ASSUME Calm PROVE OnLimit(p)'
        <4>1. first = "deduct" => SaleType[b] # "credit"
          OBVIOUS
        <4> HIDE DEF first
        <4> QED
          BY <2>2, <3>3, <4>1 DEF Mine, Same, Calm, OnLimit, Selling
      <3> QED
        BY <3>1, <3>2, <3>3 DEF Turn
    <2> QED
      BY <2>1, <2>2, <2>3, TurnStart
  <1>5. ASSUME NEW a \in Approvals, Approve(p, a) PROVE Serial'
    <2>1. Start(p, "approve", None, a, "None", 0, "diffApproval") /\ bills' = bills
          /\ approvals[a].status = "Pending"
      BY <1>5 DEF Approve
    <2>2. Same /\ Mine("approve", None, a, "None", 0, "diffApproval")
      BY <1>1, <2>1
    <2>3. Calm => Turn(p)'
      BY <2>1, <2>2, NoneAssumption
      DEF Same, Mine, SoldOf, Calm, Turn, OnBalance, OnLimit, OnSales, OnRequest, Selling, Paying
    <2> QED
      BY <2>1, <2>3, TurnStart
  <1>6. ASSUME NEW a \in Approvals, Reject(p, a) PROVE Serial'
    <2>1. Start(p, "reject", approvals[a].bill, a, "Cancelled", 0, "diffBill") /\ bills' = bills
          /\ approvals[a].status = "Pending"
      BY <1>6 DEF Reject
    <2>2. Same /\ Mine("reject", approvals[a].bill, a, "Cancelled", 0, "diffBill")
      BY <1>1, <2>1
    <2>3. Calm => Turn(p)'
      BY <2>1, <2>2 DEF Same, Mine, SoldOf, Calm, Turn, OnBalance, OnLimit, OnSales, OnRequest, Selling, Paying
    <2> QED
      BY <2>1, <2>3, TurnStart
  <1>7. ASSUME NEW n \in Payments, Pay(p, n) PROVE Serial'
    <2>1. Start(p, "pay", None, None, "None", n, "record") /\ bills' = bills
      BY <1>7 DEF Pay
    <2>2. Same /\ Mine("pay", None, None, "None", n, "record")
      BY <1>1, <2>1
    <2>3. Calm => Turn(p)'
      BY <2>1, <2>2 DEF Same, Mine, SoldOf, Calm, Turn, OnBalance, OnLimit, OnSales, OnRequest, Selling, Paying
    <2> QED
      BY <2>1, <2>3, TurnStart
  <1> QED
    BY <1>2, <1>3, <1>4, <1>5, <1>6, <1>7

\* A step that only moves on.
LEMMA SerialMove ==
    ASSUME TypeOK, BackedAllAlong, Serial, NEW p \in Workers,
           CheckCredit(p) \/ PriorApproved(p) \/ ReadCustomer(p) \/ DiffCustomer(p) \/ DiffBill(p) \/ DiffApproval(p)
    PROVE  Serial'
  <1> USE DEF Steps
  <1>0. /\ UNCHANGED <<bills, approvals, balance, ledger, deducted, charged, disturbed,
                       handler, subject, request, target, amount>>
        /\ OverApproved' = OverApproved
        /\ \A b : SoldOf(b)' = SoldOf(b) /\ Rejected(b)' = Rejected(b) /\ Approved(b)' = Approved(b)
    BY DEF CheckCredit, PriorApproved, ReadCustomer, DiffCustomer, DiffBill, DiffApproval, tables, history,
           OverApproved, SoldOf, Rejected, Approved
  <1> USE DEF Turn
  <1>1. CASE CheckCredit(p)
    <2>1. PICK s \in {"end", "deduct", "checkApproval"} :
            /\ Goto(p, s)
            /\ s = "deduct" => handler[p] # "create"
            /\ s # "checkApproval" => WithinLimit(subject[p]) \/ SkipsApproval
      BY <1>1 DEF CheckCredit, Passed
    <2>2. /\ step[p] = "checkCredit" /\ step'[p] = s /\ subject[p] \in Bills
          /\ UNCHANGED <<after, dirty>> /\ handler[p] # "pay"
      BY <1>1, <2>1 DEF CheckCredit, Goto, TypeOK, AboutBill
    <2>3. balance \in Int /\ Amount[subject[p]] \in Int /\ Limit \in Int
      BY <2>2, AmountAssumption, LimitAssumption DEF TypeOK
    <2>4. ASSUME Turn(p) PROVE Turn(p)'
      BY <1>0, <2>1, <2>2, <2>3, <2>4
      DEF OnBalance, OnLimit, OnSales, OnRequest, Selling, Paying, WithinLimit
    <2> QED
      BY <1>0, <2>1, <2>2, <2>4, TurnGoto DEF Serial
  <1>2. CASE PriorApproved(p)
    <2>1. PICK s \in {"end", "deduct"} : Goto(p, s) /\ (s = "deduct" => handler[p] # "create")
      BY <1>2 DEF PriorApproved, Passed
    <2>2. /\ step[p] = "checkApproval" /\ step'[p] = s /\ subject[p] \in Bills /\ Approved(subject[p])
          /\ UNCHANGED <<after, dirty>> /\ handler[p] # "pay"
      BY <1>2, <2>1 DEF PriorApproved, Goto, TypeOK, AboutBill, Approved
    <2>3. ASSUME Turn(p) PROVE Turn(p)'
      BY <1>0, <2>1, <2>2, <2>3 DEF OnBalance, OnLimit, OnSales, OnRequest, Selling, Paying
    <2> QED
      BY <1>0, <2>1, <2>2, <2>3, TurnGoto DEF Serial
  <1>3. CASE ReadCustomer(p)
    <2>1. /\ step[p] = "readCustomer" /\ step'[p] = "diffCustomer" /\ Goto(p, "diffCustomer")
          /\ after'[p] = balance + Amount[subject[p]] /\ handler[p] # "pay"
      BY <1>3 DEF ReadCustomer, Goto, TypeOK
    <2>2. ASSUME Turn(p) PROVE Turn(p)'
      BY <1>0, <2>1, <2>2 DEF OnBalance, OnLimit, OnSales, OnRequest, Selling, Paying
    <2> QED
      BY <1>0, <2>1, <2>2, TurnGoto DEF Serial
  <1>4. CASE DiffCustomer(p)
    <2>1. /\ step[p] = "diffCustomer" /\ step'[p] = "saveCustomer" /\ Goto(p, "saveCustomer")
          /\ dirty'[p] = (after[p] # balance) /\ after' = after
      BY <1>4 DEF DiffCustomer, Goto, TypeOK
    <2>2. ASSUME Turn(p) PROVE Turn(p)'
      BY <1>0, <2>1, <2>2 DEF OnBalance, OnLimit, OnSales, OnRequest, Selling, Paying
    <2> QED
      BY <1>0, <2>1, <2>2, TurnGoto DEF Serial
  <1>5. CASE DiffBill(p)
    <2>1. /\ step[p] = "diffBill" /\ step'[p] = "saveBill" /\ Goto(p, "saveBill")
          /\ dirty'[p] = (target[p] # bills[subject[p]])
      BY <1>5 DEF DiffBill, Goto, TypeOK
    <2>2. ASSUME Turn(p) PROVE Turn(p)'
      BY <1>0, <2>1, <2>2 DEF OnBalance, OnLimit, OnSales, OnRequest, Selling, Paying
    <2> QED
      BY <1>0, <2>1, <2>2, TurnGoto DEF Serial
  <1>6. CASE DiffApproval(p)
    <2>1. /\ step[p] = "diffApproval" /\ step'[p] = "saveApproval" /\ Goto(p, "saveApproval")
          /\ dirty'[p] = (approvals[request[p]].status # Decision(p)) /\ Decision(p) # "Pending"
      BY <1>6 DEF DiffApproval, Goto, TypeOK, Decision
    <2>2. ASSUME Turn(p) PROVE Turn(p)'
      BY <1>0, <2>1, <2>2 DEF OnBalance, OnLimit, OnSales, OnRequest, Selling, Paying
    <2> QED
      BY <1>0, <2>1, <2>2, TurnGoto DEF Serial
  <1> QED
    BY <1>1, <1>2, <1>3, <1>4, <1>5, <1>6

\* A step that changes a table.
LEMMA SerialWrite ==
    ASSUME TypeOK, BackedAllAlong, Serial, NEW p \in Workers,
           \/ Deduct(p) \/ RecordCommission(p) \/ RecordPayment(p) \/ Charge(p)
           \/ SaveCustomer(p) \/ SaveBill(p)
    PROVE  Serial'
  <1> USE DEF Steps
  <1>0. /\ approvals' = approvals /\ disturbed' = disturbed
        /\ \A b : Rejected(b)' = Rejected(b) /\ Approved(b)' = Approved(b)
    BY DEF Deduct, RecordCommission, RecordPayment, Charge, SaveCustomer, SaveBill, history, Rejected, Approved
  <1> USE DEF Turn
  <1>1. CASE Deduct(p)
    <2> DEFINE s == AfterDeduct(subject[p])
    <2>1. /\ step[p] = "deduct" /\ step'[p] = s /\ Goto(p, s) /\ subject[p] \in Bills /\ handler[p] # "pay"
          /\ UNCHANGED <<bills, balance, ledger, charged, handler, subject, request, target, amount, after, dirty>>
          /\ \A b \in Bills \ {subject[p]} : deducted'[b] = deducted[b]
      BY <1>1 DEF Deduct, Goto, TypeOK, AboutBill
    <2>2. /\ s \in {"commission", "readCustomer", "diffBill"}
          /\ s = "readCustomer" <=> SaleType[subject[p]] = "credit"
      BY <2>1, SaleTypeAssumption DEF AfterDeduct
    <2> HIDE DEF s
    <2>3. OverApproved' = OverApproved /\ \A b \in Bills \ {subject[p]} : SoldOf(b)' = SoldOf(b)
      BY <1>0, <2>1 DEF OverApproved, SoldOf
    <2>4. ASSUME Turn(p) PROVE Turn(p)'
      BY <1>0, <2>1, <2>2, <2>3, <2>4 DEF OnBalance, OnLimit, OnSales, OnRequest, Selling, Paying
    <2> QED
      BY <1>0, <2>1, <2>2, <2>4, TurnGoto DEF Serial
  <1>2. CASE RecordCommission(p)
    <2>1. /\ step[p] = "commission" /\ step'[p] = "diffBill" /\ Goto(p, "diffBill")
          /\ UNCHANGED <<bills, balance, ledger, deducted, charged,
                         handler, subject, request, target, amount, after, dirty>>
      BY <1>2 DEF RecordCommission, Goto, TypeOK, history
    <2>2. OverApproved' = OverApproved /\ \A b : SoldOf(b)' = SoldOf(b)
      BY <1>0, <2>1 DEF OverApproved, SoldOf
    <2>3. ASSUME Turn(p) PROVE Turn(p)'
      BY <1>0, <2>1, <2>2, <2>3 DEF OnBalance, OnLimit, OnSales, OnRequest, Selling, Paying
    <2> QED
      BY <1>0, <2>1, <2>3, TurnGoto DEF Serial
  <1>3. CASE RecordPayment(p)
    <2>1. /\ step[p] = "record" /\ step'[p] = "diffCustomer" /\ Goto(p, "diffCustomer")
          /\ ledger' = ledger - amount[p] /\ handler[p] = "pay"
          /\ UNCHANGED <<bills, balance, deducted, charged,
                         handler, subject, request, target, amount, after, dirty>>
          /\ balance \in Int /\ ledger \in Int /\ amount[p] \in Nat
      BY <1>3 DEF RecordPayment, Goto, TypeOK, history
    <2>2. OverApproved' = OverApproved /\ \A b : SoldOf(b)' = SoldOf(b)
      BY <1>0, <2>1 DEF OverApproved, SoldOf
    <2>3. ASSUME Turn(p) PROVE Turn(p)'
      BY <1>0, <2>1, <2>2, <2>3 DEF OnBalance, OnLimit, OnSales, OnRequest, Selling, Paying
    <2> QED
      BY <1>0, <2>1, <2>3, TurnGoto DEF Serial
  <1>4. CASE Charge(p)
    <2>1. /\ step[p] = "charge" /\ step'[p] = "diffBill" /\ Goto(p, "diffBill") /\ subject[p] \in Bills
          /\ ledger' = ledger + Amount[subject[p]] /\ charged'[subject[p]] > 0
          /\ UNCHANGED <<bills, balance, deducted, handler, subject, request, target, amount, after, dirty>>
      BY <1>4 DEF Charge, Goto, TypeOK, AboutBill
    <2>2. \A b : SoldOf(b)' = SoldOf(b)
      BY <1>0, <2>1 DEF SoldOf
    <2>3. ASSUME Turn(p) PROVE OverApproved'
      <3>1. ~SkipsApproval /\ balance > Limit => Approved(subject[p])
        BY <2>1, <2>3 DEF OnLimit
      <3> QED
        BY <1>0, <2>1, <3>1 DEF OverApproved, Approved
    <2>4. ASSUME Turn(p) PROVE Turn(p)'
      BY <1>0, <2>1, <2>2, <2>3, <2>4 DEF OnBalance, OnLimit, OnSales, OnRequest, Selling, Paying
    <2> QED
      BY <1>0, <2>1, <2>4, TurnGoto DEF Serial
  <1>5. CASE SaveCustomer(p)
    <2>1. /\ step[p] = "saveCustomer" /\ UNCHANGED <<bills, ledger, deducted, charged>>
          /\ balance' = IF dirty[p] THEN after[p] ELSE balance
          /\ balance \in Int /\ ledger \in Int /\ after[p] \in Int
      BY <1>5 DEF SaveCustomer, TypeOK, history
    <2>2. \A b : SoldOf(b)' = SoldOf(b)
      BY <1>0, <2>1 DEF SoldOf
    <2>3. CASE handler[p] = "pay"
      <3>1. Return(p)
        BY <1>5, <2>3 DEF SaveCustomer
      <3>2. ASSUME Turn(p) PROVE Calm'
        <4>1. balance' = ledger /\ balance' <= balance
          BY <2>1, <2>3, <3>2 DEF OnBalance, Paying
        <4>2. OverApproved'
          BY <1>0, <2>1, <3>2, <4>1, LimitAssumption DEF OnLimit, OverApproved
        <4>3. \A b \in Bills : SoldOf(b)
          BY <2>3, <3>2, NoneAssumption DEF OnSales, OnRequest
        <4> QED
          BY <2>1, <2>2, <4>1, <4>2, <4>3 DEF Calm
      <3> QED
        BY <1>0, <2>1, <3>1, <3>2, TurnReturn DEF Serial
    <2>4. CASE handler[p] # "pay"
      <3>1. /\ Goto(p, "charge") /\ step'[p] = "charge"
            /\ UNCHANGED <<handler, subject, request, target, amount, after, dirty>>
        BY <1>5, <2>4 DEF SaveCustomer, Goto, TypeOK
      <3>2. SaleType[subject[p]] = "credit"
        BY <2>1, <2>4 DEF BackedAllAlong, Done
      <3>3. ASSUME Turn(p) PROVE Turn(p)'
        <4>1. balance' = ledger + Amount[subject[p]] /\ balance = ledger
          BY <2>1, <2>4, <3>3 DEF OnBalance, Paying
        <4> QED
          BY <1>0, <2>1, <2>2, <2>4, <3>1, <3>2, <3>3, <4>1
          DEF OnBalance, OnLimit, OnSales, OnRequest, Selling, Paying
      <3> QED
        BY <1>0, <2>1, <3>1, <3>3, TurnGoto DEF Serial
    <2> QED
      BY <2>3, <2>4
  <1>6. CASE SaveBill(p)
    <2>1. /\ step[p] = "saveBill" /\ subject[p] \in Bills /\ handler[p] # "pay"
          /\ UNCHANGED <<balance, ledger, deducted, charged>>
          /\ bills'[subject[p]] = IF dirty[p] THEN target[p] ELSE bills[subject[p]]
          /\ \A b \in Bills \ {subject[p]} : bills'[b] = bills[b]
      BY <1>6 DEF SaveBill, TypeOK, AboutBill, history
    <2>2. OverApproved' = OverApproved /\ \A b \in Bills \ {subject[p]} : SoldOf(b)' = SoldOf(b)
      BY <1>0, <2>1 DEF OverApproved, SoldOf
    <2>3. CASE handler[p] = "reject"
      <3>1. /\ Goto(p, "diffApproval") /\ step'[p] = "diffApproval"
            /\ UNCHANGED <<handler, subject, request, target, amount, after, dirty>>
        BY <1>6, <2>3 DEF SaveBill, Goto, TypeOK
      <3>2. ASSUME Turn(p) PROVE Turn(p)'
        BY <1>0, <2>1, <2>2, <2>3, <3>1, <3>2 DEF OnBalance, OnLimit, OnSales, OnRequest, Selling, Paying
      <3> QED
        BY <1>0, <2>1, <3>1, <3>2, TurnGoto DEF Serial
    <2>4. CASE handler[p] # "reject"
      <3>1. Return(p)
        BY <1>6, <2>4 DEF SaveBill
      <3>2. ASSUME Turn(p) PROVE Calm'
        <4>1. bills'[subject[p]] = target[p]
          BY <2>1, <3>2 DEF OnSales
        <4>2. \A b \in Bills : SoldOf(b)'
          BY <1>0, <2>1, <2>2, <2>4, <3>2, <4>1 DEF OnSales, SoldOf
        <4> QED
          BY <2>1, <2>2, <3>2, <4>2 DEF OnBalance, OnLimit, Paying, Calm
      <3> QED
        BY <1>0, <2>1, <3>1, <3>2, TurnReturn DEF Serial
    <2> QED
      BY <2>3, <2>4
  <1> QED
    BY <1>1, <1>2, <1>3, <1>4, <1>5, <1>6

\* A step that ends a handler, and one that decides a request.
LEMMA SerialEnd ==
    ASSUME TypeOK, Serial, NEW p \in Workers,
           SendForApproval(p) \/ End(p) \/ OutOfStock(p) \/ SaveApproval(p)
    PROVE  Serial'
  <1>1. /\ step[p] \in {"checkApproval", "end", "deduct", "saveApproval"} /\ Return(p)
        /\ UNCHANGED <<bills, balance, ledger, deducted, charged, disturbed>>
    BY DEF SendForApproval, End, OutOfStock, SaveApproval, tables, history
  <1>2. ASSUME step[p] # "saveApproval", Turn(p) PROVE Calm'
    <2>1. \/ approvals' = approvals
          \/ \E a \in Approvals : /\ approvals[a].status \notin {"Approved", "Rejected"}
                                 /\ \A x \in Approvals \ {a} : approvals'[x] = approvals[x]
      BY <1>2 DEF SendForApproval, End, OutOfStock, SaveApproval, tables, NoRequest, TypeOK
    <2>2. (OverApproved => OverApproved') /\ \A b : Rejected(b) => Rejected(b)'
      BY <1>1, <2>1, DecisionsStay
    <2>3. \A b \in Bills : SoldOf(b) /\ (SoldOf(b) => SoldOf(b)')
      BY <1>1, <1>2, <2>2 DEF Turn, OnSales, SoldOf
    <2> QED
      BY <1>1, <1>2, <2>2, <2>3 DEF Turn, OnBalance, OnLimit, Paying, Calm
  <1>3. ASSUME step[p] = "saveApproval", Turn(p) PROVE Calm'
    <2>1. /\ request[p] \in Approvals /\ approvals[request[p]].status = "Pending" /\ dirty[p]
          /\ \/ handler[p] = "approve" /\ subject[p] = None
             \/ handler[p] = "reject" /\ approvals[request[p]].bill = subject[p]
      BY <1>3 DEF Turn, OnRequest
    <2>2. /\ approvals' = [approvals EXCEPT ![request[p]].status = Decision(p)]
          /\ \A x \in Approvals \ {request[p]} : approvals'[x] = approvals[x]
      BY <1>3, <2>1 DEF SendForApproval, End, OutOfStock, SaveApproval, TypeOK
    <2>3. (OverApproved => OverApproved') /\ \A b : Rejected(b) => Rejected(b)'
      BY <1>1, <2>1, <2>2, DecisionsStay
    <2>4. handler[p] = "reject" => \A b : b = subject[p] => Rejected(b)'
      <3> SUFFICES ASSUME handler[p] = "reject"
                   PROVE  approvals'[request[p]] = [bill |-> subject[p], status |-> "Rejected"]
        BY <2>1 DEF Rejected
      <3> QED
        BY <2>1, <2>2 DEF Decision, TypeOK
    <2>5. \A b \in Bills \ {subject[p]} : SoldOf(b)'
      BY <1>1, <1>3, <2>3 DEF Turn, OnSales, SoldOf
    <2>6. \A b \in Bills : SoldOf(b)'
      BY <2>1, <2>4, <2>5, NoneAssumption DEF SoldOf
    <2> QED
      BY <1>1, <1>3, <2>3, <2>6 DEF Turn, OnBalance, OnLimit, Paying, Calm
  <1> QED
    BY <1>1, <1>2, <1>3, TurnReturn DEF Serial

LEMMA SerialStep == TypeOK /\ BackedAllAlong /\ Serial /\ [Next]_vars => Serial'
  <1> SUFFICES ASSUME TypeOK, BackedAllAlong, Serial, [Next]_vars PROVE Serial'
    OBVIOUS
  <1>1. ASSUME NEW p \in Workers, Crash(p) PROVE Serial'
    BY <1>1 DEF Crash, Serial
  <1>2. CASE UNCHANGED vars
    BY <1>2 DEF vars, tables, worker, history, Serial, Calm, Turn, OverApproved, SoldOf, Rejected, Approved,
                OnBalance, OnLimit, OnSales, OnRequest, Selling, Paying
  <1> QED
    BY <1>1, <1>2, SerialCreate, SerialStart, SerialMove, SerialWrite, SerialEnd DEF Next, Work

LEMMA SerialInit == Init => Serial
  BY LimitAssumption DEF Init, Serial, Calm, OverApproved, SoldOf

\* Turns leave the balance equal to the ledger, the limit kept but for an approval,
\* and the goods gone only for bills completed or rejected.
LEMMA SerialSettled == Spec => [](Settled => Calm)
  <1>1. Serial => (Settled => Calm)
    BY DEF Serial, Settled
  <1> QED
    BY <1>1, TypeInit, TypeStep, BackedInit, BackedStep, SerialInit, SerialStep, PTL DEF Spec

\* Handlers that take turns leave the customer's balance equal to the sum of its
\* credit transactions, though each is written in a commit of its own.
THEOREM BalanceFollowsLedger == Spec => []BalanceIsLedger
  <1>1. (Settled => Calm) => BalanceIsLedger
    BY DEF Calm, BalanceIsLedger
  <1> QED
    BY <1>1, SerialSettled, PTL

\* Handlers that take turns put the customer over the limit only with an approved
\* request of a bill that was charged.
THEOREM LimitNeedsApproval == Spec => []OverLimitApproved
  <1>1. (Settled => Calm) => OverLimitApproved
    BY DEF Calm, OverApproved, OverLimitApproved
  <1> QED
    BY <1>1, SerialSettled, PTL

\* Handlers that take turns take goods only for bills that are completed, or that a
\* rejected request has cancelled since.
THEOREM GoodsAreSold == Spec => []SoldIsCompleted
  <1>1. (Settled => Calm) => SoldIsCompleted
    BY DEF Calm, SoldOf, Rejected, SoldIsCompleted
  <1> QED
    BY <1>1, SerialSettled, PTL
=============================================================================
