--------------------------- MODULE BillCompletion ---------------------------
(***************************************************************************)
(* Completing bills.  A completion checks the customer's credit limit,     *)
(* takes the goods out of stock in one transaction and then, in separate   *)
(* commits, records the commission of a black sale or charges the          *)
(* customer, and saves the bill.  Over the limit it leaves a request for   *)
(* approval instead; an approval lets a later completion pass, a rejection *)
(* cancels the bill.  Payments lower the balance that sales raise.  The    *)
(* confirmed delivery of an order completes its bill with none of this.    *)
(*                                                                         *)
(* One customer, one product per kind of stock; a bill's items and amounts *)
(* are constant here, and a black bill names a facilitator and a           *)
(* commission.  BillCompletionService's stock transaction is one step:     *)
(* StockLedger is about what happens in it.                                *)
(***************************************************************************)
EXTENDS Integers

CONSTANTS
    Bills, Approvals, Workers,
    SaleType,    \* of each bill
    Amount,      \* total and quantity of each bill
    FromOrder,   \* bills made by the creation of an order
    Limit,       \* the customer's credit limit
    SkipsApproval, \* skipOverLimitApproval of the customer or of its type
    Payments,    \* amounts a payment may have
    Stock,       \* stock of each kind at the start
    MaxJobs,     \* bound on the handlers started
    None         \* no bill, no request

ASSUME NoneAssumption == None \notin Bills \cup Approvals
ASSUME SaleTypeAssumption == SaleType \in [Bills -> {"normal", "credit", "black"}]
ASSUME AmountAssumption == Amount \in [Bills -> Nat \ {0}] /\ Payments \subseteq Nat \ {0}
ASSUME LimitAssumption == Limit \in Nat /\ SkipsApproval \in BOOLEAN
ASSUME StockAssumption == Stock \in [{"official", "black"} -> Nat]
ASSUME MaxJobsAssumption == MaxJobs \in Nat

BillStatus == {"None", "Initiated", "Draft", "Completed", "Cancelled"}
ApprovalStatus == {"None", "Pending", "Approved", "Rejected"}

\* Mutant: a terminal status can be left.
AllowedFromAll == [s \in BillStatus |-> IF s = "None" THEN {} ELSE BillStatus \ {"None"}]

AllowedFrom == [s \in BillStatus |->
    CASE s = "Initiated" -> {"Draft", "Completed", "Cancelled"}
      [] s = "Draft"     -> {"Initiated", "Completed", "Cancelled"}
      [] OTHER           -> {}]

VARIABLES
    bills,       \* status of each bill
    approvals,   \* credit_approval_requests: their bill and status
    stock,       \* quantity on hand of each kind
    balance,     \* the customer's creditBalance
    ledger,      \* customer_credit_transactions: their sum
    commissions, \* commission_payables of each bill
    handler, step, subject, request,
    target,      \* the bill status a handler will save
    amount,      \* the amount of a payment
    after,       \* the balance a handler will save
    dirty,       \* whether save has found a changed column
    jobs,
    deducted, charged, \* history: times a bill's goods left, its amount was recorded
    delivered,   \* history: bills whose order's delivery was confirmed
    disturbed    \* history: handlers overlapped, or one died

tables  == <<bills, approvals, stock, balance, ledger, commissions>>
worker  == <<handler, step, subject, request, target, amount, after, dirty>>
history == <<deducted, charged, delivered, disturbed>>
vars    == <<tables, worker, jobs, history>>

NoRequest == [bill |-> None, status |-> "None"]

Init ==
    /\ bills = [b \in Bills |-> "None"]
    /\ approvals = [a \in Approvals |-> NoRequest]
    /\ stock = Stock
    /\ balance = 0 /\ ledger = 0
    /\ commissions = [b \in Bills |-> 0]
    /\ handler = [p \in Workers |-> "none"]
    /\ step = [p \in Workers |-> "idle"]
    /\ subject = [p \in Workers |-> None]
    /\ request = [p \in Workers |-> None]
    /\ target = [p \in Workers |-> "None"]
    /\ amount = [p \in Workers |-> 0]
    /\ after = [p \in Workers |-> 0]
    /\ dirty = [p \in Workers |-> FALSE]
    /\ jobs = 0
    /\ deducted = [b \in Bills |-> 0]
    /\ charged = [b \in Bills |-> 0]
    /\ delivered = [b \in Bills |-> FALSE]
    /\ disturbed = FALSE

-----------------------------------------------------------------------------
Goto(p, s) == step' = [step EXCEPT ![p] = s]

Return(p) ==
    /\ handler' = [handler EXCEPT ![p] = "none"]
    /\ step' = [step EXCEPT ![p] = "idle"]
    /\ subject' = [subject EXCEPT ![p] = None]
    /\ request' = [request EXCEPT ![p] = None]
    /\ target' = [target EXCEPT ![p] = "None"]
    /\ amount' = [amount EXCEPT ![p] = 0]
    /\ after' = [after EXCEPT ![p] = 0]
    /\ dirty' = [dirty EXCEPT ![p] = FALSE]

\* Handler h has read what it is about: bill b, request a, status s to save, the
\* customer, whose balance a payment of n lowers.
Start(p, h, b, a, s, n, first) ==
    /\ step[p] = "idle"
    /\ jobs < MaxJobs
    /\ jobs' = jobs + 1
    /\ handler' = [handler EXCEPT ![p] = h]
    /\ step' = [step EXCEPT ![p] = first]
    /\ subject' = [subject EXCEPT ![p] = b]
    /\ request' = [request EXCEPT ![p] = a]
    /\ target' = [target EXCEPT ![p] = s]
    /\ amount' = [amount EXCEPT ![p] = n]
    /\ after' = [after EXCEPT ![p] = balance - n]
    /\ delivered' = IF h = "deliver" THEN [delivered EXCEPT ![b] = TRUE] ELSE delivered
    /\ disturbed' = (disturbed \/ \E q \in Workers : step[q] # "idle")
    /\ UNCHANGED <<approvals, stock, balance, ledger, commissions, dirty, deducted, charged>>

Create(b) ==
    /\ bills[b] = "None"
    /\ b \notin FromOrder
    /\ bills' = [bills EXCEPT ![b] = "Initiated"]
    /\ UNCHANGED <<approvals, stock, balance, ledger, commissions, worker, jobs, history>>

\* An order makes its bill, and a credit sale is held against the limit at once.
CreateForOrder(p, b) ==
    /\ bills[b] = "None"
    /\ b \in FromOrder
    /\ bills' = [bills EXCEPT ![b] = "Initiated"]
    /\ Start(p, "create", b, None, "None", 0, IF SaleType[b] = "credit" THEN "checkCredit" ELSE "end")

\* PATCH /bills/:id/status.  A status can always be "moved" to itself.
Transition(p, b, s) ==
    /\ bills[b] # "None"
    /\ s = bills[b] \/ s \in AllowedFrom[bills[b]]
    /\ Start(p, "transition", b, None, s, 0,
             CASE s # "Completed"                            -> "diffBill"
               [] s = "Completed" /\ SaleType[b] = "credit" -> "checkCredit"
               [] OTHER                                      -> "deduct")
    /\ UNCHANGED bills

\* The one-time code of a stop was confirmed: its order's bill, read whatever its
\* status, becomes Completed.
Deliver(p, b) ==
    /\ bills[b] # "None"
    /\ b \in FromOrder
    /\ Start(p, "deliver", b, None, "Completed", 0, "diffBill")
    /\ UNCHANGED bills

Approve(p, a) ==
    /\ approvals[a].status = "Pending"
    /\ Start(p, "approve", None, a, "None", 0, "diffApproval")
    /\ UNCHANGED bills

Reject(p, a) ==
    /\ approvals[a].status = "Pending"
    /\ Start(p, "reject", approvals[a].bill, a, "Cancelled", 0, "diffBill")
    /\ UNCHANGED bills

\* POST /customers/:id/credit-transactions of type payment: record, then save.
Pay(p, n) ==
    /\ Start(p, "pay", None, None, "None", n, "record")
    /\ UNCHANGED bills

-----------------------------------------------------------------------------
\* Mutant: what the customer already owes is left out.
WithinLimitAlone(b) == Amount[b] <= Limit

WithinLimit(b) == balance + Amount[b] <= Limit

Passed(p) == Goto(p, IF handler[p] = "create" THEN "end" ELSE "deduct")

CheckCredit(p) ==
    /\ step[p] = "checkCredit"
    /\ IF WithinLimit(subject[p]) \/ SkipsApproval THEN Passed(p) ELSE Goto(p, "checkApproval")
    /\ UNCHANGED <<tables, handler, subject, request, target, amount, after, dirty, jobs, history>>

PriorApproved(p) ==
    /\ step[p] = "checkApproval"
    /\ \E a \in Approvals : approvals[a] = [bill |-> subject[p], status |-> "Approved"]
    /\ Passed(p)
    /\ UNCHANGED <<tables, handler, subject, request, target, amount, after, dirty, jobs, history>>

\* CreditLimitExceededError: a new request each time.
SendForApproval(p) ==
    /\ step[p] = "checkApproval"
    /\ \A a \in Approvals : approvals[a] # [bill |-> subject[p], status |-> "Approved"]
    /\ \E a \in Approvals :
          /\ approvals[a] = NoRequest
          /\ approvals' = [approvals EXCEPT ![a] = [bill |-> subject[p], status |-> "Pending"]]
    /\ Return(p)
    /\ UNCHANGED <<bills, stock, balance, ledger, commissions, jobs, history>>

End(p) ==
    /\ step[p] = "end"
    /\ Return(p)
    /\ UNCHANGED <<tables, jobs, history>>

Kind(b) == IF SaleType[b] = "black" THEN "black" ELSE "official"

\* Mutant: a credit sale is completed without a charge.
AfterDeductUncharged(b) == IF SaleType[b] = "black" THEN "commission" ELSE "diffBill"

AfterDeduct(b) ==
    CASE SaleType[b] = "black"  -> "commission"
      [] SaleType[b] = "credit" -> "readCustomer"
      [] OTHER                  -> "diffBill"

\* Mutant: the available quantity is not checked.
DeductUnchecked(p) ==
    /\ step[p] = "deduct"
    /\ LET b == subject[p] IN
         /\ stock' = [stock EXCEPT ![Kind(b)] = @ - Amount[b]]
         /\ deducted' = [deducted EXCEPT ![b] = @ + 1]
         /\ Goto(p, AfterDeduct(b))
    /\ UNCHANGED <<bills, approvals, balance, ledger, commissions,
                   handler, subject, request, target, amount, after, dirty, jobs, charged, delivered, disturbed>>

Deduct(p) ==
    /\ step[p] = "deduct"
    /\ LET b == subject[p] IN
         /\ stock[Kind(b)] >= Amount[b]
         /\ stock' = [stock EXCEPT ![Kind(b)] = @ - Amount[b]]
         /\ deducted' = [deducted EXCEPT ![b] = @ + 1]
         /\ Goto(p, AfterDeduct(b))
    /\ UNCHANGED <<bills, approvals, balance, ledger, commissions,
                   handler, subject, request, target, amount, after, dirty, jobs, charged, delivered, disturbed>>

OutOfStock(p) ==
    /\ step[p] = "deduct"
    /\ stock[Kind(subject[p])] < Amount[subject[p]]
    /\ Return(p)
    /\ UNCHANGED <<tables, jobs, history>>

RecordCommission(p) ==
    /\ step[p] = "commission"
    /\ commissions' = [commissions EXCEPT ![subject[p]] = @ + 1]
    /\ Goto(p, "diffBill")
    /\ UNCHANGED <<bills, approvals, stock, balance, ledger,
                   handler, subject, request, target, amount, after, dirty, jobs, history>>

-----------------------------------------------------------------------------
(* applyCredit reads, saves and records; a payment records and saves.      *)

ReadCustomer(p) ==
    /\ step[p] = "readCustomer"
    /\ after' = [after EXCEPT ![p] = balance + Amount[subject[p]]]
    /\ Goto(p, "diffCustomer")
    /\ UNCHANGED <<tables, handler, subject, request, target, amount, dirty, jobs, history>>

RecordPayment(p) ==
    /\ step[p] = "record"
    /\ ledger' = ledger - amount[p]
    /\ Goto(p, "diffCustomer")
    /\ UNCHANGED <<bills, approvals, stock, balance, commissions,
                   handler, subject, request, target, amount, after, dirty, jobs, history>>

DiffCustomer(p) ==
    /\ step[p] = "diffCustomer"
    /\ dirty' = [dirty EXCEPT ![p] = after[p] # balance]
    /\ Goto(p, "saveCustomer")
    /\ UNCHANGED <<tables, handler, subject, request, target, amount, after, jobs, history>>

SaveCustomer(p) ==
    /\ step[p] = "saveCustomer"
    /\ balance' = IF dirty[p] THEN after[p] ELSE balance
    /\ IF handler[p] = "pay" THEN Return(p)
       ELSE Goto(p, "charge") /\ UNCHANGED <<handler, subject, request, target, amount, after, dirty>>
    /\ UNCHANGED <<bills, approvals, stock, ledger, commissions, jobs, history>>

\* Mutant: the charge is not written to the customer's credit transactions.
ChargeNothing(p) ==
    /\ step[p] = "charge"
    /\ Goto(p, "diffBill")
    /\ UNCHANGED <<tables, handler, subject, request, target, amount, after, dirty, jobs, history>>

Charge(p) ==
    /\ step[p] = "charge"
    /\ ledger' = ledger + Amount[subject[p]]
    /\ charged' = [charged EXCEPT ![subject[p]] = @ + 1]
    /\ Goto(p, "diffBill")
    /\ UNCHANGED <<bills, approvals, stock, balance, commissions,
                   handler, subject, request, target, amount, after, dirty, jobs, deducted, delivered, disturbed>>

-----------------------------------------------------------------------------
DiffBill(p) ==
    /\ step[p] = "diffBill"
    /\ dirty' = [dirty EXCEPT ![p] = target[p] # bills[subject[p]]]
    /\ Goto(p, "saveBill")
    /\ UNCHANGED <<tables, handler, subject, request, target, amount, after, jobs, history>>

SaveBill(p) ==
    /\ step[p] = "saveBill"
    /\ bills' = IF dirty[p] THEN [bills EXCEPT ![subject[p]] = target[p]] ELSE bills
    /\ IF handler[p] = "reject"
       THEN Goto(p, "diffApproval") /\ UNCHANGED <<handler, subject, request, target, amount, after, dirty>>
       ELSE Return(p)
    /\ UNCHANGED <<approvals, stock, balance, ledger, commissions, jobs, history>>

Decision(p) == IF handler[p] = "approve" THEN "Approved" ELSE "Rejected"

DiffApproval(p) ==
    /\ step[p] = "diffApproval"
    /\ dirty' = [dirty EXCEPT ![p] = approvals[request[p]].status # Decision(p)]
    /\ Goto(p, "saveApproval")
    /\ UNCHANGED <<tables, handler, subject, request, target, amount, after, jobs, history>>

SaveApproval(p) ==
    /\ step[p] = "saveApproval"
    /\ approvals' = IF dirty[p] THEN [approvals EXCEPT ![request[p]].status = Decision(p)] ELSE approvals
    /\ Return(p)
    /\ UNCHANGED <<bills, stock, balance, ledger, commissions, jobs, history>>

\* The process dies or a statement fails: what was committed stays.
Crash(p) ==
    /\ step[p] # "idle"
    /\ disturbed' = TRUE
    /\ Return(p)
    /\ UNCHANGED <<tables, jobs, deducted, charged, delivered>>

Work(p) ==
    \/ CheckCredit(p) \/ PriorApproved(p) \/ SendForApproval(p) \/ End(p)
    \/ Deduct(p) \/ OutOfStock(p) \/ RecordCommission(p)
    \/ ReadCustomer(p) \/ DiffCustomer(p) \/ SaveCustomer(p) \/ Charge(p) \/ RecordPayment(p)
    \/ DiffBill(p) \/ SaveBill(p) \/ DiffApproval(p) \/ SaveApproval(p)

Next ==
    \/ \E b \in Bills : Create(b)
    \/ \E p \in Workers, b \in Bills :
          CreateForOrder(p, b) \/ Deliver(p, b) \/ \E s \in BillStatus \ {"None"} : Transition(p, b, s)
    \/ \E p \in Workers, a \in Approvals : Approve(p, a) \/ Reject(p, a)
    \/ \E p \in Workers, n \in Payments : Pay(p, n)
    \/ \E p \in Workers : Work(p) \/ Crash(p)

Spec == Init /\ [][Next]_vars

-----------------------------------------------------------------------------
Handlers == {"none", "create", "transition", "deliver", "approve", "reject", "pay"}
Steps == {"idle", "checkCredit", "checkApproval", "end", "deduct", "commission", "readCustomer", "record",
          "diffCustomer", "saveCustomer", "charge", "diffBill", "saveBill", "diffApproval", "saveApproval"}
AboutBill == {"checkCredit", "checkApproval", "deduct", "commission", "readCustomer", "charge",
              "diffBill", "saveBill"}

\* The type of every table and of every handler's memory; stock is never negative.
TypeOK ==
    /\ bills \in [Bills -> BillStatus]
    /\ approvals \in [Approvals -> [bill : Bills \cup {None}, status : ApprovalStatus]]
    /\ stock \in [{"official", "black"} -> Nat]
    /\ balance \in Int /\ ledger \in Int
    /\ commissions \in [Bills -> Nat]
    /\ handler \in [Workers -> Handlers] /\ step \in [Workers -> Steps]
    /\ subject \in [Workers -> Bills \cup {None}]
    /\ request \in [Workers -> Approvals \cup {None}]
    /\ target \in [Workers -> BillStatus]
    /\ amount \in [Workers -> Nat] /\ after \in [Workers -> Int]
    /\ dirty \in [Workers -> BOOLEAN]
    /\ jobs \in Nat
    /\ deducted \in [Bills -> Nat] /\ charged \in [Bills -> Nat] /\ delivered \in [Bills -> BOOLEAN]
    /\ disturbed \in BOOLEAN
    /\ \A a \in Approvals : approvals[a].status # "None" => approvals[a].bill \in Bills
    /\ \A p \in Workers :
          /\ step[p] \in AboutBill => subject[p] \in Bills
          /\ step[p] \in {"diffCustomer", "saveCustomer"} /\ handler[p] # "pay" => subject[p] \in Bills
          /\ step[p] \in {"diffApproval", "saveApproval"} => request[p] \in Approvals
          /\ step[p] = "record" => handler[p] = "pay"
          /\ handler[p] = "pay" => step[p] \in {"record", "diffCustomer", "saveCustomer"}
          /\ handler[p] = "reject" => request[p] \in Approvals
          /\ request[p] # None => approvals[request[p]].status # "None"

\* What a completed bill stands for, when it was not completed by a delivery.
Backed(b) ==
    \/ delivered[b]
    \/ /\ deducted[b] > 0
       /\ SaleType[b] = "credit" => charged[b] > 0
       /\ SaleType[b] = "black" => commissions[b] > 0

\* The goods of a completed bill have left the stock, and its customer is charged or
\* its commission recorded, whatever handlers overlap, repeat or die: the status is
\* saved last (bill-completion.service.ts:88-106).  Only a delivery does without.
CompletedIsBacked == \A b \in Bills : bills[b] = "Completed" => Backed(b)

Settled == ~disturbed /\ \A p \in Workers : step[p] = "idle"

\* Handlers that ran one after the other leave the customer's balance equal to the
\* sum of its credit transactions, which are written in other commits than it.
BalanceIsLedger == Settled => balance = ledger

\* Such handlers put the customer over its limit only with an approval, unless
\* the customer skips approvals.
OverLimitApproved ==
    Settled /\ ~SkipsApproval /\ balance > Limit =>
        \E a \in Approvals : approvals[a].status = "Approved" /\ charged[approvals[a].bill] > 0

\* Such handlers take goods only for bills that end up completed, or that a
\* rejected request has cancelled since.
SoldIsCompleted ==
    Settled => \A b \in Bills : deducted[b] > 0 =>
        bills[b] = "Completed" \/ \E a \in Approvals : approvals[a] = [bill |-> b, status |-> "Rejected"]
=============================================================================
