-------------------------- MODULE TransferRequests --------------------------
(***************************************************************************)
(* Stock transfer requests and the transfers behind them.  A store raises  *)
(* a request, another accepts it (stock leaves, a Pending transfer is      *)
(* made), the first claims it (stock arrives, the transfer is Completed).  *)
(* Each handler is a row of separate commits with awaits between them, so  *)
(* each commit is an action.  The transfer of a request can also be        *)
(* completed or cancelled through the general transfer endpoints.          *)
(*                                                                         *)
(* A call of StockOrchestrationService is one step here: what happens      *)
(* inside it, reservations included, is StockLedger's subject, and stock is *)
(* one number per location.  A failing await is a Crash: nothing undoes    *)
(* what the handler committed.  Notifications are left out.                *)
(***************************************************************************)
EXTENDS Integers, FiniteSets, Functions

CONSTANTS
    Locations,   \* stores, each with its row of the one product
    Requests,    \* identities of stock_transfer_requests
    Transfers,   \* identities of stock_transfers
    Workers,     \* handlers that can be running at once
    Home,        \* the requesting location of each request
    Quantity,    \* the quantity each request asks for
    Opening,     \* stock at the start
    MaxJobs,     \* bound on the handlers started
    None         \* no row, no location, no transfer

ASSUME NoneAssumption == None \notin Locations \cup Requests \cup Transfers \cup Workers
ASSUME HomeAssumption == Home \in [Requests -> Locations]
ASSUME QuantityAssumption == Quantity \in [Requests -> Nat \ {0}]
ASSUME OpeningAssumption == Opening \in [Locations -> Nat]
ASSUME MaxJobsAssumption == MaxJobs \in Nat
ASSUME FiniteAssumption == IsFiniteSet(Locations) /\ IsFiniteSet(Requests)

RequestStatus  == {"None", "Open", "Accepted", "Completed", "Cancelled"}
TransferStatus == {"None", "Pending", "Completed", "Cancelled"}

\* The columns of a request that handlers change.
RequestRow == [status : RequestStatus, by : Locations \cup {None}, transfer : Transfers \cup {None}]
Columns == {"status", "by", "transfer"}
NoRow == [status |-> "None", by |-> None, transfer |-> None]

Handlers == {"none", "accept", "claim", "cancelRequest", "complete", "cancelTransfer"}
Steps == {"idle", "check", "remove", "create", "add", "moveStock",
          "diffTransfer", "saveTransfer", "diffRequest", "saveRequest"}

SumOver(S, f) == FoldFunctionOnSet(+, 0, f, S)

VARIABLES
    requests,   \* committed stock_transfer_requests
    transfers,  \* status of each stock_transfer
    stock,      \* quantity on hand at each location
    handler, step,  \* what each worker runs and where it is
    subject,    \* the request it is about (None for the general endpoints)
    location,   \* the accepting location
    entity,     \* the request as read, then as changed
    transfer,   \* the transfer it made or is about
    dirty,      \* columns save has decided to write
    jobs,       \* handlers started so far
    debited, credited,  \* history: times a request's stock left and arrived
    madeFor,    \* history: the request a transfer was made for
    disturbed   \* history: requests that two handlers, a crash or a general
                \* endpoint got mixed up with

tables  == <<requests, transfers, stock>>
worker  == <<handler, step, subject, location, entity, transfer, dirty>>
history == <<debited, credited, madeFor, disturbed>>
vars    == <<tables, worker, jobs, history>>

Init ==
    /\ requests = [r \in Requests |-> NoRow]
    /\ transfers = [t \in Transfers |-> "None"]
    /\ stock = Opening
    /\ handler = [p \in Workers |-> "none"]
    /\ step = [p \in Workers |-> "idle"]
    /\ subject = [p \in Workers |-> None]
    /\ location = [p \in Workers |-> None]
    /\ entity = [p \in Workers |-> NoRow]
    /\ transfer = [p \in Workers |-> None]
    /\ dirty = [p \in Workers |-> {}]
    /\ jobs = 0
    /\ debited = [r \in Requests |-> 0]
    /\ credited = [r \in Requests |-> 0]
    /\ madeFor = [t \in Transfers |-> None]
    /\ disturbed = {}

-----------------------------------------------------------------------------
Busy(r) == \E p \in Workers : subject[p] = r

Goto(p, s) == step' = [step EXCEPT ![p] = s]

\* The handler is over: answered, rejected or dead.
Return(p) ==
    /\ handler' = [handler EXCEPT ![p] = "none"]
    /\ step' = [step EXCEPT ![p] = "idle"]
    /\ subject' = [subject EXCEPT ![p] = None]
    /\ location' = [location EXCEPT ![p] = None]
    /\ entity' = [entity EXCEPT ![p] = NoRow]
    /\ transfer' = [transfer EXCEPT ![p] = None]
    /\ dirty' = [dirty EXCEPT ![p] = {}]

\* A handler of a request starts by reading it and checking its status.
Start(p, h, r, l, first) ==
    /\ step[p] = "idle"
    /\ jobs < MaxJobs
    /\ jobs' = jobs + 1
    /\ handler' = [handler EXCEPT ![p] = h]
    /\ step' = [step EXCEPT ![p] = first]
    /\ subject' = [subject EXCEPT ![p] = r]
    /\ location' = [location EXCEPT ![p] = l]
    /\ entity' = [entity EXCEPT ![p] = requests[r]]
    /\ transfer' = [transfer EXCEPT ![p] = requests[r].transfer]
    /\ disturbed' = IF Busy(r) THEN disturbed \cup {r} ELSE disturbed
    /\ UNCHANGED <<tables, dirty, debited, credited, madeFor>>

\* A general endpoint starts by reading the transfer and checking its status.
StartTransfer(p, h, t, first) ==
    /\ step[p] = "idle"
    /\ jobs < MaxJobs
    /\ jobs' = jobs + 1
    /\ transfers[t] = "Pending"
    /\ handler' = [handler EXCEPT ![p] = h]
    /\ step' = [step EXCEPT ![p] = first]
    /\ transfer' = [transfer EXCEPT ![p] = t]
    /\ disturbed' = disturbed \cup ({madeFor[t]} \cap Requests)
    /\ UNCHANGED <<tables, subject, location, entity, dirty, debited, credited, madeFor>>

-----------------------------------------------------------------------------
Raise(r) ==
    /\ requests[r].status = "None"
    /\ requests' = [requests EXCEPT ![r].status = "Open"]
    /\ UNCHANGED <<transfers, stock, worker, jobs, history>>

CreateTransfer(t) ==
    /\ transfers[t] = "None"
    /\ jobs < MaxJobs
    /\ jobs' = jobs + 1
    /\ transfers' = [transfers EXCEPT ![t] = "Pending"]
    /\ UNCHANGED <<requests, stock, worker, history>>

Accept(p, r, l) ==
    /\ requests[r].status = "Open"
    /\ l # Home[r]
    /\ Start(p, "accept", r, l, "check")

\* Mutant: the claim does not check the status of the request.
ClaimUnchecked(p, r) ==
    /\ requests[r].status # "None"
    /\ Start(p, "claim", r, None, "add")

Claim(p, r) ==
    /\ requests[r].status = "Accepted"
    /\ Start(p, "claim", r, None, "add")

\* Mutant: a request can be cancelled in any state.
CancelUnchecked(p, r) ==
    /\ requests[r].status # "None"
    /\ Start(p, "cancelRequest", r, None, "diffRequest")

CancelRequest(p, r) ==
    /\ requests[r].status = "Open"
    /\ Start(p, "cancelRequest", r, None, "diffRequest")

Complete(p, t) == StartTransfer(p, "complete", t, "moveStock")
CancelTransfer(p, t) == StartTransfer(p, "cancelTransfer", t, "diffTransfer")

-----------------------------------------------------------------------------
Enough(p) == stock[location[p]] >= Quantity[subject[p]]

CheckStock(p) ==
    /\ step[p] = "check"
    /\ Enough(p)
    /\ Goto(p, "remove")
    /\ UNCHANGED <<tables, handler, subject, location, entity, transfer, dirty, jobs, history>>

RemoveStock(p) ==
    /\ step[p] = "remove"
    /\ Enough(p)
    /\ stock' = [stock EXCEPT ![location[p]] = @ - Quantity[subject[p]]]
    /\ debited' = [debited EXCEPT ![subject[p]] = @ + 1]
    /\ Goto(p, "create")
    /\ UNCHANGED <<requests, transfers, handler, subject, location, entity, transfer, dirty,
                   jobs, credited, madeFor, disturbed>>

Reject(p) ==
    /\ step[p] \in {"check", "remove"}
    /\ ~Enough(p)
    /\ Return(p)
    /\ UNCHANGED <<tables, jobs, history>>

CreateFulfilment(p) ==
    /\ step[p] = "create"
    /\ \E t \in Transfers :
          /\ transfers[t] = "None"
          /\ transfers' = [transfers EXCEPT ![t] = "Pending"]
          /\ madeFor' = [madeFor EXCEPT ![t] = subject[p]]
          /\ transfer' = [transfer EXCEPT ![p] = t]
    /\ Goto(p, "diffRequest")
    /\ UNCHANGED <<requests, stock, handler, subject, location, entity, dirty, jobs,
                   debited, credited, disturbed>>

AddStock(p) ==
    /\ step[p] = "add"
    /\ stock' = [stock EXCEPT ![Home[subject[p]]] = @ + Quantity[subject[p]]]
    /\ credited' = [credited EXCEPT ![subject[p]] = @ + 1]
    /\ Goto(p, IF transfer[p] = None THEN "diffRequest" ELSE "diffTransfer")
    /\ UNCHANGED <<requests, transfers, handler, subject, location, entity, transfer, dirty,
                   jobs, debited, madeFor, disturbed>>

\* completeTransferBatch with one item of the caller's choosing (the body names
\* the locations): stock and status in one transaction, whatever the status by now.
MoveStock(p, l, m, q) ==
    /\ step[p] = "moveStock"
    /\ stock[l] >= q
    /\ stock' = [stock EXCEPT ![l] = @ - q, ![m] = @ + q]
    /\ transfers' = [transfers EXCEPT ![transfer[p]] = "Completed"]
    /\ Return(p)
    /\ UNCHANGED <<requests, jobs, history>>

MoveRejected(p, l, q) ==
    /\ step[p] = "moveStock"
    /\ stock[l] < q
    /\ Return(p)
    /\ UNCHANGED <<tables, jobs, history>>

-----------------------------------------------------------------------------
(* save: SELECT the row, then UPDATE the columns that differ.              *)

TransferTarget(p) == IF handler[p] = "claim" THEN "Completed" ELSE "Cancelled"

DiffTransfer(p) ==
    /\ step[p] = "diffTransfer"
    /\ dirty' = [dirty EXCEPT ![p] =
          IF transfers[transfer[p]] = TransferTarget(p) THEN {} ELSE {"status"}]
    /\ Goto(p, "saveTransfer")
    /\ UNCHANGED <<tables, handler, subject, location, entity, transfer, jobs, history>>

SaveTransfer(p) ==
    /\ step[p] = "saveTransfer"
    /\ transfers' = IF dirty[p] = {} THEN transfers
                    ELSE [transfers EXCEPT ![transfer[p]] = TransferTarget(p)]
    /\ IF handler[p] = "claim"
       THEN Goto(p, "diffRequest") /\ UNCHANGED <<handler, subject, location, entity, transfer, dirty>>
       ELSE Return(p)
    /\ UNCHANGED <<requests, stock, jobs, history>>

\* Mutant: the claim sets the enum's other status, which nothing reads.
ChangedToClaimed(p) ==
    CASE handler[p] = "accept"        -> [status |-> "Accepted", by |-> location[p], transfer |-> transfer[p]]
      [] handler[p] = "claim"         -> [entity[p] EXCEPT !.status = "Claimed"]
      [] handler[p] = "cancelRequest" -> [entity[p] EXCEPT !.status = "Cancelled"]
      [] OTHER                        -> entity[p]

\* The request as the handler will save it: the row it read with its changes.
Changed(p) ==
    CASE handler[p] = "accept"        -> [status |-> "Accepted", by |-> location[p], transfer |-> transfer[p]]
      [] handler[p] = "claim"         -> [entity[p] EXCEPT !.status = "Completed"]
      [] handler[p] = "cancelRequest" -> [entity[p] EXCEPT !.status = "Cancelled"]
      [] OTHER                        -> entity[p]

DiffRequest(p) ==
    /\ step[p] = "diffRequest"
    /\ entity' = [entity EXCEPT ![p] = Changed(p)]
    /\ dirty' = [dirty EXCEPT ![p] = {c \in Columns : Changed(p)[c] # requests[subject[p]][c]}]
    /\ Goto(p, "saveRequest")
    /\ UNCHANGED <<tables, handler, subject, location, transfer, jobs, history>>

\* Mutant: the handler returns without saving the request's new status.
SaveRequestForgotten(p) ==
    /\ step[p] = "saveRequest"
    /\ Return(p)
    /\ UNCHANGED <<tables, jobs, history>>

SaveRequest(p) ==
    /\ step[p] = "saveRequest"
    /\ requests' = [requests EXCEPT ![subject[p]] =
          [c \in Columns |-> IF c \in dirty[p] THEN entity[p][c] ELSE @[c]]]
    /\ Return(p)
    /\ UNCHANGED <<transfers, stock, jobs, history>>

\* The process dies: what was committed stays, the rest of the handler is lost.
Crash(p) ==
    /\ step[p] # "idle"
    /\ disturbed' = disturbed \cup ({subject[p]} \cap Requests)
    /\ Return(p)
    /\ UNCHANGED <<tables, jobs, debited, credited, madeFor>>

Work(p) ==
    \/ CheckStock(p) \/ RemoveStock(p) \/ Reject(p) \/ CreateFulfilment(p) \/ AddStock(p)
    \/ \E l, m \in Locations, q \in {Quantity[r] : r \in Requests} :
          (l # m /\ MoveStock(p, l, m, q)) \/ MoveRejected(p, l, q)
    \/ DiffTransfer(p) \/ SaveTransfer(p) \/ DiffRequest(p) \/ SaveRequest(p)

Next ==
    \/ \E r \in Requests : Raise(r)
    \/ \E t \in Transfers : CreateTransfer(t)
    \/ \E p \in Workers, r \in Requests :
          (\E l \in Locations : Accept(p, r, l)) \/ Claim(p, r) \/ CancelRequest(p, r)
    \/ \E p \in Workers, t \in Transfers : Complete(p, t) \/ CancelTransfer(p, t)
    \/ \E p \in Workers : Work(p) \/ Crash(p)

Spec == Init /\ [][Next]_vars
-----------------------------------------------------------------------------
(* Properties.                                                             *)

\* Every table and every handler's memory has the type the code gives it.
TypeOK ==
    /\ requests \in [Requests -> RequestRow]
    /\ transfers \in [Transfers -> TransferStatus]
    /\ stock \in [Locations -> Int]
    /\ handler \in [Workers -> Handlers]
    /\ step \in [Workers -> Steps]
    /\ subject \in [Workers -> Requests \cup {None}]
    /\ location \in [Workers -> Locations \cup {None}]
    /\ entity \in [Workers -> RequestRow]
    /\ transfer \in [Workers -> Transfers \cup {None}]
    /\ dirty \in [Workers -> SUBSET Columns]
    /\ jobs \in Nat
    /\ debited \in [Requests -> Nat] /\ credited \in [Requests -> Nat]
    /\ madeFor \in [Transfers -> Requests \cup {None}]
    /\ disturbed \in SUBSET Requests
    /\ \A p \in Workers :
          /\ (handler[p] = "claim" \/
               step[p] \in {"check", "remove", "create", "add", "diffRequest", "saveRequest"})
                => subject[p] \in Requests
          /\ step[p] \in {"check", "remove", "create"} => location[p] \in Locations
          /\ step[p] \in {"moveStock", "diffTransfer", "saveTransfer"} => transfer[p] \in Transfers

\* No store is ever credited for a request before some store's stock was taken
\* for it, whatever handlers overlap, repeat, die or overwrite one another
\* (claim-stock-transfer-request.command-handler.ts:34-52).
CreditNeedsDebit == \A r \in Requests : credited[r] > 0 => debited[r] > 0

\* The stock a request in this state has taken out of the stores.
InTransit(r) == IF requests[r].status = "Accepted" THEN Quantity[r] ELSE 0

\* While no handler runs and none was ever mixed up with another, cut short or
\* bypassed, the stores' stock is what they opened with less what the accepted
\* requests have under way, and the transfer behind a request agrees with it.
StockAccountedFor ==
    disturbed = {} /\ (\A p \in Workers : step[p] = "idle") =>
        /\ SumOver(Locations, stock) + SumOver(Requests, [r \in Requests |-> InTransit(r)])
              = SumOver(Locations, Opening)
        /\ \A r \in Requests :
              /\ requests[r].status = "Accepted" => transfers[requests[r].transfer] = "Pending"
              /\ requests[r].status = "Completed" => transfers[requests[r].transfer] = "Completed"

\* A request that handlers take in turn goes Open, Accepted, Completed, or Open,
\* Cancelled, and never back.
LifecycleKept ==
    [][\A r \in Requests \ disturbed' :
          requests'[r].status # requests[r].status =>
             <<requests[r].status, requests'[r].status>> \in
                { <<"None", "Open">>, <<"Open", "Accepted">>, <<"Open", "Cancelled">>,
                  <<"Accepted", "Completed">> }]_vars
=============================================================================
