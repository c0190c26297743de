--------------------------- MODULE PurchaseOrders ---------------------------
(***************************************************************************)
(* One purchase order: goods are received item by item, then allocated to  *)
(* locations, which is what adds them to stock.  A handler reads the order,*)
(* works through the lines of its body with separate commits, reads all    *)
(* the items again and saves the order.  Locations are not told apart: the *)
(* stock of an item is what was added for it anywhere.                     *)
(***************************************************************************)
EXTENDS Integers, Sequences

CONSTANTS
    Items,        \* the order's purchase_items
    Ordered,      \* quantityOrdered of each
    Deliveries,   \* bodies a receive may have: sequences of lines
    Allocations,  \* bodies an allocate may have
    Patches,      \* statuses a PUT may set; "asRead" is a PUT without a status
    Workers,
    MaxJobs       \* bound on the handlers started

Status == {"draft", "ordered", "partially_received", "received",
           "partially_allocated", "allocated", "cancelled"}
Line    == [item : Items, qty : Nat]
ItemRow == [received : Nat, allocated : Nat]

ASSUME OrderedAssumption == Ordered \in [Items -> Nat]
ASSUME BodiesAssumption == \A body \in Deliveries \cup Allocations : body \in Seq(Line)
ASSUME PatchesAssumption == Patches \subseteq Status \cup {"asRead"}
ASSUME MaxJobsAssumption == MaxJobs \in Nat

VARIABLES
    status,     \* purchase_orders.status
    items,      \* purchase_items: received and allocated so far
    records,    \* purchase_item_allocations: their sum per item
    stocked,    \* quantity the orchestrator added to stock per item
    handler, step,
    lines,      \* lines of the body still to do
    order,      \* the status as read, then as it will be saved
    row,        \* the item as read
    dirty,      \* columns save has decided to write
    jobs,
    delivered,  \* history: sum of the receipts saved per item
    disturbed   \* history: handlers overlapped, or one died

tables == <<status, items, records, stocked>>
worker == <<handler, step, lines, order, row, dirty>>
vars   == <<tables, worker, jobs, delivered, disturbed>>

NoRow == [received |-> 0, allocated |-> 0]
Zero  == [i \in Items |-> 0]

Init ==
    /\ status = "draft"
    /\ items = [i \in Items |-> NoRow]
    /\ records = Zero /\ stocked = Zero
    /\ handler = [p \in Workers |-> "none"]
    /\ step = [p \in Workers |-> "idle"]
    /\ lines = [p \in Workers |-> <<>>]
    /\ order = [p \in Workers |-> "draft"]
    /\ row = [p \in Workers |-> NoRow]
    /\ dirty = [p \in Workers |-> {}]
    /\ jobs = 0
    /\ delivered = Zero
    /\ disturbed = FALSE

-----------------------------------------------------------------------------
Goto(p, s) == step' = [step EXCEPT ![p] = s]

Return(p) ==
    /\ handler' = [handler EXCEPT ![p] = "none"]
    /\ step' = [step EXCEPT ![p] = "idle"]
    /\ lines' = [lines EXCEPT ![p] = <<>>]
    /\ order' = [order EXCEPT ![p] = "draft"]
    /\ row' = [row EXCEPT ![p] = NoRow]
    /\ dirty' = [dirty EXCEPT ![p] = {}]

\* Read the order, begin with the first line of the body; s is the status to save.
Start(p, h, body, s, first) ==
    /\ step[p] = "idle"
    /\ jobs < MaxJobs
    /\ jobs' = jobs + 1
    /\ handler' = [handler EXCEPT ![p] = h]
    /\ step' = [step EXCEPT ![p] = first]
    /\ lines' = [lines EXCEPT ![p] = body]
    /\ order' = [order EXCEPT ![p] = s]
    /\ disturbed' = (disturbed \/ \E q \in Workers : step[q] # "idle")
    /\ UNCHANGED <<tables, row, dirty, delivered>>

Receive(p, body) ==
    /\ status \notin {"allocated", "cancelled"}
    /\ Start(p, "receive", body, status, "readItem")

Allocate(p, body) ==
    /\ status \in {"partially_received", "received", "partially_allocated"}
    /\ Start(p, "allocate", body, status, "readItem")

\* PUT /purchase-orders/:id: any status, from any status.
Update(p, s) ==
    Start(p, "update", <<>>, IF s = "asRead" THEN status ELSE s, "diffOrder")

-----------------------------------------------------------------------------
Item(p) == Head(lines[p]).item
Qty(p)  == Head(lines[p]).qty

Allocatable(r) == r.received - r.allocated

ReadItem(p) ==
    /\ step[p] = "readItem"
    /\ lines[p] # <<>>
    /\ row' = [row EXCEPT ![p] = items[Item(p)]]
    /\ IF handler[p] = "receive" THEN Goto(p, "diffItem")
       ELSE /\ Qty(p) <= Allocatable(items[Item(p)])
            /\ Goto(p, "addStock")
    /\ UNCHANGED <<tables, handler, lines, order, dirty, jobs, delivered, disturbed>>

\* BadRequestException: the lines done so far stay, the order is not saved.
Reject(p) ==
    /\ step[p] = "readItem"
    /\ lines[p] # <<>>
    /\ handler[p] = "allocate"
    /\ Qty(p) > Allocatable(items[Item(p)])
    /\ Return(p)
    /\ UNCHANGED <<tables, jobs, delivered, disturbed>>

\* Mutant: a failure of the orchestrator is swallowed.
AddStockSwallowed(p) ==
    /\ step[p] = "addStock"
    /\ Goto(p, "record")
    /\ UNCHANGED <<tables, handler, lines, order, row, dirty, jobs, delivered, disturbed>>

AddStock(p) ==
    /\ step[p] = "addStock"
    /\ stocked' = [stocked EXCEPT ![Item(p)] = @ + Qty(p)]
    /\ Goto(p, "record")
    /\ UNCHANGED <<status, items, records, handler, lines, order, row, dirty, jobs, delivered, disturbed>>

\* Mutant: the allocation record is not written.
RecordNothing(p) ==
    /\ step[p] = "record"
    /\ Goto(p, "diffItem")
    /\ UNCHANGED <<tables, handler, lines, order, row, dirty, jobs, delivered, disturbed>>

Record(p) ==
    /\ step[p] = "record"
    /\ records' = [records EXCEPT ![Item(p)] = @ + Qty(p)]
    /\ Goto(p, "diffItem")
    /\ UNCHANGED <<status, items, stocked, handler, lines, order, row, dirty, jobs, delivered, disturbed>>

\* Mutant: the running total goes the wrong way.
EntitySubtracting(p) ==
    IF handler[p] = "receive" THEN [row[p] EXCEPT !.received = @ + Qty(p)]
                              ELSE [row[p] EXCEPT !.allocated = @ - Qty(p)]

\* The item as it will be saved: one column counted on from what was read.
Entity(p) ==
    IF handler[p] = "receive" THEN [row[p] EXCEPT !.received = @ + Qty(p)]
                              ELSE [row[p] EXCEPT !.allocated = @ + Qty(p)]

Counted(p) == IF handler[p] = "receive" THEN "received" ELSE "allocated"

\* save: the counted column is always written (a number against the driver's
\* decimal string), the other one if the row has changed since it was read.
DiffItem(p) ==
    /\ step[p] = "diffItem"
    /\ dirty' = [dirty EXCEPT ![p] =
          {Counted(p)} \cup {c \in {"received", "allocated"} : Entity(p)[c] # items[Item(p)][c]}]
    /\ Goto(p, "saveItem")
    /\ UNCHANGED <<tables, handler, lines, order, row, jobs, delivered, disturbed>>

SaveItem(p) ==
    /\ step[p] = "saveItem"
    /\ items' = [items EXCEPT ![Item(p)] =
          [c \in {"received", "allocated"} |-> IF c \in dirty[p] THEN Entity(p)[c] ELSE @[c]]]
    /\ delivered' = [delivered EXCEPT ![Item(p)] = @ + (IF handler[p] = "receive" THEN Qty(p) ELSE 0)]
    /\ lines' = [lines EXCEPT ![p] = Tail(@)]
    /\ Goto(p, "readItem")
    /\ UNCHANGED <<status, records, stocked, handler, order, row, dirty, jobs, disturbed>>

-----------------------------------------------------------------------------
StatusAfterReceive(s) ==
    IF \A i \in Items : items[i].received >= Ordered[i] THEN "received"
    ELSE IF \E i \in Items : items[i].received > 0 THEN "partially_received" ELSE s

\* Mutant: one item fully allocated is enough.
StatusAfterSome(s) ==
    IF \E i \in Items : items[i].allocated >= items[i].received /\ items[i].received > 0 THEN "allocated"
    ELSE IF \E i \in Items : items[i].allocated > 0 THEN "partially_allocated" ELSE s

StatusAfterAllocate(s) ==
    IF \A i \in Items : items[i].allocated >= items[i].received /\ items[i].received > 0 THEN "allocated"
    ELSE IF \E i \in Items : items[i].allocated > 0 THEN "partially_allocated" ELSE s

\* After the last line: read all the items and derive the order's status.
DeriveStatus(p) ==
    /\ step[p] = "readItem"
    /\ lines[p] = <<>>
    /\ order' = [order EXCEPT ![p] = IF handler[p] = "receive" THEN StatusAfterReceive(@)
                                                               ELSE StatusAfterAllocate(@)]
    /\ Goto(p, "diffOrder")
    /\ UNCHANGED <<tables, handler, lines, row, dirty, jobs, delivered, disturbed>>

DiffOrder(p) ==
    /\ step[p] = "diffOrder"
    /\ dirty' = [dirty EXCEPT ![p] = IF order[p] = status THEN {} ELSE {"status"}]
    /\ Goto(p, "saveOrder")
    /\ UNCHANGED <<tables, handler, lines, order, row, jobs, delivered, disturbed>>

SaveOrder(p) ==
    /\ step[p] = "saveOrder"
    /\ status' = IF dirty[p] = {} THEN status ELSE order[p]
    /\ Return(p)
    /\ UNCHANGED <<items, records, stocked, jobs, delivered, disturbed>>

\* The process dies or a statement fails: what was committed stays.
Crash(p) ==
    /\ step[p] # "idle"
    /\ disturbed' = TRUE
    /\ Return(p)
    /\ UNCHANGED <<tables, jobs, delivered>>

Next == \E p \in Workers :
    \/ \E body \in Deliveries : Receive(p, body)
    \/ \E body \in Allocations : Allocate(p, body)
    \/ \E s \in Patches : Update(p, s)
    \/ ReadItem(p) \/ Reject(p) \/ AddStock(p) \/ Record(p) \/ DiffItem(p) \/ SaveItem(p)
    \/ DeriveStatus(p) \/ DiffOrder(p) \/ SaveOrder(p) \/ Crash(p)

Spec == Init /\ [][Next]_vars

-----------------------------------------------------------------------------
Handlers == {"none", "receive", "allocate", "update"}
Steps    == {"idle", "readItem", "addStock", "record", "diffItem", "saveItem", "diffOrder", "saveOrder"}
PerLine  == {"addStock", "record", "diffItem", "saveItem"}

\* The type of every column and of every handler's memory.  A handler past the
\* reading of an item is still on one of its lines, and only an allocation adds stock.
TypeOK ==
    /\ status \in Status
    /\ items \in [Items -> ItemRow]
    /\ records \in [Items -> Nat] /\ stocked \in [Items -> Nat] /\ delivered \in [Items -> Nat]
    /\ handler \in [Workers -> Handlers] /\ step \in [Workers -> Steps]
    /\ lines \in [Workers -> Seq(Line)]
    /\ order \in [Workers -> Status]
    /\ row \in [Workers -> ItemRow]
    /\ dirty \in [Workers -> SUBSET {"received", "allocated", "status"}]
    /\ jobs \in Nat
    /\ disturbed \in BOOLEAN
    /\ \A p \in Workers :
          /\ step[p] \in PerLine => lines[p] # <<>>
          /\ step[p] \in {"addStock", "record"} => handler[p] = "allocate"
          /\ step[p] \in PerLine \cup {"readItem"} => handler[p] \in {"receive", "allocate"}

\* The allocation records never claim more than was added to stock: addStock is
\* committed before the record, whatever fails or overlaps between the two
\* (allocate-purchaseorder.command-handler.ts:78-99).
RecordsWithinStock == \A i \in Items : records[i] <= stocked[i]

\* quantityAllocated never exceeds the sum of the item's allocation records, lost
\* updates and crashes included (allocate-purchaseorder.command-handler.ts:91-102):
\* a race can only lose part of the running total.
AllocatedWithinRecords == \A i \in Items : items[i].allocated <= records[i]

Settled == ~disturbed /\ \A p \in Workers : step[p] = "idle"

\* Handlers that ran one after the other, rejected ones that stopped half-way
\* through their lines included, leave the running totals equal to what was
\* delivered, recorded and stocked, and nothing allocated that was not received.
QuantitiesAgree ==
    Settled => \A i \in Items :
        /\ items[i].received = delivered[i]
        /\ items[i].allocated = records[i] /\ records[i] = stocked[i]
        /\ items[i].allocated <= items[i].received

\* The status that they leave is true: "received" means that all that was
\* ordered has been delivered, "allocated" that all that was delivered is in stock.
StatusIsTrue ==
    Settled => /\ status = "received" => \A i \in Items : delivered[i] >= Ordered[i]
               /\ status = "allocated" => \A i \in Items : delivered[i] > 0 /\ stocked[i] = delivered[i]

\* Handlers that take turns, rejected ones that stopped half-way included, leave an
\* order whose totals and status are both true
\* (receive-purchaseorder.command-handler.ts:44-51, allocate-purchaseorder.command-handler.ts:54-96).
OrderAddsUp == QuantitiesAgree /\ StatusIsTrue
=============================================================================
