------------------------ MODULE PurchaseOrdersProofs ------------------------
(***************************************************************************)
(* Theorems about PurchaseOrders for any items, bodies and handlers: type  *)
(* correctness, that an item's running total of allocations never exceeds  *)
(* the records of them, nor the records the stock that was added for them, *)
(* and that handlers in turn leave an order that adds up.                  *)
(***************************************************************************)
EXTENDS PurchaseOrders, TLAPS

-----------------------------------------------------------------------------
(* Type correctness.                                                       *)

\* A line of a body and its quantity.
LEMMA LineType ==
    ASSUME TypeOK, NEW p \in Workers, lines[p] # <<>>
    PROVE  Item(p) \in Items /\ Qty(p) \in Nat /\ Tail(lines[p]) \in Seq(Line)
  <1>1. lines[p] \in Seq(Line)
    BY DEF TypeOK
  <1>2. Head(lines[p]) \in Line /\ Tail(lines[p]) \in Seq(Line)
    BY <1>1
  <1> QED
    BY <1>2 DEF Item, Qty, Line

LEMMA EntityType ==
    ASSUME TypeOK, NEW p \in Workers, lines[p] # <<>>
    PROVE  Entity(p) \in ItemRow
  <1>1. Qty(p) \in Nat /\ row[p] \in ItemRow
    BY LineType DEF TypeOK
  <1> QED
    BY <1>1 DEF Entity, ItemRow

LEMMA ReturnType ==
    ASSUME TypeOK, NEW p \in Workers, Return(p), UNCHANGED <<items, records, stocked, jobs, delivered>>,
           status' \in Status, disturbed' \in BOOLEAN
    PROVE  TypeOK'
  <1>1. NoRow \in ItemRow /\ <<>> \in Seq(Line) /\ "draft" \in Status
    BY DEF NoRow, ItemRow, Status
  <1> QED
    BY <1>1 DEF TypeOK, Return, Handlers, Steps, PerLine

LEMMA StartType ==
    ASSUME TypeOK, NEW p \in Workers, NEW h \in Handlers, NEW body \in Seq(Line), NEW s \in Status,
           NEW first \in {"readItem", "diffOrder"}, Start(p, h, body, s, first),
           first = "readItem" => h \in {"receive", "allocate"}
    PROVE  TypeOK'
  BY DEF TypeOK, Start, tables, Steps, PerLine

LEMMA TypeStep == TypeOK /\ [Next]_vars => TypeOK'
  <1> SUFFICES ASSUME TypeOK, [Next]_vars PROVE TypeOK'
    OBVIOUS
  <1>1. ASSUME NEW p \in Workers, NEW body \in Deliveries, Receive(p, body) PROVE TypeOK'
    BY <1>1, StartType, BodiesAssumption DEF Receive, Handlers, TypeOK
  <1>2. ASSUME NEW p \in Workers, NEW body \in Allocations, Allocate(p, body) PROVE TypeOK'
    BY <1>2, StartType, BodiesAssumption DEF Allocate, Handlers, TypeOK
  <1>3. ASSUME NEW p \in Workers, NEW s \in Patches, Update(p, s) PROVE TypeOK'
    <2>1. (IF s = "asRead" THEN status ELSE s) \in Status /\ <<>> \in Seq(Line)
      BY PatchesAssumption DEF TypeOK
    <2> QED
      BY <1>3, <2>1, StartType DEF Update, Handlers
  <1>4. ASSUME NEW p \in Workers, ReadItem(p) PROVE TypeOK'
    <2>1. items[Item(p)] \in ItemRow
      BY <1>4, LineType DEF ReadItem, TypeOK
    <2>2. handler[p] # "receive" => handler[p] = "allocate"
      BY <1>4 DEF ReadItem, TypeOK, Handlers
    <2> QED
      BY <1>4, <2>1, <2>2 DEF ReadItem, Goto, TypeOK, Steps, PerLine, tables
  <1>5. ASSUME NEW p \in Workers, Reject(p) PROVE TypeOK'
    BY <1>5, ReturnType DEF Reject, tables, TypeOK
  <1>6. ASSUME NEW p \in Workers, AddStock(p) PROVE TypeOK'
    <2>1. Item(p) \in Items /\ Qty(p) \in Nat
      BY <1>6, LineType DEF AddStock, TypeOK, PerLine
    <2>2. stocked' \in [Items -> Nat]
      BY <1>6, <2>1 DEF AddStock, TypeOK
    <2> QED
      BY <1>6, <2>2 DEF AddStock, Goto, TypeOK, Steps, PerLine
  <1>7. ASSUME NEW p \in Workers, Record(p) PROVE TypeOK'
    <2>1. Item(p) \in Items /\ Qty(p) \in Nat
      BY <1>7, LineType DEF Record, TypeOK, PerLine
    <2>2. records' \in [Items -> Nat]
      BY <1>7, <2>1 DEF Record, TypeOK
    <2> QED
      BY <1>7, <2>2 DEF Record, Goto, TypeOK, Steps, PerLine
  <1>8. ASSUME NEW p \in Workers, DiffItem(p) PROVE TypeOK'
    BY <1>8 DEF DiffItem, Goto, Counted, TypeOK, Steps, PerLine, tables
  <1>9. ASSUME NEW p \in Workers, SaveItem(p) PROVE TypeOK'
    <2>1. Item(p) \in Items /\ Qty(p) \in Nat /\ Tail(lines[p]) \in Seq(Line) /\ Entity(p) \in ItemRow
      BY <1>9, LineType, EntityType DEF SaveItem, TypeOK, PerLine
    <2>2. items' \in [Items -> ItemRow]
      <3>1. [c \in {"received", "allocated"} |-> IF c \in dirty[p] THEN Entity(p)[c] ELSE items[Item(p)][c]] \in ItemRow
        BY <2>1 DEF TypeOK, ItemRow
      <3> QED
        BY <1>9, <3>1 DEF SaveItem, TypeOK
    <2>3. delivered' \in [Items -> Nat]
      BY <1>9, <2>1 DEF SaveItem, TypeOK
    <2> QED
      BY <1>9, <2>1, <2>2, <2>3 DEF SaveItem, Goto, TypeOK, Steps, PerLine
  <1>10. ASSUME NEW p \in Workers, DeriveStatus(p) PROVE TypeOK'
    BY <1>10 DEF DeriveStatus, StatusAfterReceive, StatusAfterAllocate, Goto, TypeOK, Steps, PerLine, Status, tables
  <1>11. ASSUME NEW p \in Workers, DiffOrder(p) PROVE TypeOK'
    BY <1>11 DEF DiffOrder, Goto, TypeOK, Steps, PerLine, tables
  <1>12. ASSUME NEW p \in Workers, SaveOrder(p) PROVE TypeOK'
    BY <1>12, ReturnType DEF SaveOrder, TypeOK
  <1>13. ASSUME NEW p \in Workers, Crash(p) PROVE TypeOK'
    BY <1>13, ReturnType DEF Crash, tables, TypeOK
  <1>14. CASE UNCHANGED vars
    BY <1>14 DEF vars, tables, worker, TypeOK
  <1> QED
    BY <1>1, <1>2, <1>3, <1>4, <1>5, <1>6, <1>7, <1>8, <1>9, <1>10, <1>11, <1>12, <1>13, <1>14 DEF Next

LEMMA TypeInit == Init => TypeOK
  <1>1. NoRow \in ItemRow /\ Zero \in [Items -> Nat] /\ <<>> \in Seq(Line)
    BY DEF NoRow, ItemRow, Zero
  <1> SUFFICES ASSUME Init PROVE TypeOK
    OBVIOUS
  <1>2. /\ items \in [Items -> ItemRow] /\ lines \in [Workers -> Seq(Line)] /\ row \in [Workers -> ItemRow]
        /\ records \in [Items -> Nat] /\ stocked \in [Items -> Nat] /\ delivered \in [Items -> Nat]
    BY <1>1 DEF Init
  <1>3. /\ status \in Status /\ order \in [Workers -> Status]
        /\ handler \in [Workers -> Handlers] /\ step \in [Workers -> Steps]
        /\ dirty \in [Workers -> SUBSET {"received", "allocated", "status"}]
    BY DEF Init, Status, Handlers, Steps
  <1> QED
    BY <1>2, <1>3 DEF Init, TypeOK, PerLine

\* Every table and every handler's memory keeps its type.
THEOREM TypeCorrect == Spec => []TypeOK
  BY TypeInit, TypeStep, PTL DEF Spec

-----------------------------------------------------------------------------
(* Running totals.                                                         *)

\* Inductive: the total a handler has read, and the one it is about to save, is
\* covered by records that were there before.
CoveredByRecords ==
    /\ AllocatedWithinRecords
    /\ \A p \in Workers : step[p] \in PerLine => row[p].allocated <= records[Item(p)]
    /\ \A p \in Workers : step[p] \in {"diffItem", "saveItem"} =>
          Entity(p).allocated <= records[Item(p)]

LEMMA IdleCovered ==
    ASSUME TypeOK, CoveredByRecords, NEW p \in Workers, UNCHANGED <<items, records>>,
           \A q \in Workers \ {p} : /\ step'[q] = step[q] /\ row'[q] = row[q]
                                    /\ lines'[q] = lines[q] /\ handler'[q] = handler[q],
           step'[p] \notin PerLine
    PROVE  CoveredByRecords'
  BY DEF CoveredByRecords, AllocatedWithinRecords, Entity, Item, Qty, PerLine

LEMMA ReturnCovered ==
    ASSUME TypeOK, CoveredByRecords, NEW p \in Workers, UNCHANGED <<items, records>>, Return(p)
    PROVE  CoveredByRecords'
  <1>1. step'[p] \notin PerLine
    BY DEF Return, TypeOK, PerLine
  <1>2. \A q \in Workers \ {p} : /\ step'[q] = step[q] /\ row'[q] = row[q]
                                 /\ lines'[q] = lines[q] /\ handler'[q] = handler[q]
    BY DEF Return, TypeOK
  <1> QED
    BY <1>1, <1>2, IdleCovered

LEMMA StartCovered ==
    ASSUME TypeOK, CoveredByRecords, NEW p \in Workers, NEW h, NEW body, NEW s,
           NEW first \in {"readItem", "diffOrder"}, Start(p, h, body, s, first)
    PROVE  CoveredByRecords'
  <1>1. step'[p] \notin PerLine
    BY DEF Start, TypeOK, PerLine
  <1>2. \A q \in Workers \ {p} : /\ step'[q] = step[q] /\ row'[q] = row[q]
                                 /\ lines'[q] = lines[q] /\ handler'[q] = handler[q]
    BY DEF Start, TypeOK
  <1> QED
    BY <1>1, <1>2, IdleCovered DEF Start, tables

LEMMA CoveredStep == TypeOK /\ CoveredByRecords /\ [Next]_vars => CoveredByRecords'
  <1> SUFFICES ASSUME TypeOK, CoveredByRecords, [Next]_vars PROVE CoveredByRecords'
    OBVIOUS
  <1>1. ASSUME NEW p \in Workers, NEW body \in Deliveries \cup Allocations,
               Receive(p, body) \/ Allocate(p, body)
        PROVE  CoveredByRecords'
    BY <1>1, StartCovered DEF Receive, Allocate
  <1>2. ASSUME NEW p \in Workers, NEW s \in Patches, Update(p, s) PROVE CoveredByRecords'
    BY <1>2, StartCovered DEF Update
  <1>3. ASSUME NEW p \in Workers, ReadItem(p) PROVE CoveredByRecords'
    <2>1. /\ Item(p) \in Items /\ Qty(p) \in Nat /\ items[Item(p)] \in ItemRow
          /\ items[Item(p)].allocated <= records[Item(p)]
      BY <1>3, LineType DEF ReadItem, TypeOK, CoveredByRecords, AllocatedWithinRecords
    <2>2. row'[p] = items[Item(p)] /\ Item(p)' = Item(p) /\ Qty(p)' = Qty(p) /\ records' = records
      BY <1>3 DEF ReadItem, Item, Qty, tables, TypeOK
    <2>3. handler[p] # "receive" => step'[p] = "addStock"
      BY <1>3 DEF ReadItem, Goto, TypeOK
    <2>4. handler'[p] = "receive" => Entity(p)'.allocated = row'[p].allocated
      BY <2>1, <2>2 DEF Entity, ItemRow
    <2>5. \A q \in Workers \ {p} : /\ step'[q] = step[q] /\ row'[q] = row[q]
                                   /\ Item(q)' = Item(q) /\ Entity(q)' = Entity(q)
      BY <1>3 DEF ReadItem, Goto, Item, Qty, Entity, TypeOK
    <2>6. handler' = handler /\ items' = items
      BY <1>3 DEF ReadItem, tables
    <2> QED
      BY <2>1, <2>2, <2>3, <2>4, <2>5, <2>6 DEF CoveredByRecords, AllocatedWithinRecords
  <1>4. ASSUME NEW p \in Workers, Reject(p) \/ SaveOrder(p) \/ Crash(p) PROVE CoveredByRecords'
    BY <1>4, ReturnCovered DEF Reject, SaveOrder, Crash, tables
  <1>5. ASSUME NEW p \in Workers, AddStock(p) PROVE CoveredByRecords'
    BY <1>5 DEF AddStock, Goto, CoveredByRecords, AllocatedWithinRecords, Entity, Item, Qty, TypeOK, PerLine
  <1>6. ASSUME NEW p \in Workers, Record(p) PROVE CoveredByRecords'
    <2>1. Item(p) \in Items /\ Qty(p) \in Nat /\ handler[p] = "allocate" /\ row[p] \in ItemRow
      BY <1>6, LineType DEF Record, TypeOK, PerLine
    <2>2. \A i \in Items : records[i] <= records'[i]
      BY <1>6, <2>1 DEF Record, TypeOK
    <2>3. row[p].allocated <= records[Item(p)] /\ records'[Item(p)] = records[Item(p)] + Qty(p)
      BY <1>6, <2>1 DEF Record, TypeOK, CoveredByRecords, PerLine
    <2>4. \A q \in Workers : /\ row'[q] = row[q] /\ Item(q)' = Item(q) /\ Entity(q)' = Entity(q)
                             /\ q # p => step'[q] = step[q]
      BY <1>6 DEF Record, Goto, Item, Qty, Entity, TypeOK
    <2>5. Entity(p).allocated = row[p].allocated + Qty(p)
      BY <2>1 DEF Entity, ItemRow
    <2>6. \A q \in Workers : step[q] \in PerLine => /\ Item(q) \in Items /\ row[q].allocated \in Nat
                                                    /\ Entity(q).allocated \in Nat
      BY LineType, EntityType DEF TypeOK, ItemRow
    <2>7. \A i \in Items : items'[i] = items[i] /\ items[i].allocated \in Nat
                           /\ records[i] \in Nat /\ records'[i] \in Nat
      BY <1>6, <2>1 DEF Record, TypeOK, ItemRow
    <2>8. AllocatedWithinRecords'
      BY <2>2, <2>7 DEF CoveredByRecords, AllocatedWithinRecords
    <2>9. ASSUME NEW q \in Workers, step'[q] \in PerLine PROVE row'[q].allocated <= records'[Item(q)']
      <3>1. step[q] \in PerLine
        BY <1>6, <2>4, <2>9 DEF Record, PerLine
      <3> QED
        BY <2>2, <2>4, <2>6, <2>7, <3>1 DEF CoveredByRecords
    <2>10. ASSUME NEW q \in Workers, step'[q] \in {"diffItem", "saveItem"}
           PROVE  Entity(q)'.allocated <= records'[Item(q)']
      <3>1. CASE q = p
        BY <2>1, <2>3, <2>4, <2>5, <2>7, <3>1 DEF ItemRow
      <3>2. CASE q # p
        BY <2>2, <2>4, <2>6, <2>7, <2>10, <3>2 DEF CoveredByRecords, PerLine
      <3> QED
        BY <3>1, <3>2
    <2> QED
      BY <2>8, <2>9, <2>10 DEF CoveredByRecords
  <1>7. ASSUME NEW p \in Workers, DiffItem(p) PROVE CoveredByRecords'
    BY <1>7 DEF DiffItem, Goto, CoveredByRecords, AllocatedWithinRecords, Entity, Item, Qty, TypeOK, PerLine, tables
  <1>8. ASSUME NEW p \in Workers, SaveItem(p) PROVE CoveredByRecords'
    <2>1. Item(p) \in Items /\ Entity(p).allocated <= records[Item(p)] /\ records' = records
      BY <1>8, LineType DEF SaveItem, CoveredByRecords, TypeOK, PerLine
    <2>2. \A i \in Items : /\ items'[i].allocated \in {items[i].allocated, Entity(p).allocated}
                           /\ i # Item(p) => items'[i] = items[i]
      BY <1>8, <2>1 DEF SaveItem, TypeOK, ItemRow
    <2>3. AllocatedWithinRecords'
      BY <2>1, <2>2 DEF CoveredByRecords, AllocatedWithinRecords
    <2>4. \A q \in Workers \ {p} : /\ step'[q] = step[q] /\ row'[q] = row[q]
                                   /\ Item(q)' = Item(q) /\ Entity(q)' = Entity(q)
      BY <1>8 DEF SaveItem, Goto, Item, Qty, Entity, TypeOK
    <2>5. step'[p] \notin PerLine
      BY <1>8 DEF SaveItem, Goto, TypeOK, PerLine
    <2> QED
      BY <2>1, <2>3, <2>4, <2>5 DEF CoveredByRecords, PerLine
  <1>9. ASSUME NEW p \in Workers, DeriveStatus(p) \/ DiffOrder(p) PROVE CoveredByRecords'
    BY <1>9 DEF DeriveStatus, DiffOrder, Goto, CoveredByRecords, AllocatedWithinRecords, Entity, Item, Qty,
                TypeOK, PerLine, tables
  <1>10. CASE UNCHANGED vars
    BY <1>10 DEF vars, tables, worker, CoveredByRecords, AllocatedWithinRecords, Entity, Item, Qty
  <1> QED
    BY <1>1, <1>2, <1>3, <1>4, <1>5, <1>6, <1>7, <1>8, <1>9, <1>10 DEF Next

LEMMA CoveredInit == Init => CoveredByRecords
  BY DEF Init, CoveredByRecords, AllocatedWithinRecords, NoRow, Zero, PerLine

\* However handlers overlap, lose updates or die, an item's quantityAllocated is
\* at most the sum of its allocation records.
THEOREM AllocationsAreRecorded == Spec => []AllocatedWithinRecords
  BY TypeInit, TypeStep, CoveredInit, CoveredStep, PTL DEF Spec, CoveredByRecords

-----------------------------------------------------------------------------
(* Stock runs ahead of the records.  A handler that has added a line to    *)
(* stock and not recorded it yet owns a stretch of the item's stock above  *)
(* what is recorded, and no two handlers own the same unit.                *)

Pending(p) == step[p] = "record"

\* b says where each pending line begins.
Packs(b) ==
    \A p \in Workers : Pending(p) =>
        /\ records[Item(p)] <= b[p] /\ b[p] + Qty(p) <= stocked[Item(p)]
        /\ \A q \in Workers \ {p} : Pending(q) /\ Item(q) = Item(p) =>
              b[p] + Qty(p) <= b[q] \/ b[q] + Qty(q) <= b[p]

\* Inductive: the pending lines fit between an item's records and its stock.
StockRunsAhead == RecordsWithinStock /\ \E b \in [Workers -> Nat] : Packs(b)

\* No step but the recording adds to the records, and a pending line that is
\* given up leaves its stretch free.
LEMMA AheadKept ==
    ASSUME StockRunsAhead, UNCHANGED <<records, stocked>>,
           \A p \in Workers : Pending(p)' => Pending(p) /\ lines'[p] = lines[p]
    PROVE  StockRunsAhead'
  <1>1. PICK b \in [Workers -> Nat] : Packs(b)
    BY DEF StockRunsAhead
  <1>2. \A p \in Workers : Pending(p)' => Pending(p) /\ Item(p)' = Item(p) /\ Qty(p)' = Qty(p)
    BY DEF Item, Qty
  <1>3. Packs(b)'
    BY <1>1, <1>2 DEF Packs
  <1> QED
    BY <1>3 DEF StockRunsAhead, RecordsWithinStock

LEMMA AheadReturn ==
    ASSUME TypeOK, StockRunsAhead, NEW p \in Workers, Return(p), UNCHANGED <<records, stocked>>
    PROVE  StockRunsAhead'
  <1>1. \A q \in Workers : Pending(q)' => Pending(q) /\ lines'[q] = lines[q]
    BY DEF Return, TypeOK, Pending
  <1> QED
    BY <1>1, AheadKept

LEMMA AheadStart ==
    ASSUME TypeOK, StockRunsAhead, NEW p \in Workers, NEW h, NEW body, NEW s,
           NEW first \in {"readItem", "diffOrder"}, Start(p, h, body, s, first)
    PROVE  StockRunsAhead'
  <1>1. \A q \in Workers : Pending(q)' => Pending(q) /\ lines'[q] = lines[q]
    BY DEF Start, TypeOK, Pending
  <1> QED
    BY <1>1, AheadKept DEF Start, tables

\* The new stretch is on top of all the others.
LEMMA AheadAdd ==
    ASSUME TypeOK, StockRunsAhead, NEW p \in Workers, AddStock(p)
    PROVE  StockRunsAhead'
  <1>1. PICK b \in [Workers -> Nat] : Packs(b)
    BY DEF StockRunsAhead
  <1>2. /\ Item(p) \in Items /\ Qty(p) \in Nat /\ ~Pending(p) /\ UNCHANGED <<records, lines>>
        /\ stocked' = [stocked EXCEPT ![Item(p)] = @ + Qty(p)]
        /\ \A q \in Workers : q # p => (Pending(q)' <=> Pending(q))
    BY LineType DEF AddStock, TypeOK, PerLine, Pending, Goto
  <1>3. \A q \in Workers : /\ Item(q)' = Item(q) /\ Qty(q)' = Qty(q)
                           /\ Pending(q) => Item(q) \in Items /\ Qty(q) \in Nat
    BY <1>2, LineType DEF Item, Qty, Pending, TypeOK, PerLine
  <1>4. /\ \A i \in Items : stocked'[i] \in Nat /\ stocked[i] <= stocked'[i] /\ records[i] \in Nat /\ stocked[i] \in Nat
        /\ stocked'[Item(p)] = stocked[Item(p)] + Qty(p)
    BY <1>2 DEF TypeOK
  <1>5. \A i \in Items : records[i] <= stocked[i]
    BY DEF StockRunsAhead, RecordsWithinStock
  <1> DEFINE c == [b EXCEPT ![p] = stocked[Item(p)]]
  <1>6. c \in [Workers -> Nat] /\ c[p] = stocked[Item(p)] /\ \A q \in Workers \ {p} : c[q] = b[q]
    BY <1>2, <1>4
  <1> HIDE DEF c
  <1>7. PICK d : d = c
    OBVIOUS
  <1>8. Packs(d)'
    <2> SUFFICES ASSUME NEW q \in Workers, Pending(q)'
                 PROVE  /\ records[Item(q)] <= d[q] /\ d[q] + Qty(q) <= stocked'[Item(q)]
                        /\ \A r \in Workers \ {q} : Pending(r)' /\ Item(r) = Item(q) =>
                              d[q] + Qty(q) <= d[r] \/ d[r] + Qty(r) <= d[q]
      BY <1>2, <1>3 DEF Packs
    <2>1. CASE q = p
      BY <1>1, <1>2, <1>3, <1>4, <1>5, <1>6, <1>7, <2>1 DEF Packs
    <2>2. CASE q # p
      BY <1>1, <1>2, <1>3, <1>4, <1>6, <1>7, <2>2 DEF Packs
    <2> QED
      BY <2>1, <2>2
  <1>9. RecordsWithinStock'
    BY <1>2, <1>4, <1>5 DEF RecordsWithinStock
  <1> QED
    BY <1>6, <1>7, <1>8, <1>9 DEF StockRunsAhead

\* The line that is recorded leaves; those below it move up by its quantity.
LEMMA AheadRecord ==
    ASSUME TypeOK, StockRunsAhead, NEW p \in Workers, Record(p)
    PROVE  StockRunsAhead'
  <1>1. PICK b \in [Workers -> Nat] : Packs(b)
    BY DEF StockRunsAhead
  <1> DEFINE i == Item(p)
             k == Qty(p)
             Below(q) == Pending(q) /\ Item(q) = i /\ ~(b[p] + k <= b[q])
             c == [q \in Workers |-> IF Below(q) THEN b[q] + k ELSE b[q]]
  <1>2. /\ i \in Items /\ k \in Nat /\ Pending(p) /\ ~Pending(p)' /\ UNCHANGED <<stocked, lines>>
        /\ \A q \in Workers \ {p} : (Pending(q)' <=> Pending(q))
    BY LineType DEF Record, TypeOK, PerLine, Pending, Goto
  <1>3. \A q \in Workers : /\ Item(q)' = Item(q) /\ Qty(q)' = Qty(q)
                           /\ Pending(q) => Item(q) \in Items /\ Qty(q) \in Nat
    BY <1>2, LineType DEF Item, Qty, Pending, TypeOK, PerLine
  <1>4. /\ \A j \in Items : records[j] \in Nat /\ stocked[j] \in Nat /\ (j # i => records'[j] = records[j])
        /\ records'[i] = records[i] + k
    BY <1>2 DEF Record, TypeOK
  <1>5. /\ records[i] <= b[p] /\ b[p] + k <= stocked[i]
        /\ \A q \in Workers \ {p} : Pending(q) /\ Item(q) = i =>
              b[p] + k <= b[q] \/ b[q] + Qty(q) <= b[p]
    BY <1>1, <1>2 DEF Packs
  <1>6. c \in [Workers -> Nat] /\ \A q \in Workers : b[q] \in Nat
    BY <1>1, <1>2
  <1>7. \A q \in Workers : c[q] = IF Below(q) THEN b[q] + k ELSE b[q]
    OBVIOUS
  <1> HIDE DEF c, Below, i, k
  <1>8. PICK d : d = c
    OBVIOUS
  <1>9. Packs(d)'
    <2> SUFFICES ASSUME NEW q \in Workers, Pending(q)'
                 PROVE  /\ records'[Item(q)] <= d[q] /\ d[q] + Qty(q) <= stocked[Item(q)]
                        /\ \A r \in Workers \ {q} : Pending(r)' /\ Item(r) = Item(q) =>
                              d[q] + Qty(q) <= d[r] \/ d[r] + Qty(r) <= d[q]
      BY <1>2, <1>3 DEF Packs
    <2>1. q # p /\ Pending(q) /\ Item(q) \in Items /\ Qty(q) \in Nat
      BY <1>2, <1>3
    <2>2. CASE Item(q) # i
      BY <1>1, <1>2, <1>3, <1>4, <1>7, <1>8, <2>1, <2>2 DEF Packs, Below
    <2>3. CASE Item(q) = i
      <3>1. records[i] <= b[q] /\ b[q] + Qty(q) <= stocked[i]
        BY <1>1, <2>1, <2>3 DEF Packs
      <3>2. Below(q) => b[q] + Qty(q) <= b[p]
        BY <1>5, <2>1, <2>3 DEF Below
      <3>3. ~Below(q) => b[p] + k <= b[q]
        BY <2>1, <2>3 DEF Below
      <3>4. /\ d[q] = IF Below(q) THEN b[q] + k ELSE b[q]
            /\ b[q] \in Nat /\ b[p] \in Nat /\ records[i] \in Nat /\ stocked[i] \in Nat
        BY <1>2, <1>4, <1>6, <1>7, <1>8
      <3>5. records'[i] <= d[q] /\ d[q] + Qty(q) <= stocked[i]
        BY <1>2, <1>4, <1>5, <2>1, <3>1, <3>2, <3>3, <3>4
      <3>6. ASSUME NEW r \in Workers \ {q}, Pending(r)', Item(r) = i
            PROVE  d[q] + Qty(q) <= d[r] \/ d[r] + Qty(r) <= d[q]
        <4>1. /\ r # p /\ Pending(r) /\ Qty(r) \in Nat /\ b[r] \in Nat
              /\ d[r] = IF Below(r) THEN b[r] + k ELSE b[r]
          BY <1>2, <1>3, <1>6, <1>7, <1>8, <3>6
        <4>2. b[q] + Qty(q) <= b[r] \/ b[r] + Qty(r) <= b[q]
          BY <1>1, <2>1, <2>3, <3>6, <4>1 DEF Packs
        <4>3. Below(r) => b[r] + Qty(r) <= b[p]
          BY <1>5, <3>6, <4>1 DEF Below
        <4>4. ~Below(r) => b[p] + k <= b[r]
          BY <3>6, <4>1 DEF Below
        <4> QED
          BY <1>2, <2>1, <3>2, <3>3, <3>4, <4>1, <4>2, <4>3, <4>4
      <3> QED
        BY <2>3, <3>5, <3>6
    <2> QED
      BY <2>2, <2>3
  <1>10. RecordsWithinStock'
    BY <1>2, <1>4, <1>5, <1>6 DEF RecordsWithinStock, StockRunsAhead
  <1> QED
    BY <1>6, <1>8, <1>9, <1>10 DEF StockRunsAhead

LEMMA AheadStep == TypeOK /\ StockRunsAhead /\ [Next]_vars => StockRunsAhead'
  <1> SUFFICES ASSUME TypeOK, StockRunsAhead, [Next]_vars PROVE StockRunsAhead'
    OBVIOUS
  <1>1. ASSUME NEW p \in Workers, NEW body \in Deliveries \cup Allocations,
               Receive(p, body) \/ Allocate(p, body)
        PROVE  StockRunsAhead'
    BY <1>1, AheadStart DEF Receive, Allocate
  <1>2. ASSUME NEW p \in Workers, NEW s \in Patches, Update(p, s) PROVE StockRunsAhead'
    BY <1>2, AheadStart DEF Update
  <1>3. ASSUME NEW p \in Workers, Reject(p) \/ SaveOrder(p) \/ Crash(p) PROVE StockRunsAhead'
    BY <1>3, AheadReturn DEF Reject, SaveOrder, Crash, tables
  <1>4. ASSUME NEW p \in Workers, ReadItem(p) \/ DiffItem(p) \/ SaveItem(p) \/ DeriveStatus(p) \/ DiffOrder(p)
        PROVE  StockRunsAhead'
    <2>1. UNCHANGED <<records, stocked>>
      BY <1>4 DEF ReadItem, DiffItem, SaveItem, DeriveStatus, DiffOrder, tables
    <2>2. \A q \in Workers : Pending(q)' => Pending(q) /\ lines'[q] = lines[q]
      BY <1>4 DEF ReadItem, DiffItem, SaveItem, DeriveStatus, DiffOrder, Goto, Pending, TypeOK
    <2> QED
      BY <2>1, <2>2, AheadKept
  <1>5. CASE UNCHANGED vars
    BY <1>5, AheadKept DEF vars, tables, worker, Pending
  <1> QED
    BY <1>1, <1>2, <1>3, <1>4, <1>5, AheadAdd, AheadRecord DEF Next

LEMMA AheadInit == Init => StockRunsAhead
  <1> SUFFICES ASSUME Init PROVE StockRunsAhead
    OBVIOUS
  <1>1. [p \in Workers |-> 0] \in [Workers -> Nat] /\ \A p \in Workers : ~Pending(p)
    BY DEF Init, Pending
  <1>2. Packs([p \in Workers |-> 0])
    BY <1>1 DEF Packs
  <1> QED
    BY <1>1, <1>2 DEF Init, Zero, StockRunsAhead, RecordsWithinStock

\* However many handlers allocate at once, are rejected half-way or die, an item's
\* records never claim more than was added to its stock.
THEOREM RecordsNeverExceedStock == Spec => []RecordsWithinStock
  BY TypeInit, TypeStep, AheadInit, AheadStep, PTL DEF Spec, StockRunsAhead

-----------------------------------------------------------------------------
(* Handlers that take turns add up.  A handler that is alone has read what *)
(* the tables hold, and the one item it is at is the only one whose total, *)
(* records and stock differ, by just the line it is at.                    *)

Late == {"record", "diffItem", "saveItem"}
Adding(p, i) == handler[p] = "allocate" /\ step[p] \in Late /\ Item(p) = i

\* Every item agrees with its records and its stock, but for one that is being allocated.
Sums ==
    \A i \in Items :
        /\ items[i].received = delivered[i]
        /\ items[i].allocated <= items[i].received
        /\ \/ records[i] = items[i].allocated /\ stocked[i] = items[i].allocated
           \/ \E p \in Workers : Adding(p, i)

\* What a handler alone with the order knows of the line it is at.
OnLine(p) ==
    LET r == items[Item(p)] IN
    step[p] \in PerLine =>
        /\ row[p] = r
        /\ step[p] = "saveItem" => Counted(p) \in dirty[p]
        /\ handler[p] = "allocate" =>
              /\ r.allocated + Qty(p) <= r.received
              /\ step[p] \in Late => stocked[Item(p)] = r.allocated + Qty(p)
              /\ step[p] = "record" => records[Item(p)] = r.allocated
              /\ step[p] \in {"diffItem", "saveItem"} => records[Item(p)] = r.allocated + Qty(p)

Alone == \A p, q \in Workers : step[p] # "idle" /\ step[q] # "idle" => p = q

Tally == ~disturbed => Alone /\ Sums /\ \A p \in Workers : OnLine(p)

\* Nobody but p is at work, before and after its step.
Only(p) ==
    /\ Alone
    /\ \A q \in Workers \ {p} :
          step[q] = "idle" /\ UNCHANGED <<step[q], handler[q], lines[q], row[q], dirty[q], order[q]>>

LEMMA OnlyOne ==
    ASSUME TypeOK, Tally, ~disturbed, NEW p \in Workers, step[p] # "idle",
           \A q \in Workers \ {p} :
              UNCHANGED <<step[q], handler[q], lines[q], row[q], dirty[q], order[q]>>
    PROVE  Only(p)
  BY DEF Tally, Alone, Only

LEMMA TallyKept ==
    ASSUME NEW p \in Workers, Only(p), Sums', OnLine(p)'
    PROVE  Tally'
  BY DEF Tally, Alone, Only, OnLine, PerLine

\* Between two lines every item agrees.
LEMMA AllAgree ==
    ASSUME Sums, NEW p \in Workers, step[p] \notin Late, Only(p), NEW i \in Items
    PROVE  records[i] = items[i].allocated /\ stocked[i] = items[i].allocated
  BY DEF Sums, Adding, Only, Late

LEMMA TallyBetween ==
    ASSUME Sums, NEW p \in Workers, Only(p), step[p] \notin Late,
           UNCHANGED <<items, records, stocked, delivered>>, OnLine(p)'
    PROVE  Tally'
  <1>1. Sums'
    BY AllAgree DEF Sums
  <1> QED
    BY <1>1, TallyKept

LEMMA TallyStart ==
    ASSUME TypeOK, Tally, NEW p \in Workers, NEW h, NEW body, NEW s,
           NEW first \in {"readItem", "diffOrder"}, Start(p, h, body, s, first)
    PROVE  Tally'
  <1> SUFFICES ASSUME ~disturbed' PROVE Tally'
    BY DEF Tally
  <1>1. /\ ~disturbed /\ \A q \in Workers : step[q] = "idle"
        /\ UNCHANGED <<items, records, stocked, delivered, row, dirty>> /\ step'[p] = first
        /\ \A q \in Workers \ {p} : UNCHANGED <<step[q], handler[q], lines[q], order[q]>>
    BY DEF Start, tables, TypeOK
  <1>2. Only(p) /\ Sums /\ step[p] \notin Late
    BY <1>1 DEF Only, Alone, Tally, Late
  <1>3. OnLine(p)'
    BY <1>1 DEF OnLine, PerLine
  <1> QED
    BY <1>1, <1>2, <1>3, TallyBetween

LEMMA TallyReturn ==
    ASSUME TypeOK, Tally, ~disturbed, NEW p \in Workers, Return(p), step[p] # "idle",
           step[p] \notin Late, UNCHANGED <<items, records, stocked, delivered>>
    PROVE  Tally'
  <1>1. /\ step'[p] = "idle"
        /\ \A q \in Workers \ {p} :
              UNCHANGED <<step[q], handler[q], lines[q], row[q], dirty[q], order[q]>>
    BY DEF Return, TypeOK
  <1>2. OnLine(p)'
    BY <1>1 DEF OnLine, PerLine
  <1> QED
    BY <1>1, <1>2, OnlyOne, TallyBetween DEF Tally

LEMMA TallyRead ==
    ASSUME TypeOK, Tally, ~disturbed, NEW p \in Workers, ReadItem(p)
    PROVE  Tally'
  <1>1. /\ Item(p) \in Items /\ Qty(p) \in Nat /\ items[Item(p)] \in ItemRow
        /\ step[p] = "readItem" /\ step'[p] \in {"addStock", "diffItem"}
        /\ UNCHANGED <<items, records, stocked, delivered, handler, lines>>
        /\ row'[p] = items[Item(p)] /\ Item(p)' = Item(p) /\ Qty(p)' = Qty(p)
        /\ \A q \in Workers \ {p} :
              UNCHANGED <<step[q], handler[q], lines[q], row[q], dirty[q], order[q]>>
    BY LineType DEF ReadItem, Goto, tables, TypeOK, Item, Qty
  <1>2. step'[p] = "addStock" =>
           items[Item(p)].allocated + Qty(p) <= items[Item(p)].received
    BY <1>1 DEF ReadItem, Goto, TypeOK, Allocatable, ItemRow
  <1>3. step'[p] = "diffItem" => handler[p] = "receive"
    BY <1>1 DEF ReadItem, Goto, TypeOK
  <1>4. OnLine(p)'
    BY <1>1, <1>2, <1>3 DEF OnLine, Late
  <1> QED
    BY <1>1, <1>4, OnlyOne, TallyBetween DEF Tally, Late

LEMMA TallyAdd ==
    ASSUME TypeOK, Tally, ~disturbed, NEW p \in Workers, AddStock(p) \/ Record(p) \/ DiffItem(p)
    PROVE  Tally'
  <1>1. /\ Item(p) \in Items /\ Qty(p) \in Nat /\ Item(p)' = Item(p) /\ Qty(p)' = Qty(p)
        /\ UNCHANGED <<items, delivered, handler, lines, row>> /\ step[p] \in PerLine
        /\ \A q \in Workers \ {p} :
              UNCHANGED <<step[q], handler[q], lines[q], row[q], dirty[q], order[q]>>
        /\ step'[p] \in Late
    BY LineType DEF AddStock, Record, DiffItem, Goto, tables, TypeOK, PerLine, Item, Qty, Late
  <1>2. Only(p) /\ Sums /\ OnLine(p)
    BY <1>1, OnlyOne DEF PerLine, Tally
  <1>3. \A i \in Items : i # Item(p) => records[i] = items[i].allocated /\ stocked[i] = items[i].allocated
    BY <1>2 DEF Sums, Adding, Only, Late
  <1>4. step[p] = "addStock" =>
           records[Item(p)] = items[Item(p)].allocated /\ stocked[Item(p)] = items[Item(p)].allocated
    BY <1>1, <1>2, AllAgree DEF Late
  <1>5. CASE AddStock(p)
    <2>1. /\ step[p] = "addStock" /\ step'[p] = "record" /\ handler[p] = "allocate"
          /\ UNCHANGED records
          /\ stocked'[Item(p)] = stocked[Item(p)] + Qty(p)
          /\ \A i \in Items \ {Item(p)} : stocked'[i] = stocked[i]
      BY <1>1, <1>5 DEF AddStock, Goto, TypeOK
    <2>2. Sums'
      BY <1>1, <1>2, <1>3, <2>1 DEF Sums, Adding
    <2>3. OnLine(p)'
      BY <1>1, <1>2, <1>4, <2>1 DEF OnLine
    <2> QED
      BY <1>2, <2>2, <2>3, TallyKept
  <1>6. CASE Record(p)
    <2>1. /\ step[p] = "record" /\ step'[p] = "diffItem" /\ handler[p] = "allocate"
          /\ UNCHANGED stocked
          /\ records'[Item(p)] = records[Item(p)] + Qty(p)
          /\ \A i \in Items \ {Item(p)} : records'[i] = records[i]
      BY <1>1, <1>6 DEF Record, Goto, TypeOK
    <2>2. Sums'
      BY <1>1, <1>2, <1>3, <2>1 DEF Sums, Adding
    <2>3. OnLine(p)'
      BY <1>1, <1>2, <2>1 DEF OnLine, Late
    <2> QED
      BY <1>2, <2>2, <2>3, TallyKept
  <1>7. CASE DiffItem(p)
    <2>1. /\ step[p] = "diffItem" /\ step'[p] = "saveItem"
          /\ UNCHANGED <<stocked, records>>
          /\ Counted(p) \in dirty'[p] /\ Counted(p)' = Counted(p)
      BY <1>1, <1>7 DEF DiffItem, Goto, TypeOK, tables, Counted
    <2>2. Sums'
      BY <1>1, <1>2, <2>1 DEF Sums, Adding, Late, Only
    <2>3. OnLine(p)'
      BY <1>1, <1>2, <2>1 DEF OnLine, Late
    <2> QED
      BY <1>2, <2>2, <2>3, TallyKept
  <1> QED
    BY <1>5, <1>6, <1>7

LEMMA TallySave ==
    ASSUME TypeOK, Tally, ~disturbed, NEW p \in Workers, SaveItem(p)
    PROVE  Tally'
  <1> DEFINE r == items[Item(p)]
  <1>1. /\ Item(p) \in Items /\ Qty(p) \in Nat /\ r \in ItemRow /\ step[p] = "saveItem"
        /\ handler[p] \in {"receive", "allocate"}
        /\ UNCHANGED <<records, stocked>> /\ step'[p] = "readItem"
        /\ \A q \in Workers \ {p} :
              UNCHANGED <<step[q], handler[q], lines[q], row[q], dirty[q], order[q]>>
        /\ \A i \in Items \ {Item(p)} : items'[i] = items[i] /\ delivered'[i] = delivered[i]
    BY LineType DEF SaveItem, Goto, TypeOK, PerLine
  <1>2. Only(p) /\ Sums /\ OnLine(p)
    BY <1>1, OnlyOne DEF Tally
  <1>3. \A i \in Items : i # Item(p) => records[i] = items[i].allocated /\ stocked[i] = items[i].allocated
    BY <1>2 DEF Sums, Adding, Only, Late
  <1>4. items'[Item(p)] = [c \in {"received", "allocated"} |-> IF c \in dirty[p] THEN Entity(p)[c] ELSE r[c]]
    BY <1>1 DEF SaveItem, TypeOK
  <1>5. row[p] = r /\ Counted(p) \in dirty[p]
    BY <1>1, <1>2 DEF OnLine, PerLine
  <1>6. CASE handler[p] = "receive"
    <2>1. items'[Item(p)].received = r.received + Qty(p) /\ items'[Item(p)].allocated = r.allocated
      BY <1>1, <1>4, <1>5, <1>6 DEF Entity, Counted, ItemRow
    <2>2. delivered'[Item(p)] = delivered[Item(p)] + Qty(p)
      BY <1>1, <1>6 DEF SaveItem, TypeOK
    <2>3. records[Item(p)] = r.allocated /\ stocked[Item(p)] = r.allocated
      BY <1>1, <1>2, <1>6 DEF Sums, Adding, Only, Late
    <2>4. Sums'
      BY <1>1, <1>2, <1>3, <2>1, <2>2, <2>3 DEF Sums, ItemRow
    <2> QED
      BY <1>1, <1>2, <2>4, TallyKept DEF OnLine, PerLine
  <1>7. CASE handler[p] = "allocate"
    <2>1. items'[Item(p)].received = r.received /\ items'[Item(p)].allocated = r.allocated + Qty(p)
      BY <1>1, <1>4, <1>5, <1>7 DEF Entity, Counted, ItemRow
    <2>2. delivered'[Item(p)] = delivered[Item(p)]
      BY <1>1, <1>7 DEF SaveItem, TypeOK
    <2>3. /\ records[Item(p)] = r.allocated + Qty(p) /\ stocked[Item(p)] = r.allocated + Qty(p)
          /\ r.allocated + Qty(p) <= r.received
      BY <1>1, <1>2, <1>7 DEF OnLine, PerLine, Late
    <2>4. Sums'
      BY <1>1, <1>2, <1>3, <2>1, <2>2, <2>3 DEF Sums
    <2> QED
      BY <1>1, <1>2, <2>4, TallyKept DEF OnLine, PerLine
  <1> QED
    BY <1>1, <1>6, <1>7

LEMMA TallyStep == TypeOK /\ Tally /\ [Next]_vars => Tally'
  <1> SUFFICES ASSUME TypeOK, Tally, [Next]_vars PROVE Tally'
    OBVIOUS
  <1>1. ASSUME NEW p \in Workers, NEW body \in Deliveries \cup Allocations,
               Receive(p, body) \/ Allocate(p, body)
        PROVE  Tally'
    BY <1>1, TallyStart DEF Receive, Allocate
  <1>2. ASSUME NEW p \in Workers, NEW s \in Patches, Update(p, s) PROVE Tally'
    BY <1>2, TallyStart DEF Update
  <1>3. ASSUME NEW p \in Workers, Crash(p) PROVE Tally'
    BY <1>3 DEF Crash, Tally
  <1>4. CASE UNCHANGED vars
    BY <1>4 DEF vars, tables, worker, Tally, Alone, Sums, OnLine, Adding, Item, Qty, Counted
  <1>5. ASSUME NEW p \in Workers,
               \/ ReadItem(p) \/ Reject(p) \/ AddStock(p) \/ Record(p) \/ DiffItem(p)
               \/ SaveItem(p) \/ DeriveStatus(p) \/ DiffOrder(p) \/ SaveOrder(p)
        PROVE  Tally'
    <2>1. disturbed' = disturbed
      BY <1>5 DEF ReadItem, Reject, AddStock, Record, DiffItem, SaveItem, DeriveStatus, DiffOrder, SaveOrder
    <2>2. CASE disturbed
      BY <2>1, <2>2 DEF Tally
    <2>3. CASE ~disturbed /\ (Reject(p) \/ SaveOrder(p))
      BY <2>3, TallyReturn DEF Reject, SaveOrder, tables, Late
    <2>4. CASE ~disturbed /\ (DeriveStatus(p) \/ DiffOrder(p))
      <3>1. /\ step[p] \in {"readItem", "diffOrder"} /\ step'[p] \in {"diffOrder", "saveOrder"}
            /\ UNCHANGED <<items, records, stocked, delivered>>
            /\ \A q \in Workers \ {p} :
                  UNCHANGED <<step[q], handler[q], lines[q], row[q], dirty[q], order[q]>>
        BY <2>4 DEF DeriveStatus, DiffOrder, Goto, tables, TypeOK
      <3> QED
        BY <2>4, <3>1, OnlyOne, TallyBetween DEF Tally, Late, OnLine, PerLine
    <2> QED
      BY <1>5, <2>2, <2>3, <2>4, TallyRead, TallyAdd, TallySave
  <1> QED
    BY <1>1, <1>2, <1>3, <1>4, <1>5 DEF Next

LEMMA TallyInit == Init => Tally
  BY DEF Init, Tally, Alone, Sums, OnLine, PerLine, NoRow, Zero

-----------------------------------------------------------------------------
(* The status is true if no PUT claims that the goods are in: what a       *)
(* handler has derived stays so, as only one that read another status than *)
(* allocated works on the items.                                           *)

\* What a status says of the items.
Full  == \A i \in Items : items[i].received >= Ordered[i]
AllIn == \A i \in Items : items[i].allocated >= items[i].received /\ items[i].received > 0
Tells(s) == (s = "received" => Full) /\ (s = "allocated" => AllIn)

Telling ==
    ~disturbed =>
        /\ Tells(status)
        /\ \A p \in Workers : step[p] # "idle" =>
              /\ Tells(order[p])
              /\ handler[p] # "update" => status # "allocated"
              /\ step[p] \in PerLine \cup {"readItem"} => order[p] # "allocated"

\* No PUT sets a status that says what came in or went out.
NoClaims == Patches \cap {"received", "allocated"} = {}

\* Between two lines, or for a handler that only saves the order, nothing counted changes.
LEMMA TellingOrder ==
    ASSUME TypeOK, Telling, ~disturbed, NEW p \in Workers, Only(p), UNCHANGED items,
           status' = status \/ (status' = order[p] /\ step[p] = "saveOrder" /\ step'[p] = "idle"),
           step'[p] # "idle" =>
              /\ Tells(order'[p]) /\ step[p] # "idle"
              /\ handler'[p] = handler[p]
              /\ step'[p] \in PerLine \cup {"readItem"} =>
                    order'[p] = order[p] /\ step[p] \in PerLine \cup {"readItem"}
    PROVE  Telling'
  <1>1. (Full => Full') /\ (AllIn => AllIn')
    BY DEF Full, AllIn
  <1>2. (status' = "received" => Full') /\ (status' = "allocated" => AllIn')
    BY <1>1 DEF Telling, Tells
  <1>3. step'[p] # "idle" =>
          /\ (order'[p] = "received" => Full') /\ (order'[p] = "allocated" => AllIn')
          /\ handler'[p] # "update" => status' # "allocated"
          /\ step'[p] \in PerLine \cup {"readItem"} => order'[p] # "allocated"
    BY <1>1 DEF Telling, Tells
  <1> QED
    BY <1>2, <1>3 DEF Telling, Only, Tells

LEMMA TellingSave ==
    ASSUME TypeOK, Tally, Telling, ~disturbed, NEW p \in Workers, SaveItem(p)
    PROVE  Telling'
  <1> DEFINE r == items[Item(p)]
  <1>1. /\ Item(p) \in Items /\ Qty(p) \in Nat /\ r \in ItemRow /\ step[p] = "saveItem"
        /\ handler[p] \in {"receive", "allocate"} /\ row[p] = r
        /\ UNCHANGED <<status, order, handler>> /\ step'[p] = "readItem"
        /\ \A q \in Workers \ {p} :
              UNCHANGED <<step[q], handler[q], lines[q], row[q], dirty[q], order[q]>>
        /\ \A i \in Items \ {Item(p)} : items'[i] = items[i]
    BY LineType DEF SaveItem, Goto, TypeOK, PerLine, Tally, OnLine
  <1>2. items'[Item(p)].received \in {r.received, Entity(p).received}
    BY <1>1 DEF SaveItem, TypeOK
  <1>3. items'[Item(p)].received >= r.received
    BY <1>1, <1>2 DEF Entity, ItemRow
  <1>4. \A i \in Items : items[i].received \in Nat /\ Ordered[i] \in Nat
    BY OrderedAssumption DEF TypeOK, ItemRow
  <1>5. items'[Item(p)].received \in Nat
    BY <1>1, <1>2 DEF Entity, ItemRow
  <1>6. Full => Full'
    <2> SUFFICES ASSUME Full, NEW i \in Items PROVE items'[i].received >= Ordered[i]
      BY DEF Full
    <2>1. CASE i = Item(p)
      BY <1>1, <1>3, <1>4, <1>5, <2>1 DEF Full
    <2>2. CASE i # Item(p)
      BY <1>1, <2>2 DEF Full
    <2> QED
      BY <2>1, <2>2
  <1>7. status # "allocated" /\ order[p] # "allocated"
    BY <1>1 DEF Telling, PerLine
  <1>8. Tells(status) /\ Tells(order[p])
    BY <1>1 DEF Telling
  <1>9. Tells(status)' /\ Tells(order[p])'
    BY <1>1, <1>6, <1>7, <1>8 DEF Tells
  <1> QED
    BY <1>1, <1>7, <1>9, OnlyOne DEF Only, Telling

LEMMA TellingStart ==
    ASSUME TypeOK, Tally, Telling, NEW p \in Workers, NEW h, NEW body, NEW s,
           NEW first \in {"readItem", "diffOrder"}, Start(p, h, body, s, first),
           h # "update" => status # "allocated",
           first = "readItem" => s # "allocated",
           s \notin {"received", "allocated"} \/ s = status
    PROVE  Telling'
  <1> SUFFICES ASSUME ~disturbed' PROVE Telling'
    BY DEF Telling
  <1>1. /\ ~disturbed /\ \A q \in Workers : step[q] = "idle"
        /\ UNCHANGED <<items, status>> /\ step'[p] = first /\ handler'[p] = h /\ order'[p] = s
        /\ \A q \in Workers \ {p} : step'[q] = step[q]
    BY DEF Start, tables, TypeOK
  <1>2. Tells(status)' /\ Tells(s)'
    BY <1>1 DEF Telling, Tells, Full, AllIn
  <1> QED
    BY <1>1, <1>2 DEF Telling, PerLine

LEMMA TellingStep == NoClaims /\ TypeOK /\ Tally /\ Telling /\ [Next]_vars => Telling'
  <1> SUFFICES ASSUME NoClaims, TypeOK, Tally, Telling, [Next]_vars PROVE Telling'
    OBVIOUS
  <1>1. ASSUME NEW p \in Workers, NEW body \in Deliveries \cup Allocations,
               Receive(p, body) \/ Allocate(p, body)
        PROVE  Telling'
    BY <1>1, TellingStart DEF Receive, Allocate
  <1>2. ASSUME NEW p \in Workers, NEW s \in Patches, Update(p, s) PROVE Telling'
    BY <1>2, TellingStart DEF Update, NoClaims
  <1>3. ASSUME NEW p \in Workers, Crash(p) PROVE Telling'
    BY <1>3 DEF Crash, Telling
  <1>4. CASE UNCHANGED vars
    BY <1>4 DEF vars, tables, worker, Telling, Tells, Full, AllIn
  <1>5. ASSUME NEW p \in Workers,
               \/ ReadItem(p) \/ Reject(p) \/ AddStock(p) \/ Record(p) \/ DiffItem(p)
               \/ DeriveStatus(p) \/ DiffOrder(p) \/ SaveOrder(p),
               ~disturbed
        PROVE  Telling'
    <2>1. /\ step[p] # "idle" /\ UNCHANGED items
          /\ \A q \in Workers \ {p} :
                UNCHANGED <<step[q], handler[q], lines[q], row[q], dirty[q], order[q]>>
      <3>1. CASE Reject(p) \/ SaveOrder(p)
        BY <3>1 DEF Reject, SaveOrder, Return, tables, TypeOK
      <3>2. CASE ReadItem(p) \/ AddStock(p) \/ Record(p) \/ DiffItem(p) \/ DeriveStatus(p) \/ DiffOrder(p)
        BY <3>2 DEF ReadItem, AddStock, Record, DiffItem, DeriveStatus, DiffOrder, Goto, tables, TypeOK
      <3> QED
        BY <1>5, <3>1, <3>2
    <2>2. Only(p) /\ Tells(order[p])
      BY <1>5, <2>1, OnlyOne DEF Telling
    <2>3. CASE Reject(p) \/ SaveOrder(p)
      <3>1. /\ step'[p] = "idle"
            /\ status' = status \/ (status' = order[p] /\ step[p] = "saveOrder")
        BY <2>3 DEF Reject, SaveOrder, Return, tables, TypeOK
      <3> QED
        BY <1>5, <2>1, <2>2, <3>1, TellingOrder
    <2>4. CASE ReadItem(p) \/ AddStock(p) \/ Record(p) \/ DiffItem(p) \/ DiffOrder(p)
      <3>1. /\ UNCHANGED <<status, handler, order>>
            /\ step'[p] \in PerLine \cup {"readItem"} => step[p] \in PerLine \cup {"readItem"}
        BY <2>4 DEF ReadItem, AddStock, Record, DiffItem, DiffOrder, Goto, tables, TypeOK, PerLine
      <3> QED
        BY <1>5, <2>1, <2>2, <3>1, TellingOrder
    <2>5. CASE DeriveStatus(p)
      <3>1. /\ UNCHANGED <<status, handler>> /\ step'[p] = "diffOrder"
            /\ order'[p] \in {StatusAfterReceive(order[p]), StatusAfterAllocate(order[p])}
        BY <2>5 DEF DeriveStatus, Goto, tables, TypeOK
      <3>2. Tells(StatusAfterReceive(order[p])) /\ Tells(StatusAfterAllocate(order[p]))
        BY <2>2 DEF Tells, Full, AllIn, StatusAfterReceive, StatusAfterAllocate
      <3> QED
        BY <1>5, <2>1, <2>2, <3>1, <3>2, TellingOrder DEF PerLine
    <2> QED
      BY <1>5, <2>3, <2>4, <2>5
  <1>6. ASSUME NEW p \in Workers,
               \/ ReadItem(p) \/ Reject(p) \/ AddStock(p) \/ Record(p) \/ DiffItem(p)
               \/ SaveItem(p) \/ DeriveStatus(p) \/ DiffOrder(p) \/ SaveOrder(p)
        PROVE  Telling'
    <2>1. disturbed' = disturbed
      BY <1>6 DEF ReadItem, Reject, AddStock, Record, DiffItem, SaveItem, DeriveStatus, DiffOrder, SaveOrder
    <2>2. CASE disturbed
      BY <2>1, <2>2 DEF Telling
    <2> QED
      BY <1>5, <1>6, <2>2, TellingSave
  <1> QED
    BY <1>1, <1>2, <1>3, <1>4, <1>6 DEF Next

LEMMA TellingInit == Init => Telling
  BY DEF Init, Telling, Tells

\* Handlers that take turns leave running totals that are the receipts, the records
\* and the stock; and, if no PUT says otherwise, a status that is true of them.
THEOREM TurnsAddUp == NoClaims /\ Spec => []OrderAddsUp
  <1>1. TypeOK /\ Tally => QuantitiesAgree
    BY DEF Tally, Sums, Adding, Late, QuantitiesAgree, Settled
  <1>2. TypeOK /\ Tally /\ Telling => StatusIsTrue
    <2> SUFFICES ASSUME TypeOK, Tally, Telling, Settled PROVE StatusIsTrue
      BY DEF StatusIsTrue
    <2>1. Tells(status) /\ \A i \in Items : /\ items[i].received = delivered[i]
                                            /\ items[i].allocated <= items[i].received
                                            /\ stocked[i] = items[i].allocated
      BY DEF Settled, Telling, Tally, Sums, Adding, Late
    <2>2. \A i \in Items : items[i].received \in Nat /\ items[i].allocated \in Nat
      BY DEF TypeOK, ItemRow
    <2> QED
      BY <2>1, <2>2 DEF StatusIsTrue, Tells, Full, AllIn
  <1>3. NoClaims => NoClaims'
    BY DEF NoClaims
  <1> QED
    BY <1>1, <1>2, <1>3, TypeInit, TypeStep, TallyInit, TallyStep, TellingInit, TellingStep, PTL
       DEF Spec, OrderAddsUp
=============================================================================
