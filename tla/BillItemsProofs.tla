--------------------------- MODULE BillItemsProofs ---------------------------
(***************************************************************************)
(* That a bill's stored totals are those of its lines, and that a completed*)
(* bill shows the total it was sold for, for any bills, lines and handlers *)
(* and for any prices: there Totals is an unknown function of the lines.   *)
(* And what Totals computes: its type, and how far it can be from what is  *)
(* printed line by line.                                                   *)
(*                                                                         *)
(* The inductive invariant says of a handler that is alone at its bill     *)
(* what it holds in memory: the lines as they are but for the one it has   *)
(* yet to write, and after that totals computed from just these, unless an *)
(* amount is finer than its column, for then rows are not what was         *)
(* computed.                                                               *)
(***************************************************************************)
EXTENDS BillItems, FiniteSetTheorems, TLAPS

ItemSteps == {"create", "diffItem", "saveItem", "delete"}
Steps == ItemSteps \cup {"idle", "readAgain", "sell", "softDelete", "diff", "save"}

\* A function on S, whatever its values.
On(f, S) == f = [x \in S |-> f[x]]

Shape ==
    /\ On(items, Items) /\ \A i \in Items : On(items[i], ItemColumns)
    /\ On(bills, Bills) /\ \A b \in Bills : On(bills[b], BillColumns)
    /\ handler \in [Workers -> {"none", "edit", "header", "complete"}]
    /\ step \in [Workers -> Steps]
    /\ subject \in [Workers -> Bills \cup {None}]
    /\ item \in [Workers -> Items \cup {None}]
    /\ On(header, Workers) /\ \A p \in Workers : On(header[p], BillColumns)
    /\ On(lines, Workers)
    /\ \A p \in Workers : On(lines[p], Items) /\ \A i \in Items : On(lines[p][i], ItemColumns)
    /\ On(dirty, Workers)
    /\ alone \in [Workers -> BOOLEAN]
    /\ care \in [Bills -> {"untouched", "fine", "mixed", "healed"}]
    /\ created \subseteq Items
    /\ \A p \in Workers :
          /\ step[p] = "idle" <=> subject[p] = None
          /\ step[p] \in ItemSteps => handler[p] = "edit" /\ item[p] \in Items
          /\ step[p] \in {"readAgain", "sell", "softDelete"} => handler[p] # "edit"

\* A line belongs to one bill for good, and so does whoever is about to write it.
Owned ==
    /\ \A i \in Items : items[i]["bill"] # None =>
          i \in created /\ items[i]["bill"] \in Bills /\ bills[items[i]["bill"]]["status"] # "None"
    /\ \A p \in Workers : subject[p] # None =>
          bills[subject[p]]["status"] # "None" /\ header[p]["status"] # "None"
    /\ \A p \in Workers : subject[p] # None /\ item[p] # None =>
          /\ item[p] \in created
          /\ items[item[p]]["bill"] \in {subject[p], None}
          /\ lines[p][item[p]]["bill"] \in {subject[p], None}
    /\ \A p, q \in Workers :
          subject[p] # None /\ subject[q] # None /\ item[p] # None /\ item[p] = item[q] =>
              subject[p] = subject[q]

\* At a bill that is not mixed there is one handler at most.
Turns ==
    \A p \in Workers :
        /\ subject[p] = None => ~alone[p]
        /\ subject[p] # None /\ care[subject[p]] # "mixed" => alone[p]
        /\ alone[p] => \A q \in Workers : q # p => subject[q] # subject[p]

\* The header of bill b has been kept in step with its lines.
InStep(b) == care[b] \notin {"mixed", "fine"}

Fresh(b) == \A c \in Amounts : bills[b][c] = Totals(ItemsOf(b))[c]

\* Lines L in memory are those of bill b, but for line i that is to be written.
AllBut(i, L, b) == L[i]["bill"] = b /\ \A j \in Items : j # i => L[j] = ItemsOf(b)[j]

InHand(p) ==
    /\ step[p] \in {"create", "diffItem", "saveItem"} => AllBut(item[p], lines[p], subject[p])
    /\ step[p] \in {"diffItem", "saveItem"} => items[item[p]]["bill"] = subject[p]
    /\ step[p] = "saveItem" => \A c \in ItemColumns \ dirty[p] :
          lines[p][item[p]][c] = items[item[p]][c]
    /\ step[p] = "delete" => lines[p] = ItemsOf(subject[p])
    /\ handler[p] = "edit" /\ InStep(subject[p]) => AtPrecision(lines[p])
    /\ handler[p] = "edit" /\ step[p] \in {"diff", "save"} =>
          /\ AtPrecision(lines[p]) => lines[p] = ItemsOf(subject[p])
          /\ \A c \in Amounts : header[p][c] = Totals(lines[p])[c]
    /\ handler[p] # "edit" /\ InStep(subject[p]) => Fresh(subject[p])
    /\ handler[p] # "edit" /\ care[subject[p]] # "mixed" /\ step[p] # "readAgain" =>
          \A c \in Amounts : header[p][c] = bills[subject[p]][c]
    /\ step[p] = "save" => \A c \in BillColumns \ dirty[p] : header[p][c] = bills[subject[p]][c]

Settled == \A b \in Bills :
    bills[b]["status"] # "None" /\ InStep(b) /\ ~Busy(b) => Fresh(b)

IInv ==
    /\ Shape /\ Owned /\ Turns /\ Settled
    /\ \A p \in Workers : alone[p] => InHand(p)

-----------------------------------------------------------------------------
LEMMA NoRows == On(NoItem, ItemColumns) /\ On(NoBill, BillColumns) /\ NoItem["bill"] = None
  BY DEF On, NoItem, NoBill, ItemColumns

-----------------------------------------------------------------------------
(* Rounding.                                                               *)

LEMMA DivBounds ==
    ASSUME NEW a \in Int, NEW m \in Nat \ {0}
    PROVE  /\ a \div m \in Int /\ a \in Nat => a \div m \in Nat
           /\ m * (a \div m) <= a /\ a < m * (a \div m) + m
  BY SMT

LEMMA RoundBounds ==
    ASSUME NEW n \in Nat, NEW d \in Nat \ {0}
    PROVE  /\ Round(n, d) \in Nat
           /\ 2 * (d * Round(n, d) - n) \in -d .. d
  <1>1. PICK a \in Nat, m \in Nat \ {0} : a = 2 * n + d /\ m = 2 * d
    OBVIOUS
  <1>2. Round(n, d) = a \div m
    BY <1>1 DEF Round
  <1>3. PICK k \in Nat : k = a \div m
    BY DivBounds
  <1>4. m * k <= a /\ a < m * k + m
    BY <1>3, DivBounds
  <1>5. m * k = 2 * (d * k) /\ d * k \in Int
    BY <1>1
  <1> QED
    BY <1>1, <1>2, <1>3, <1>4, <1>5

\* Cancelling a positive factor.
LEMMA Cancel ==
    ASSUME NEW k \in Nat \ {0}, NEW x \in Int, NEW n \in Nat, k * x \in -(k * n) .. k * n
    PROVE  x \in -n .. n
  <1>1. CASE x > n
    <2>1. k * x = k * n + k * (x - n) /\ k * (x - n) > 0
      BY <1>1
    <2> QED
      BY <2>1
  <1>2. CASE x < -n
    <2>1. k * x = -(k * n) - k * (-n - x) /\ k * (-n - x) > 0
      BY <1>2
    <2> QED
      BY <2>1
  <1> QED
    BY <1>1, <1>2

\* What is whole already stays as it is.
LEMMA RoundWhole ==
    ASSUME NEW x \in Nat, NEW d \in Nat \ {0}
    PROVE  Round(d * x, d) = x
  <1>1. d * x \in Nat
    OBVIOUS
  <1>2. PICK R \in Nat : R = Round(d * x, d) /\ 2 * (d * R - d * x) \in -d .. d
    BY <1>1, RoundBounds
  <1>3. d * (2 * (R - x)) \in -(d * 1) .. d * 1
    <2>1. d * (2 * (R - x)) = 2 * (d * R - d * x)
      OBVIOUS
    <2> QED
      BY <1>2, <2>1
  <1>4. 2 * (R - x) \in -1 .. 1
    <2>1. 2 * (R - x) \in Int
      OBVIOUS
    <2> QED
      BY <1>3, <2>1, Cancel
  <1> QED
    BY <1>2, <1>4

LEMMA RoundNone == \A d \in Nat \ {0} : Round(0, d) = 0
  <1> SUFFICES ASSUME NEW d \in Nat \ {0} PROVE Round(0, d) = 0
    OBVIOUS
  <1>1. d * 0 = 0
    OBVIOUS
  <1> QED
    BY <1>1, RoundWhole

-----------------------------------------------------------------------------
(* What columns keep of a line.                                            *)

LEMMA StoredRows ==
    ASSUME NEW r
    PROVE  /\ On(Stored(r), ItemColumns) /\ On(ReadBack(r), ItemColumns)
           /\ Stored(r)["bill"] = r["bill"] /\ ReadBack(r)["bill"] = r["bill"]
  BY DEF On, Stored, ReadBack, ItemColumns, Fields

\* A line as columns keep it is read back as it was written.
LEMMA StoredReadBack ==
    ASSUME NEW r, On(r, ItemColumns)
    PROVE  /\ Stored(r) = r => ReadBack(r) = r
           /\ Stored(ReadBack(r)) = ReadBack(r) => ReadBack(r) = Stored(r)
  <1>1. ASSUME Stored(r) = r PROVE ReadBack(r) = r
    <2>1. \A c \in ItemColumns : ReadBack(r)[c] = r[c]
      BY <1>1 DEF ReadBack
    <2> QED
      BY <2>1, StoredRows DEF On
  <1>2. ASSUME Stored(ReadBack(r)) = ReadBack(r) PROVE ReadBack(r) = Stored(r)
    <2>1. ASSUME NEW c \in ItemColumns PROVE ReadBack(r)[c] = Stored(r)[c]
      <3>1. CASE c \in {"taxRate", "discount"}
        BY <2>1, <3>1 DEF ReadBack
      <3>2. CASE c \notin {"taxRate", "discount"}
        <4>1. ReadBack(r)[c] = r[c]
          BY <2>1, <3>2 DEF ReadBack
        <4>2. Stored(ReadBack(r))[c] = Stored(r)[c]
          BY <2>1, <4>1 DEF Stored
        <4> QED
          BY <1>2, <4>2
      <3> QED
        BY <3>1, <3>2
    <2> QED
      BY <2>1, StoredRows DEF On
  <1> QED
    BY <1>1, <1>2

LEMMA StoredNone == Stored(NoItem) = NoItem
  <1>1. Fine * Round(0, Fine) = 0
    BY RoundNone, ScaleAssumption
  <1>2. ASSUME NEW c \in ItemColumns PROVE Stored(NoItem)[c] = NoItem[c]
    BY <1>1, <1>2 DEF Stored, NoItem, Fields
  <1> QED
    BY <1>2, StoredRows, NoRows DEF On

-----------------------------------------------------------------------------
(* Who is concerned by a step.                                             *)

\* What a handler other than p keeps when p takes a step at bill b.
Same(q) ==
    /\ handler'[q] = handler[q] /\ step'[q] = step[q] /\ subject'[q] = subject[q]
    /\ item'[q] = item[q] /\ header'[q] = header[q] /\ lines'[q] = lines[q]
    /\ dirty'[q] = dirty[q]

AtBill(p, b) ==
    /\ \A q \in Workers \ {p} : Same(q) /\ (alone'[q] => alone[q] /\ subject[q] # b)
    /\ \A d \in Bills \ {b} : bills'[d] = bills[d] /\ care'[d] = care[d]
    /\ \A i \in Items :
          \/ items'[i] = items[i]
          \/ (items[i]["bill"] \in {b, None} /\ items'[i]["bill"] \in {b, None})

LEMMA OtherItems ==
    ASSUME NEW p \in Workers, NEW b \in Bills, AtBill(p, b), NEW d \in Bills \ {b}
    PROVE  ItemsOf(d)' = ItemsOf(d)
  <1>1. \A i \in Items : (IF items'[i]["bill"] = d THEN items'[i] ELSE NoItem)
                         = (IF items[i]["bill"] = d THEN items[i] ELSE NoItem)
    BY NoneAssumption DEF AtBill
  <1> QED
    BY <1>1 DEF ItemsOf

\* Whoever works at another bill is not concerned, nor is a bill nobody works at.
LEMMA Others ==
    ASSUME IInv, NEW p \in Workers, NEW b \in Bills, AtBill(p, b), subject[p] \in {b, None},
           subject'[p] \in {b, None}
    PROVE  /\ \A q \in Workers \ {p} : alone'[q] => InHand(q)'
           /\ \A d \in Bills \ {b} :
                 bills'[d]["status"] # "None" /\ InStep(d)' /\ ~Busy(d)' => Fresh(d)'
  <1>1. ASSUME NEW q \in Workers \ {p}, alone'[q] PROVE InHand(q)'
    <2>1. alone[q] /\ subject[q] # b /\ Same(q) /\ InHand(q)
      BY <1>1 DEF AtBill, IInv
    <2>2. subject[q] \in Bills \ {b}
      BY <2>1 DEF IInv, Turns, Shape
    <2>3. ItemsOf(subject[q])' = ItemsOf(subject[q])
      BY <2>1, <2>2, OtherItems DEF Same, ItemsOf
    <2>4. bills'[subject[q]] = bills[subject[q]] /\ care'[subject[q]] = care[subject[q]]
      BY <2>2 DEF AtBill
    <2>5. items[item[q]]["bill"] = subject[q] /\ item[q] \in Items => items'[item[q]] = items[item[q]]
      BY <2>2, NoneAssumption DEF AtBill
    <2>6. step[q] \in {"diffItem", "saveItem"} => item[q] \in Items
      BY DEF IInv, Shape, ItemSteps
    <2>7. Fresh(subject[q]) => Fresh(subject[q])'
      BY <2>1, <2>3, <2>4 DEF Fresh, Same
    <2>8. AllBut(item[q], lines[q], subject[q]) => AllBut(item[q], lines[q], subject[q])'
      BY <2>1, <2>3 DEF AllBut, Same
    <2> QED
      BY <2>1, <2>3, <2>4, <2>5, <2>6, <2>7, <2>8 DEF InHand, Same, InStep, AtPrecision
  <1>2. ASSUME NEW d \in Bills \ {b}, bills'[d]["status"] # "None", InStep(d)', ~Busy(d)'
        PROVE  Fresh(d)'
    <2>1. ~Busy(d)
      BY <1>2, NoneAssumption DEF Busy, AtBill, Same
    <2>2. Fresh(d)
      BY <1>2, <2>1 DEF IInv, Settled, AtBill, InStep
    <2> QED
      BY <2>2, OtherItems DEF Fresh, AtBill
  <1> QED
    BY <1>1, <1>2

-----------------------------------------------------------------------------
(* Starting.                                                               *)

LEMMA Begins ==
    ASSUME IInv, NEW p \in Workers, NEW h \in {"edit", "header", "complete"}, NEW b \in Bills,
           NEW i \in Items \cup {None}, NEW hd, NEW L, NEW first \in Steps \ {"idle", "save", "saveItem"},
           Start(p, h, b, i, hd, L, first),
           On(hd, BillColumns), On(L, Items), \A j \in Items : On(L[j], ItemColumns),
           first \in ItemSteps => h = "edit" /\ i \in Items,
           first \in {"readAgain", "sell", "softDelete"} => h # "edit",
           created \subseteq created', created' \subseteq Items, i # None => i \in created',
           hd["status"] # "None",
           i # None => L[i]["bill"] \in {b, None} /\ items[i]["bill"] \in {b, None},
           \A q \in Workers : i # None /\ subject[q] # None /\ item[q] = i => subject[q] = b,
           first \in {"create", "diffItem"} => AllBut(i, L, b),
           first = "diffItem" => items[i]["bill"] = b,
           first = "delete" => L = ItemsOf(b),
           first = "diff" => h # "edit",
           h # "edit" => \A c \in Amounts : hd[c] = bills[b][c]
    PROVE  IInv'
  <1>1. /\ step[p] = "idle" /\ subject[p] = None /\ ~alone[p]
        /\ Exists(b) /\ b # None
    BY NoneAssumption DEF Start, IInv, Shape, Turns
  <1>2. Shape'
    <2>1. /\ On(header', Workers) /\ \A q \in Workers : On(header'[q], BillColumns)
          /\ On(lines', Workers)
          /\ \A q \in Workers : On(lines'[q], Items) /\ \A j \in Items : On(lines'[q][j], ItemColumns)
      <3>1. header' = [header EXCEPT ![p] = hd] /\ lines' = [lines EXCEPT ![p] = L]
        BY DEF Start
      <3>2. On(header, Workers) /\ On(lines, Workers)
        BY DEF IInv, Shape
      <3>3. /\ \A q \in Workers : header'[q] = IF q = p THEN hd ELSE header[q]
            /\ \A q \in Workers : lines'[q] = IF q = p THEN L ELSE lines[q]
            /\ On(header', Workers) /\ On(lines', Workers)
        BY <3>1, <3>2 DEF On
      <3> QED
        BY <3>3 DEF IInv, Shape
    <2>2. /\ handler' \in [Workers -> {"none", "edit", "header", "complete"}]
          /\ step' \in [Workers -> Steps]
          /\ subject' \in [Workers -> Bills \cup {None}]
          /\ item' \in [Workers -> Items \cup {None}]
          /\ alone' \in [Workers -> BOOLEAN]
          /\ care' \in [Bills -> {"untouched", "fine", "mixed", "healed"}]
      BY DEF Start, Touch, IInv, Shape, Busy
    <2>3. \A q \in Workers :
          /\ step'[q] = "idle" <=> subject'[q] = None
          /\ step'[q] \in ItemSteps => handler'[q] = "edit" /\ item'[q] \in Items
          /\ step'[q] \in {"readAgain", "sell", "softDelete"} => handler'[q] # "edit"
      BY <1>1 DEF Start, IInv, Shape
    <2>4. UNCHANGED <<items, bills, dirty>>
      BY DEF Start, tables
    <2> QED
      BY <2>1, <2>2, <2>3, <2>4 DEF IInv, Shape
  <1>3. /\ step'[p] = first /\ subject'[p] = b /\ handler'[p] = h /\ item'[p] = i
        /\ header'[p] = hd /\ lines'[p] = L /\ alone'[p] = ~Busy(b)
        /\ bills' = bills /\ items' = items
    BY DEF Start, IInv, Shape, On, tables
  <1>4. AtBill(p, b)
    <2>1. \A q \in Workers \ {p} : Same(q)
      <3>1. /\ On(handler, Workers) /\ On(step, Workers) /\ On(subject, Workers)
            /\ On(item, Workers) /\ On(header, Workers) /\ On(lines, Workers)
        BY DEF IInv, Shape, On
      <3>2. /\ handler' = [handler EXCEPT ![p] = h] /\ step' = [step EXCEPT ![p] = first]
            /\ subject' = [subject EXCEPT ![p] = b] /\ item' = [item EXCEPT ![p] = i]
            /\ header' = [header EXCEPT ![p] = hd] /\ lines' = [lines EXCEPT ![p] = L]
            /\ dirty' = dirty
        BY DEF Start
      <3> QED
        BY <3>1, <3>2 DEF On, Same
    <2>2. \A q \in Workers \ {p} : alone'[q] => alone[q] /\ subject[q] # b
      BY DEF Start
    <2>3. \A d \in Bills \ {b} : care'[d] = care[d]
      BY DEF Start, Touch, IInv, Shape
    <2>4. \A d \in Bills \ {b} : bills'[d] = bills[d]
      BY <1>3
    <2>5. \A j \in Items : items'[j] = items[j]
      BY <1>3
    <2> QED
      BY <2>1, <2>2, <2>3, <2>4, <2>5 DEF AtBill
  <1>5. ItemsOf(b)' = ItemsOf(b)
    BY <1>3 DEF ItemsOf
  <1>6. Owned'
    <2>1. \A q \in Workers \ {p} : Same(q)
      BY <1>4 DEF AtBill
    <2>2. \A j \in Items : items[j]["bill"] # None =>
             j \in created' /\ items[j]["bill"] \in Bills /\ bills[items[j]["bill"]]["status"] # "None"
      BY DEF IInv, Owned
    <2>3. ASSUME NEW q \in Workers, subject'[q] # None
          PROVE  bills[subject'[q]]["status"] # "None" /\ header'[q]["status"] # "None"
      BY <1>1, <1>3, <2>1, <2>3 DEF IInv, Owned, Same, Exists
    <2>4. ASSUME NEW q \in Workers, subject'[q] # None, item'[q] # None
          PROVE  /\ item'[q] \in created'
                 /\ items[item'[q]]["bill"] \in {subject'[q], None}
                 /\ lines'[q][item'[q]]["bill"] \in {subject'[q], None}
      BY <1>3, <2>1, <2>4 DEF IInv, Owned, Same
    <2>5. ASSUME NEW q \in Workers, NEW r \in Workers, subject'[q] # None, subject'[r] # None,
                 item'[q] # None, item'[q] = item'[r]
          PROVE  subject'[q] = subject'[r]
      <3>1. CASE q # p /\ r # p
        BY <2>1, <2>5, <3>1 DEF IInv, Owned, Same
      <3>2. CASE q = p \/ r = p
        BY <1>3, <2>1, <2>5, <3>2 DEF Same
      <3> QED
        BY <3>1, <3>2
    <2> QED
      BY <1>3, <2>2, <2>3, <2>4, <2>5 DEF Owned
  <1>7. Turns'
    <2>1. ASSUME NEW q \in Workers PROVE
            /\ subject'[q] = None => ~alone'[q]
            /\ subject'[q] # None /\ care'[subject'[q]] # "mixed" => alone'[q]
            /\ alone'[q] => \A r \in Workers : r # q => subject'[r] # subject'[q]
      <3>1. CASE q = p
        <4>1. care'[b] # "mixed" => ~Busy(b)
          BY DEF Start, Touch, IInv, Shape
        <4>2. ~Busy(b) => \A r \in Workers : r # p => subject'[r] # b
          BY <1>4 DEF AtBill, Same, Busy
        <4> QED
          BY <1>1, <1>3, <3>1, <4>1, <4>2
      <3>2. CASE q # p
        <4>1. Same(q) /\ (alone'[q] = (alone[q] /\ subject[q] # b))
          BY <1>4, <3>2 DEF Start, AtBill
        <4>2. subject[q] = b => care'[b] = "mixed"
          BY DEF Start, Touch, IInv, Shape, Busy
        <4>3. care'[subject[q]] # "mixed" => care[subject[q]] # "mixed"
          BY DEF Start, Touch, IInv, Shape
        <4>4. \A r \in Workers : subject'[r] = subject[r] \/ subject'[r] = b
          BY <1>3, <1>4 DEF AtBill, Same
        <4> QED
          BY <4>1, <4>2, <4>3, <4>4 DEF Same, IInv, Turns
      <3> QED
        BY <3>1, <3>2
    <2> QED
      BY <2>1 DEF Turns
  <1>8. /\ \A q \in Workers \ {p} : alone'[q] => InHand(q)'
        /\ \A d \in Bills \ {b} :
              bills'[d]["status"] # "None" /\ InStep(d)' /\ ~Busy(d)' => Fresh(d)'
    BY <1>1, <1>3, <1>4, Others
  <1>9. alone'[p] => InHand(p)'
    <2>1. ASSUME alone'[p], h # "edit", InStep(b)' PROVE Fresh(b)'
      <3>1. ~Busy(b) /\ InStep(b) /\ bills[b]["status"] # "None"
        BY <1>1, <1>3, <2>1 DEF Start, Touch, Exists, InStep, IInv, Shape
      <3> QED
        BY <1>3, <1>5, <3>1 DEF IInv, Settled, Fresh
    <2>2. AllBut(i, L, b) => AllBut(item[p], lines[p], subject[p])'
      BY <1>3, <1>5 DEF AllBut
    <2>3. Fresh(b)' => Fresh(subject[p])'
      BY <1>3 DEF Fresh, ItemsOf
    <2>4. ItemsOf(subject[p])' = ItemsOf(b)
      BY <1>3, <1>5 DEF ItemsOf
    <2>5. InStep(b)' => AtPrecision(L)
      BY DEF Start, Touch, InStep, IInv, Shape
    <2>6. AtPrecision(L) => AtPrecision(lines[p])'
      BY <1>3 DEF AtPrecision
    <2>7. InStep(subject[p])' = InStep(b)'
      BY <1>3 DEF InStep
    <2> QED
      BY <1>3, <2>1, <2>2, <2>3, <2>4, <2>5, <2>6, <2>7 DEF InHand, ItemSteps, Steps
  <1>10. Busy(b)'
    BY <1>3 DEF Busy
  <1>11. Settled'
    BY <1>8, <1>10 DEF Settled
  <1> QED
    BY <1>2, <1>6, <1>7, <1>8, <1>9, <1>11 DEF IInv

-----------------------------------------------------------------------------
(* Going on, and coming to an end.                                         *)

Here(p) ==
    /\ \A q \in Workers \ {p} : Same(q)
    /\ \A d \in Bills \ {subject[p]} : bills'[d] = bills[d] /\ care'[d] = care[d]
    /\ \A i \in Items :
          \/ items'[i] = items[i]
          \/ (/\ items[i]["bill"] \in {subject[p], None}
              /\ items'[i]["bill"] \in {subject[p], None}
              /\ i = item[p])

LEMMA HereAtBill ==
    ASSUME IInv, NEW p \in Workers, subject[p] # None, Here(p),
           \A q \in Workers \ {p} : alone'[q] = alone[q]
    PROVE  subject[p] \in Bills /\ AtBill(p, subject[p])
  <1>1. subject[p] \in Bills
    BY DEF IInv, Shape
  <1>2. \A q \in Workers \ {p} : alone'[q] => alone[q] /\ subject[q] # subject[p]
    BY DEF IInv, Turns
  <1> QED
    BY <1>1, <1>2 DEF Here, AtBill

LEMMA GoesOn ==
    ASSUME IInv, Shape', NEW p \in Workers, subject[p] # None, Here(p),
           UNCHANGED <<bills, subject, item, created, alone, care>>,
           header'[p]["status"] # "None",
           item[p] # None => lines'[p][item[p]]["bill"] \in {subject[p], None},
           alone[p] => InHand(p)'
    PROVE  IInv'
  <1> DEFINE b == subject[p]
  <1>1. b \in Bills /\ AtBill(p, b)
    BY HereAtBill
  <1>2. /\ \A q \in Workers \ {p} : alone'[q] => InHand(q)'
        /\ \A d \in Bills \ {b} :
              bills'[d]["status"] # "None" /\ InStep(d)' /\ ~Busy(d)' => Fresh(d)'
    BY <1>1, Others
  <1>3. Turns'
    BY DEF IInv, Turns
  <1>4. Owned'
    <2>1. \A q \in Workers \ {p} : header'[q] = header[q] /\ lines'[q] = lines[q]
      BY DEF Here, Same
    <2>2. \A j \in Items : items'[j]["bill"] # None =>
             j \in created /\ items'[j]["bill"] \in Bills /\ bills[items'[j]["bill"]]["status"] # "None"
      <3>1. ASSUME NEW j \in Items, items'[j] # items[j], items'[j]["bill"] # None
            PROVE  j \in created /\ items'[j]["bill"] = b
        BY <3>1, NoneAssumption DEF IInv, Owned, Here
      <3>2. bills[b]["status"] # "None"
        BY DEF IInv, Owned
      <3> QED
        BY <1>1, <3>1, <3>2 DEF IInv, Owned
    <2>3. \A q \in Workers : subject[q] # None =>
             bills[subject[q]]["status"] # "None" /\ header'[q]["status"] # "None"
      BY <2>1 DEF IInv, Owned
    <2>4. ASSUME NEW q \in Workers, subject[q] # None, item[q] # None
          PROVE  /\ item[q] \in created
                 /\ items'[item[q]]["bill"] \in {subject[q], None}
                 /\ lines'[q][item[q]]["bill"] \in {subject[q], None}
      <3>1. item[q] \in Items
        BY <2>4 DEF IInv, Shape
      <3>2. item[q] = item[p] => subject[q] = b
        BY <2>4 DEF IInv, Owned
      <3> QED
        BY <2>1, <2>4, <3>1, <3>2 DEF IInv, Owned, Here
    <2> QED
      BY <2>2, <2>3, <2>4 DEF Owned, IInv
  <1>5. Busy(b)'
    BY DEF Busy
  <1>6. Settled'
    BY <1>2, <1>5 DEF Settled
  <1> QED
    BY <1>2, <1>3, <1>4, <1>6 DEF IInv

LEMMA Ends ==
    ASSUME IInv, NEW p \in Workers, NEW b \in Bills, subject[p] = b,
           Return(p), UNCHANGED <<items, created>>,
           NEW row, bills' = [bills EXCEPT ![b] = row],
           On(row, BillColumns), row["status"] # "None",
           care' \in [Bills -> {"untouched", "fine", "mixed", "healed"}],
           \A d \in Bills \ {b} : care'[d] = care[d],
           care[b] = "mixed" /\ ~alone[p] => care'[b] = "mixed",
           InStep(b)' /\ alone[p] => \A c \in Amounts : row[c] = Totals(ItemsOf(b))[c]
    PROVE  IInv'
  <1>0. b # None
    BY NoneAssumption
  <1>1. /\ \A q \in Workers \ {p} : Same(q) /\ alone'[q] = alone[q]
        /\ subject'[p] = None /\ step'[p] = "idle" /\ item'[p] = None /\ ~alone'[p]
    BY DEF Return, IInv, Shape, On, Same
  <1>2. bills'[b] = row /\ \A d \in Bills \ {b} : bills'[d] = bills[d]
    BY DEF IInv, Shape, On
  <1>3. b \in Bills /\ AtBill(p, b)
    BY <1>0, <1>1, <1>2, HereAtBill DEF Here
  <1>4. Shape'
    <2>1. On(bills', Bills) /\ \A d \in Bills : On(bills'[d], BillColumns)
      <3>1. On(bills, Bills) /\ \A d \in Bills : On(bills[d], BillColumns)
        BY DEF IInv, Shape
      <3>2. On(bills', Bills)
        BY <3>1 DEF On
      <3>3. \A d \in Bills : bills'[d] = IF d = b THEN row ELSE bills[d]
        BY <1>2
      <3> QED
        BY <3>1, <3>2, <3>3
    <2>2. /\ handler' \in [Workers -> {"none", "edit", "header", "complete"}]
          /\ step' \in [Workers -> Steps]
          /\ subject' \in [Workers -> Bills \cup {None}]
          /\ item' \in [Workers -> Items \cup {None}]
          /\ alone' \in [Workers -> BOOLEAN]
          /\ created' \subseteq Items
      BY DEF Return, IInv, Shape, Steps
    <2>3. /\ On(header', Workers) /\ \A q \in Workers : On(header'[q], BillColumns)
          /\ On(lines', Workers) /\ On(dirty', Workers)
          /\ \A q \in Workers : On(lines'[q], Items) /\ \A j \in Items : On(lines'[q][j], ItemColumns)
      <3>1. /\ header' = [header EXCEPT ![p] = NoBill] /\ dirty' = [dirty EXCEPT ![p] = {}]
            /\ lines' = [lines EXCEPT ![p] = [j \in Items |-> NoItem]]
        BY DEF Return
      <3>2. On(header, Workers) /\ On(lines, Workers) /\ On(dirty, Workers)
        BY DEF IInv, Shape
      <3>3. /\ \A q \in Workers : header'[q] = IF q = p THEN NoBill ELSE header[q]
            /\ \A q \in Workers : lines'[q] = IF q = p THEN [j \in Items |-> NoItem] ELSE lines[q]
            /\ On(header', Workers) /\ On(lines', Workers) /\ On(dirty', Workers)
        BY <3>1, <3>2 DEF On
      <3>4. On([j \in Items |-> NoItem], Items)
        BY DEF On
      <3> QED
        BY <3>3, <3>4, NoRows DEF IInv, Shape
    <2>4. \A q \in Workers :
          /\ step'[q] = "idle" <=> subject'[q] = None
          /\ step'[q] \in ItemSteps => handler'[q] = "edit" /\ item'[q] \in Items
          /\ step'[q] \in {"readAgain", "sell", "softDelete"} => handler'[q] # "edit"
      BY <1>1 DEF IInv, Shape, Same, ItemSteps
    <2> QED
      BY <2>1, <2>2, <2>3, <2>4 DEF IInv, Shape
  <1>5. Owned'
    <2>1. \A d \in Bills : bills[d]["status"] # "None" => bills'[d]["status"] # "None"
      BY <1>2
    <2>2. \A q \in Workers : subject'[q] # None =>
             /\ subject'[q] \in Bills
             /\ subject'[q] = subject[q] /\ item'[q] = item[q]
             /\ header'[q] = header[q] /\ lines'[q] = lines[q]
      BY <1>1 DEF IInv, Shape, Same
    <2>3. \A j \in Items : items[j]["bill"] # None =>
             j \in created /\ items[j]["bill"] \in Bills /\ bills'[items[j]["bill"]]["status"] # "None"
      BY <2>1 DEF IInv, Owned
    <2>4. \A q \in Workers : subject'[q] # None =>
             bills'[subject'[q]]["status"] # "None" /\ header'[q]["status"] # "None"
      BY <2>1, <2>2 DEF IInv, Owned
    <2>5. \A q \in Workers : subject'[q] # None /\ item'[q] # None =>
             /\ item'[q] \in created
             /\ items[item'[q]]["bill"] \in {subject'[q], None}
             /\ lines'[q][item'[q]]["bill"] \in {subject'[q], None}
      BY <2>2 DEF IInv, Owned
    <2>6. \A q, r \in Workers :
             subject'[q] # None /\ subject'[r] # None /\ item'[q] # None /\ item'[q] = item'[r] =>
                 subject'[q] = subject'[r]
      BY <2>2 DEF IInv, Owned
    <2> QED
      BY <2>3, <2>4, <2>5, <2>6 DEF Owned
  <1>6. Turns'
    <2>1. ASSUME NEW q \in Workers, q # p
          PROVE  /\ subject'[q] = None => ~alone'[q]
                 /\ subject'[q] # None /\ care'[subject'[q]] # "mixed" => alone'[q]
                 /\ alone'[q] => \A r \in Workers : r # q => subject'[r] # subject'[q]
      <3>1. subject[q] = b => ~alone[p] /\ care[b] = "mixed"
        BY <2>1, <1>0, <1>3 DEF IInv, Turns
      <3>2. subject[q] # None /\ care'[subject[q]] # "mixed" => alone[q]
        BY <3>1 DEF IInv, Turns, Shape
      <3>3. alone[q] => subject[q] # None
        BY DEF IInv, Turns
      <3> QED
        BY <1>1, <2>1, <3>2, <3>3 DEF IInv, Turns, Same
    <2> QED
      BY <1>1, <2>1 DEF Turns
  <1>7. /\ \A q \in Workers \ {p} : alone'[q] => InHand(q)'
        /\ \A d \in Bills \ {b} :
              bills'[d]["status"] # "None" /\ InStep(d)' /\ ~Busy(d)' => Fresh(d)'
    BY <1>1, <1>3, Others
  <1>8. ASSUME InStep(b)', ~Busy(b)' PROVE Fresh(b)'
    <2>1. alone[p]
      <3>1. care[b] # "mixed" \/ alone[p]
        BY <1>8 DEF InStep
      <3> QED
        BY <3>1, <1>0 DEF IInv, Turns
    <2>2. \A c \in Amounts : bills'[b][c] = Totals(ItemsOf(b))[c]
      BY <1>2, <1>8, <2>1
    <2>3. \A d : ItemsOf(d)' = ItemsOf(d)
      BY DEF ItemsOf
    <2> QED
      BY <2>2, <2>3 DEF Fresh
  <1>9. Settled'
    BY <1>7, <1>8 DEF Settled
  <1> QED
    BY <1>1, <1>4, <1>5, <1>6, <1>7, <1>9 DEF IInv

-----------------------------------------------------------------------------
(* Every step.                                                             *)

LEMMA RequestKeeps ==
    ASSUME IInv, NEW p \in Workers, NEW b \in Bills, Request(p, b)
    PROVE  IInv'
  <1>1. /\ On(bills[b], BillColumns) /\ \A i \in Items : On(items[i], ItemColumns)
        /\ created \subseteq Items
    BY DEF IInv, Shape
  <1>2. On(ItemsOf(b), Items) /\ \A j \in Items : On(ItemsOf(b)[j], ItemColumns)
    BY <1>1, NoRows DEF ItemsOf, On
  <1>3. \A q \in Workers : subject[q] # None /\ item[q] # None =>
           item[q] \in created /\ items[item[q]]["bill"] \in {subject[q], None}
    BY DEF IInv, Owned
  <1>4. \A i \in Items : items[i]["bill"] # None => i \in created
    BY DEF IInv, Owned
  <1>5. \A i \in Items : ItemsOf(b)[i]["bill"] \in {b, None}
    BY NoRows DEF ItemsOf
  <1>6. b # None /\ None \notin Items
    BY NoneAssumption
  <1>7. \A l : On(Computed(b, l), ItemColumns) /\ Computed(b, l)["bill"] = b
    BY DEF Computed, On, ItemColumns
  <1>8. \A i \in Items : \A l :
           LET L == [ItemsOf(b) EXCEPT ![i] = Computed(b, l)]
           IN  /\ On(L, Items) /\ \A j \in Items : On(L[j], ItemColumns)
               /\ L[i]["bill"] = b /\ AllBut(i, L, b)
    BY <1>2, <1>7 DEF On, AllBut
  <1>9. \A h, i, hd, L, first : Start(p, h, b, i, hd, L, first) => bills[b]["status"] # "None"
    BY DEF Start, Exists
  <1>10. ASSUME NEW i \in Items, NEW l \in Lines, AddItem(p, b, i, l) PROVE IInv'
    <2>1. /\ i \notin created /\ created' = created \cup {i}
          /\ Start(p, "edit", b, i, bills[b], [ItemsOf(b) EXCEPT ![i] = Computed(b, l)], "create")
      BY <1>10 DEF AddItem
    <2>2. items[i]["bill"] = None /\ \A q \in Workers : subject[q] # None => item[q] # i
      BY <2>1, <1>3, <1>4, <1>6
    <2>3. PICK L : L = [ItemsOf(b) EXCEPT ![i] = Computed(b, l)]
      OBVIOUS
    <2>4. /\ On(L, Items) /\ \A j \in Items : On(L[j], ItemColumns)
          /\ L[i]["bill"] = b /\ AllBut(i, L, b)
      BY <2>3, <1>8
    <2>5. Start(p, "edit", b, i, bills[b], L, "create")
      BY <2>1, <2>3
    <2>6. bills[b]["status"] # "None"
      BY <2>5, <1>9
    <2> QED
      BY <2>1, <2>2, <2>4, <2>5, <2>6, <1>1, <1>6, Begins DEF Steps, ItemSteps
  <1>11. ASSUME NEW i \in Items, NEW F, NEW l, UpdateItem(p, b, i, F, l) PROVE IInv'
    <2> DEFINE line == [f \in Fields |-> IF f \in F THEN l[f] ELSE items[i][f]]
    <2>1. /\ items[i]["bill"] = b /\ created' = created
          /\ Start(p, "edit", b, i, bills[b], [ItemsOf(b) EXCEPT ![i] = Computed(b, line)], "diffItem")
      BY <1>11 DEF UpdateItem
    <2>2. \A q \in Workers : subject[q] # None /\ item[q] = i => subject[q] = b
      BY <2>1, <1>3, <1>6
    <2> HIDE DEF line
    <2>3. PICK L : L = [ItemsOf(b) EXCEPT ![i] = Computed(b, line)]
      OBVIOUS
    <2>4. /\ On(L, Items) /\ \A j \in Items : On(L[j], ItemColumns)
          /\ L[i]["bill"] = b /\ AllBut(i, L, b)
      BY <2>3, <1>8
    <2>5. Start(p, "edit", b, i, bills[b], L, "diffItem")
      BY <2>1, <2>3
    <2>6. bills[b]["status"] # "None"
      BY <2>5, <1>9
    <2> QED
      BY <2>1, <2>2, <2>4, <2>5, <2>6, <1>1, <1>4, <1>6, Begins DEF Steps, ItemSteps
  <1>12. ASSUME NEW i \in Items, RemoveItem(p, b, i) PROVE IInv'
    <2>1. /\ items[i]["bill"] = b /\ created' = created
          /\ Start(p, "edit", b, i, bills[b], ItemsOf(b), "delete")
      BY <1>12 DEF RemoveItem
    <2>2. \A q \in Workers : subject[q] # None /\ item[q] = i => subject[q] = b
      BY <2>1, <1>3, <1>6
    <2> QED
      BY <2>1, <2>2, <1>1, <1>2, <1>4, <1>5, <1>6, <1>9, Begins DEF Steps, ItemSteps
  <1>13. CASE UpdateBill(p, b)
    <2>1. created' = created /\ Start(p, "header", b, None, bills[b], ItemsOf(b), "diff")
      BY <1>13 DEF UpdateBill
    <2> QED
      BY <2>1, <1>1, <1>2, <1>9, Begins DEF Steps, ItemSteps
  <1>14. CASE DeleteBill(p, b)
    <2>1. created' = created /\ Start(p, "header", b, None, bills[b], ItemsOf(b), "softDelete")
      BY <1>14 DEF DeleteBill
    <2> QED
      BY <2>1, <1>1, <1>2, <1>9, Begins DEF Steps, ItemSteps
  <1>15. ASSUME NEW s \in BillStatus \ {"None"}, Transition(p, b, s) PROVE IInv'
    <2>1. created' = created
      BY <1>15 DEF Transition
    <2>2. CASE s = "Completed"
      <3>1. Start(p, "complete", b, None, bills[b], ItemsOf(b), "readAgain")
        BY <1>15, <2>2 DEF Transition
      <3> QED
        BY <2>1, <3>1, <1>1, <1>2, <1>9, Begins DEF Steps, ItemSteps
    <2>3. CASE s # "Completed"
      <3> DEFINE hd == [bills[b] EXCEPT !["status"] = s]
      <3>1. Start(p, "header", b, None, hd, ItemsOf(b), "diff")
        BY <1>15, <2>3 DEF Transition
      <3>2. On(hd, BillColumns) /\ hd["status"] = s /\ \A c \in Amounts : hd[c] = bills[b][c]
        BY <1>1 DEF On, BillColumns, Amounts
      <3> HIDE DEF hd
      <3> QED
        BY <2>1, <3>1, <3>2, <1>1, <1>2, <1>9, Begins DEF Steps, ItemSteps
    <2> QED
      BY <2>2, <2>3
  <1> QED
    BY <1>10, <1>11, <1>12, <1>13, <1>14, <1>15 DEF Request, EditItem

\* The line is committed, and totals are computed from lines L.
LEMMA LineWritten ==
    ASSUME IInv, NEW p \in Workers, step[p] \in ItemSteps, NEW row, NEW L, Rolled(p, L),
           items' = [items EXCEPT ![item[p]] = row], On(row, ItemColumns),
           row["bill"] \in {subject[p], None},
           lines' = [lines EXCEPT ![p] = L],
           On(L, Items), \A j \in Items : On(L[j], ItemColumns),
           L[item[p]]["bill"] \in {subject[p], None},
           alone[p] => \A j \in Items : j # item[p] => L[j] = ItemsOf(subject[p])[j],
           alone[p] /\ AtPrecision(L) => L[item[p]] = IF row["bill"] = None THEN NoItem ELSE row,
           alone[p] /\ InStep(subject[p]) => AtPrecision(L)
    PROVE  IInv'
  <1>1. /\ subject[p] \in Bills /\ subject[p] # None /\ item[p] \in Items
        /\ handler[p] = "edit"
    BY NoneAssumption DEF IInv, Shape, ItemSteps
  <1>2. /\ UNCHANGED <<bills, handler, subject, item, dirty, created, alone, care>>
        /\ header' = [header EXCEPT ![p] = WithTotals(header[p], L)]
        /\ step' = [step EXCEPT ![p] = "diff"]
    BY DEF Rolled, Goto
  <1>3. /\ On(header, Workers) /\ On(lines, Workers) /\ On(items, Items)
        /\ step \in [Workers -> Steps]
    BY DEF IInv, Shape
  <1>4. /\ On(header', Workers) /\ On(lines', Workers) /\ On(items', Items)
        /\ \A q \in Workers : header'[q] = IF q = p THEN WithTotals(header[p], L) ELSE header[q]
        /\ \A q \in Workers : lines'[q] = IF q = p THEN L ELSE lines[q]
        /\ \A q \in Workers : step'[q] = IF q = p THEN "diff" ELSE step[q]
        /\ \A j \in Items : items'[j] = IF j = item[p] THEN row ELSE items[j]
    BY <1>2, <1>3, <1>1 DEF On
  <1>5. /\ On(WithTotals(header[p], L), BillColumns)
        /\ WithTotals(header[p], L)["status"] = header[p]["status"]
        /\ \A c \in Amounts : WithTotals(header[p], L)[c] = Totals(L)[c]
    BY DEF WithTotals, On, BillColumns, Amounts
  <1>6. Shape'
    <2>1. /\ \A q \in Workers : On(header'[q], BillColumns)
          /\ \A q \in Workers : On(lines'[q], Items) /\ \A j \in Items : On(lines'[q][j], ItemColumns)
          /\ \A j \in Items : On(items'[j], ItemColumns)
      BY <1>4, <1>5 DEF IInv, Shape
    <2>2. step' \in [Workers -> Steps]
      BY <1>2, <1>3 DEF Steps
    <2>3. \A q \in Workers :
          /\ step'[q] = "idle" <=> subject[q] = None
          /\ step'[q] \in ItemSteps => handler[q] = "edit" /\ item[q] \in Items
          /\ step'[q] \in {"readAgain", "sell", "softDelete"} => handler[q] # "edit"
      BY <1>1, <1>4 DEF IInv, Shape, ItemSteps
    <2> QED
      BY <1>2, <1>4, <2>1, <2>2, <2>3 DEF IInv, Shape
  <1>7. Here(p)
    <2>1. items[item[p]]["bill"] \in {subject[p], None}
      BY <1>1, NoneAssumption DEF IInv, Owned
    <2> QED
      BY <1>2, <1>4, <2>1 DEF Here, Same
  <1>8. ASSUME alone[p] PROVE InHand(p)'
    <2>1. lines'[p] = L /\ subject'[p] = subject[p] /\ (AtPrecision(lines[p])' <=> AtPrecision(L))
      BY <1>2, <1>4 DEF AtPrecision
    <2>2. ASSUME AtPrecision(L) PROVE L = ItemsOf(subject[p])'
      <3>1. \A j \in Items : L[j] = IF items'[j]["bill"] = subject[p] THEN items'[j] ELSE NoItem
        BY <1>1, <1>4, <1>8, <2>2 DEF ItemsOf
      <3>2. L = [j \in Items |-> IF items'[j]["bill"] = subject[p] THEN items'[j] ELSE NoItem]
        BY <3>1 DEF On
      <3> QED
        BY <2>1, <3>2 DEF ItemsOf
    <2>3. \A c \in Amounts : header'[p][c] = Totals(lines[p])'[c]
      BY <1>4, <1>5, <2>1
    <2>4. InStep(subject[p])' => AtPrecision(lines[p])'
      BY <1>2, <1>8, <2>1 DEF InStep
    <2> QED
      BY <1>1, <1>2, <1>4, <2>1, <2>2, <2>3, <2>4 DEF InHand, ItemSteps
  <1>9. header[p]["status"] # "None"
    BY <1>1 DEF IInv, Owned
  <1> QED
    BY <1>1, <1>2, <1>4, <1>5, <1>6, <1>7, <1>8, <1>9, GoesOn

LEMMA LineKeeps ==
    ASSUME IInv, NEW p \in Workers, CreateItem(p) \/ SaveItem(p) \/ DeleteItem(p)
    PROVE  IInv'
  <1> DEFINE i == item[p]
             b == subject[p]
  <1>1. step[p] \in {"create", "saveItem", "delete"} /\ step[p] \in ItemSteps
    BY DEF CreateItem, SaveItem, DeleteItem, ItemSteps
  <1>2. /\ i \in Items /\ b \in Bills /\ i # None /\ b # None
        /\ On(items, Items) /\ On(items[i], ItemColumns)
        /\ On(lines, Workers) /\ On(lines[p], Items) /\ \A j \in Items : On(lines[p][j], ItemColumns)
    BY <1>1, NoneAssumption DEF IInv, Shape, ItemSteps
  <1>3. /\ items[i]["bill"] \in {b, None} /\ lines[p][i]["bill"] \in {b, None}
        /\ lines = [lines EXCEPT ![p] = lines[p]] /\ items = [items EXCEPT ![i] = items[i]]
    BY <1>2 DEF IInv, Owned, On
  <1>4. alone[p] => InHand(p)
    BY DEF IInv
  <1>5. CASE CreateItem(p)
    <2> DEFINE row == Stored(lines[p][i])
    <2>1. PICK L : L = [lines[p] EXCEPT ![i] = ReadBack(@)]
      OBVIOUS
    <2>2. /\ Rolled(p, L) /\ lines' = [lines EXCEPT ![p] = L]
          /\ items' = [items EXCEPT ![i] = row] /\ step[p] = "create"
      BY <1>5, <2>1 DEF CreateItem
    <2>3. /\ On(L, Items) /\ L[i] = ReadBack(lines[p][i])
          /\ \A j \in Items : j # i => L[j] = lines[p][j]
      BY <1>2, <2>1 DEF On
    <2>4. /\ \A j \in Items : On(L[j], ItemColumns)
          /\ On(row, ItemColumns) /\ row["bill"] \in {b, None} /\ L[i]["bill"] \in {b, None}
      BY <1>2, <1>3, <2>3, StoredRows
    <2>5. ASSUME alone[p]
          PROVE  /\ lines[p][i]["bill"] = b /\ row["bill"] = b
                 /\ \A j \in Items : j # i => L[j] = ItemsOf(b)[j]
      BY <1>4, <2>2, <2>3, <2>5, StoredRows DEF InHand, AllBut
    <2>6. AtPrecision(L) => L[i] = row
      BY <1>2, <2>3, StoredReadBack DEF AtPrecision
    <2>7. AtPrecision(lines[p]) => AtPrecision(L)
      BY <1>2, <2>3, StoredReadBack DEF AtPrecision
    <2>8. alone[p] /\ InStep(b) => AtPrecision(L)
      BY <1>4, <2>2, <2>7 DEF InHand, IInv, Shape, ItemSteps
    <2> HIDE DEF row
    <2> QED
      BY <1>1, <1>2, <2>2, <2>3, <2>4, <2>5, <2>6, <2>8, LineWritten
  <1>6. CASE SaveItem(p)
    <2> DEFINE new == [c \in ItemColumns |->
                           IF c \in dirty[p] THEN Stored(lines[p][i])[c] ELSE items[i][c]]
               row == IF items[i]["bill"] = None /\ ~("bill" \in dirty[p]) THEN items[i] ELSE new
    <2>1. /\ Rolled(p, lines[p]) /\ lines' = [lines EXCEPT ![p] = lines[p]] /\ step[p] = "saveItem"
      BY <1>3, <1>6 DEF SaveItem
    <2>2. items' = [items EXCEPT ![i] = row]
      BY <1>2, <1>3, <1>6 DEF SaveItem
    <2>3. On(row, ItemColumns) /\ row["bill"] \in {b, None}
      <3>1. Stored(lines[p][i])["bill"] \in {b, None}
        BY <1>3, StoredRows
      <3> QED
        BY <1>2, <1>3, <3>1 DEF On, ItemColumns
    <2>4. ASSUME alone[p]
          PROVE  /\ AllBut(i, lines[p], b) /\ items[i]["bill"] = b
                 /\ \A c \in ItemColumns \ dirty[p] : lines[p][i][c] = items[i][c]
      BY <1>4, <2>1, <2>4 DEF InHand
    <2>5. ASSUME alone[p], AtPrecision(lines[p]) PROVE row = lines[p][i]
      <3>1. Stored(lines[p][i]) = lines[p][i]
        BY <1>2, <2>5 DEF AtPrecision
      <3>2. row = new /\ \A c \in ItemColumns : new[c] = lines[p][i][c]
        BY <1>2, <2>4, <2>5, <3>1
      <3> QED
        BY <1>2, <3>2 DEF On
    <2>6. alone[p] => lines[p][i]["bill"] # None
      BY <1>2, <2>4 DEF AllBut
    <2>7. alone[p] /\ InStep(b) => AtPrecision(lines[p])
      BY <1>1, <1>4 DEF InHand, IInv, Shape
    <2> HIDE DEF row
    <2>8. alone[p] /\ AtPrecision(lines[p]) =>
              lines[p][i] = IF row["bill"] = None THEN NoItem ELSE row
      BY <2>5, <2>6
    <2>9. alone[p] => \A j \in Items : j # i => lines[p][j] = ItemsOf(b)[j]
      BY <2>4 DEF AllBut
    <2> QED
      BY <1>1, <1>2, <1>3, <2>1, <2>2, <2>3, <2>7, <2>8, <2>9, LineWritten
  <1>7. CASE DeleteItem(p)
    <2> DEFINE rest == [lines[p] EXCEPT ![i] = NoItem]
    <2>1. /\ Rolled(p, rest) /\ lines' = [lines EXCEPT ![p] = rest]
          /\ items' = [items EXCEPT ![i] = NoItem] /\ step[p] = "delete"
      BY <1>7 DEF DeleteItem
    <2>2. /\ On(rest, Items) /\ \A j \in Items : On(rest[j], ItemColumns)
          /\ rest[i] = NoItem
      BY <1>2, NoRows DEF On
    <2>3. alone[p] => \A j \in Items : j # i => rest[j] = ItemsOf(b)[j]
      BY <1>2, <1>4, <2>1 DEF InHand
    <2>4. AtPrecision(lines[p]) => AtPrecision(rest)
      BY <1>2, StoredNone DEF AtPrecision, On
    <2>5. alone[p] /\ InStep(b) => AtPrecision(rest)
      BY <1>1, <1>4, <2>4 DEF InHand, IInv, Shape
    <2> HIDE DEF rest
    <2> QED
      BY <1>1, <1>2, <1>3, <2>1, <2>2, <2>3, <2>5, NoRows, LineWritten
  <1> QED
    BY <1>5, <1>6, <1>7

\* The memory of p after a step that goes on and writes to no table.
LEMMA Thinks ==
    ASSUME IInv, NEW p \in Workers, subject[p] # None,
           UNCHANGED <<tables, handler, subject, item, created, alone, care>>,
           NEW hd, header' = [header EXCEPT ![p] = hd], On(hd, BillColumns), hd["status"] # "None",
           NEW L, lines' = [lines EXCEPT ![p] = L], On(L, Items),
           \A j \in Items : On(L[j], ItemColumns),
           item[p] # None => L[item[p]]["bill"] \in {subject[p], None},
           NEW cols, dirty' = [dirty EXCEPT ![p] = cols],
           NEW s \in Steps \ {"idle"}, step' = [step EXCEPT ![p] = s],
           s \in ItemSteps => handler[p] = "edit" /\ item[p] \in Items,
           s \in {"readAgain", "sell", "softDelete"} => handler[p] # "edit",
           alone[p] => InHand(p)'
    PROVE  IInv'
  <1>1. /\ On(header, Workers) /\ On(lines, Workers) /\ On(dirty, Workers)
        /\ step \in [Workers -> Steps]
    BY DEF IInv, Shape
  <1>2. /\ On(header', Workers) /\ On(lines', Workers) /\ On(dirty', Workers)
        /\ \A q \in Workers : header'[q] = IF q = p THEN hd ELSE header[q]
        /\ \A q \in Workers : lines'[q] = IF q = p THEN L ELSE lines[q]
        /\ \A q \in Workers : step'[q] = IF q = p THEN s ELSE step[q]
        /\ \A q \in Workers \ {p} : dirty'[q] = dirty[q]
    BY <1>1 DEF On
  <1>3. Shape'
    <2>1. /\ \A q \in Workers : On(header'[q], BillColumns)
          /\ \A q \in Workers : On(lines'[q], Items) /\ \A j \in Items : On(lines'[q][j], ItemColumns)
      BY <1>2 DEF IInv, Shape
    <2>2. step' \in [Workers -> Steps]
      BY <1>1 DEF Steps
    <2>3. \A q \in Workers :
          /\ step'[q] = "idle" <=> subject[q] = None
          /\ step'[q] \in ItemSteps => handler[q] = "edit" /\ item[q] \in Items
          /\ step'[q] \in {"readAgain", "sell", "softDelete"} => handler[q] # "edit"
      BY <1>2 DEF IInv, Shape
    <2> QED
      BY <1>2, <2>1, <2>2, <2>3 DEF IInv, Shape, tables
  <1>4. Here(p)
    BY <1>2 DEF Here, Same, tables
  <1> QED
    BY <1>2, <1>3, <1>4, GoesOn DEF tables

LEMMA ThinkingKeeps ==
    ASSUME IInv, NEW p \in Workers,
           DiffItem(p) \/ DiffBill(p) \/ Sell(p) \/ (ReadAgain(p) /\ Exists(subject[p]))
    PROVE  IInv'
  <1> DEFINE b == subject[p]
  <1>1. step[p] \in {"diffItem", "diff", "sell", "readAgain"}
    BY DEF DiffItem, DiffBill, Sell, ReadAgain
  <1>2. /\ b \in Bills /\ b # None
        /\ On(header, Workers) /\ On(lines, Workers) /\ On(dirty, Workers)
        /\ On(header[p], BillColumns) /\ On(lines[p], Items)
        /\ \A j \in Items : On(lines[p][j], ItemColumns) /\ On(items[j], ItemColumns)
        /\ On(bills[b], BillColumns)
        /\ step[p] \in ItemSteps => handler[p] = "edit" /\ item[p] \in Items
        /\ step[p] \in {"readAgain", "sell"} => handler[p] # "edit"
    BY <1>1, NoneAssumption DEF IInv, Shape
  <1>3. /\ header[p]["status"] # "None"
        /\ item[p] # None => lines[p][item[p]]["bill"] \in {b, None}
    BY <1>2 DEF IInv, Owned
  <1>4. /\ header = [header EXCEPT ![p] = header[p]] /\ lines = [lines EXCEPT ![p] = lines[p]]
        /\ dirty = [dirty EXCEPT ![p] = dirty[p]]
    BY <1>2 DEF On
  <1>5. alone[p] => InHand(p)
    BY DEF IInv
  <1>6. CASE DiffItem(p)
    <2> DEFINE cols == {c \in ItemColumns : lines[p][item[p]][c] # items[item[p]][c]}
    <2>1. /\ UNCHANGED <<tables, handler, subject, item, header, lines, created, alone, care>>
          /\ dirty' = [dirty EXCEPT ![p] = cols] /\ step' = [step EXCEPT ![p] = "saveItem"]
          /\ step[p] = "diffItem"
      BY <1>6 DEF DiffItem, Goto, history
    <2>2. dirty'[p] = cols /\ step'[p] = "saveItem" /\ handler[p] = "edit"
      BY <1>2, <2>1 DEF On, IInv, Shape, ItemSteps
    <2>3. ASSUME alone[p] PROVE InHand(p)'
      <3>1. AllBut(item[p], lines[p], b) /\ items[item[p]]["bill"] = b
        BY <1>5, <2>1, <2>3 DEF InHand
      <3>2. AllBut(item[p], lines[p], b)'
        BY <2>1, <3>1 DEF AllBut, ItemsOf, tables
      <3>3. \A c \in ItemColumns \ dirty'[p] : lines[p][item[p]][c] = items[item[p]][c]
        BY <2>2
      <3>4. InStep(b)' => AtPrecision(lines[p])'
        BY <1>5, <2>1, <2>2, <2>3 DEF InHand, InStep, AtPrecision
      <3> HIDE DEF cols
      <3> QED
        BY <2>1, <2>2, <3>1, <3>2, <3>3, <3>4 DEF InHand, tables
    <2> HIDE DEF cols
    <2> QED
      BY <1>2, <1>3, <1>4, <2>1, <2>2, <2>3, Thinks DEF Steps, ItemSteps
  <1>7. CASE DiffBill(p)
    <2> DEFINE cols == {c \in BillColumns : header[p][c] # bills[b][c]}
    <2>1. /\ UNCHANGED <<tables, handler, subject, item, header, lines, created, alone, care>>
          /\ dirty' = [dirty EXCEPT ![p] = cols] /\ step' = [step EXCEPT ![p] = "save"]
          /\ step[p] = "diff"
      BY <1>7 DEF DiffBill, Goto, history
    <2>2. dirty'[p] = cols /\ step'[p] = "save"
      BY <1>2, <2>1 DEF On, IInv, Shape
    <2>3. ASSUME alone[p] PROVE InHand(p)'
      <3>1. InHand(p)
        BY <1>5, <2>3
      <3>2. \A c \in BillColumns \ dirty'[p] : header[p][c] = bills[b][c]
        BY <2>2
      <3>3. /\ ItemsOf(b)' = ItemsOf(b) /\ Fresh(b)' = Fresh(b) /\ InStep(b)' = InStep(b)
            /\ AtPrecision(lines[p])' = AtPrecision(lines[p])
        BY <2>1 DEF ItemsOf, Fresh, InStep, AtPrecision, tables
      <3> HIDE DEF cols
      <3> QED
        BY <2>1, <2>2, <3>1, <3>2, <3>3 DEF InHand, tables
    <2> HIDE DEF cols
    <2> QED
      BY <1>2, <1>3, <1>4, <2>1, <2>2, <2>3, Thinks DEF Steps, ItemSteps
  <1>8. CASE Sell(p)
    <2> DEFINE hd == [header[p] EXCEPT !["status"] = "Completed"]
    <2>1. /\ UNCHANGED <<tables, handler, subject, item, lines, dirty, created, alone, care>>
          /\ header' = [header EXCEPT ![p] = hd] /\ step' = [step EXCEPT ![p] = "diff"]
          /\ step[p] = "sell"
      BY <1>8 DEF Sell, Goto
    <2>2. /\ On(hd, BillColumns) /\ hd["status"] = "Completed"
          /\ \A c \in Amounts : hd[c] = header[p][c]
      BY <1>2 DEF On, BillColumns, Amounts
    <2>3. header'[p] = hd /\ step'[p] = "diff" /\ handler[p] # "edit"
      BY <1>2, <2>1 DEF On, IInv, Shape
    <2> HIDE DEF hd
    <2>4. ASSUME alone[p] PROVE InHand(p)'
      <3>1. InHand(p)
        BY <1>5, <2>4
      <3>2. Fresh(b)' = Fresh(b) /\ InStep(b)' = InStep(b)
        BY <2>1 DEF ItemsOf, Fresh, InStep, tables
      <3> QED
        BY <2>1, <2>2, <2>3, <3>1, <3>2 DEF InHand, tables
    <2> QED
      BY <1>2, <1>3, <1>4, <2>1, <2>2, <2>3, <2>4, Thinks DEF Steps, ItemSteps
  <1>9. CASE ReadAgain(p) /\ Exists(b)
    <2>1. /\ UNCHANGED <<tables, handler, subject, item, dirty, created, alone, care>>
          /\ header' = [header EXCEPT ![p] = bills[b]] /\ lines' = [lines EXCEPT ![p] = ItemsOf(b)]
          /\ step' = [step EXCEPT ![p] = "sell"] /\ step[p] = "readAgain"
      BY <1>9 DEF ReadAgain, Goto
    <2>2. /\ header'[p] = bills[b] /\ step'[p] = "sell" /\ handler[p] # "edit"
          /\ bills[b]["status"] # "None"
      BY <1>2, <1>9, <2>1 DEF On, IInv, Shape, Exists
    <2>3. /\ On(ItemsOf(b), Items) /\ \A j \in Items : On(ItemsOf(b)[j], ItemColumns)
          /\ \A j \in Items : ItemsOf(b)[j]["bill"] \in {b, None}
      BY <1>2, NoRows DEF ItemsOf, On
    <2>4. ASSUME alone[p] PROVE InHand(p)'
      <3>1. InHand(p)
        BY <1>5, <2>4
      <3>2. Fresh(b)' = Fresh(b) /\ InStep(b)' = InStep(b)
        BY <2>1 DEF ItemsOf, Fresh, InStep, tables
      <3> QED
        BY <2>1, <2>2, <3>1, <3>2 DEF InHand, tables
    <2>5. item[p] # None => ItemsOf(b)[item[p]]["bill"] \in {b, None}
      BY <2>3 DEF IInv, Shape
    <2> QED
      BY <1>2, <1>3, <1>4, <2>1, <2>2, <2>3, <2>4, <2>5, Thinks DEF Steps, ItemSteps
  <1> QED
    BY <1>6, <1>7, <1>8, <1>9

LEMMA EndingKeeps ==
    ASSUME IInv, NEW p \in Workers,
           SoftDelete(p) \/ SaveBill(p) \/ Crash(p) \/ (ReadAgain(p) /\ ~Exists(subject[p]))
    PROVE  IInv'
  <1>1. step[p] # "idle" /\ subject[p] \in Bills
    BY DEF SoftDelete, SaveBill, Crash, ReadAgain, IInv, Shape
  <1>2. PICK b \in Bills : b = subject[p]
    BY <1>1
  <1>3. /\ On(bills, Bills) /\ On(bills[b], BillColumns) /\ On(header[p], BillColumns)
        /\ bills[b]["status"] # "None" /\ header[p]["status"] # "None"
        /\ care \in [Bills -> {"untouched", "fine", "mixed", "healed"}] /\ b # None
    BY <1>2, NoneAssumption DEF IInv, Shape, Owned
  <1>4. bills = [bills EXCEPT ![b] = bills[b]]
    BY <1>3 DEF On
  <1>5. alone[p] => InHand(p)
    BY DEF IInv
  <1>6. handler[p] # "edit" /\ InStep(b) /\ alone[p] =>
           \A c \in Amounts : bills[b][c] = Totals(ItemsOf(b))[c]
    BY <1>2, <1>5 DEF InHand, Fresh
  <1>7. CASE SoftDelete(p)
    <2> DEFINE row == [bills[b] EXCEPT !["deleted"] = TRUE]
    <2>1. /\ bills' = [bills EXCEPT ![b] = row] /\ Return(p)
          /\ UNCHANGED <<items, created, care>> /\ handler[p] # "edit"
      BY <1>2, <1>7 DEF SoftDelete, IInv, Shape
    <2>2. /\ On(row, BillColumns) /\ row["status"] # "None"
          /\ \A c \in Amounts : row[c] = bills[b][c]
      BY <1>3 DEF On, BillColumns, Amounts
    <2>3. InStep(b)' /\ alone[p] => \A c \in Amounts : row[c] = Totals(ItemsOf(b))[c]
      BY <1>6, <2>1, <2>2 DEF InStep
    <2> HIDE DEF row
    <2> QED
      BY <1>2, <1>3, <2>1, <2>2, <2>3, Ends
  <1>8. CASE SaveBill(p)
    <2> DEFINE row == [c \in BillColumns |-> IF c \in dirty[p] THEN header[p][c] ELSE bills[b][c]]
    <2>1. /\ bills' = [bills EXCEPT ![b] = row] /\ Return(p) /\ step[p] = "save"
          /\ UNCHANGED <<items, created>>
          /\ care' = IF /\ alone[p] /\ handler[p] = "edit" /\ AtPrecision(lines[p])
                        /\ care[b] \in {"mixed", "fine"}
                     THEN [care EXCEPT ![b] = "healed"] ELSE care
      BY <1>2, <1>3, <1>8 DEF SaveBill
    <2>2. /\ care' \in [Bills -> {"untouched", "fine", "mixed", "healed"}]
          /\ \A d \in Bills \ {b} : care'[d] = care[d]
          /\ care[b] = "mixed" /\ ~alone[p] => care'[b] = "mixed"
          /\ InStep(b)' => InStep(b) \/ (handler[p] = "edit" /\ AtPrecision(lines[p]))
      BY <1>3, <2>1 DEF InStep
    <2>3. On(row, BillColumns) /\ row["status"] # "None"
      BY <1>3 DEF On, BillColumns
    <2>4. alone[p] => \A c \in Amounts : row[c] = header[p][c]
      BY <1>2, <1>5, <2>1 DEF InHand, BillColumns, Amounts
    <2>5. ASSUME InStep(b)', alone[p] PROVE \A c \in Amounts : row[c] = Totals(ItemsOf(b))[c]
      <3>1. CASE handler[p] = "edit"
        <4>1. AtPrecision(lines[p])
          BY <1>2, <1>5, <2>2, <2>5, <3>1 DEF InHand
        <4>2. lines[p] = ItemsOf(b) /\ \A c \in Amounts : header[p][c] = Totals(lines[p])[c]
          BY <1>2, <1>5, <2>1, <2>5, <3>1, <4>1 DEF InHand
        <4> QED
          BY <2>4, <2>5, <4>2
      <3>2. CASE handler[p] # "edit"
        <4>1. \A c \in Amounts : header[p][c] = bills[b][c]
          BY <1>2, <1>5, <2>1, <2>2, <2>5, <3>2 DEF InHand, InStep
        <4> QED
          BY <1>6, <2>2, <2>4, <2>5, <3>2, <4>1
      <3> QED
        BY <3>1, <3>2
    <2> HIDE DEF row
    <2> QED
      BY <1>2, <2>1, <2>2, <2>3, <2>5, Ends
  <1>9. CASE Crash(p)
    <2>1. /\ Return(p) /\ UNCHANGED <<bills, items, created>>
          /\ care' = [care EXCEPT ![b] = "mixed"]
      BY <1>2, <1>9 DEF Crash, tables
    <2>2. /\ care' \in [Bills -> {"untouched", "fine", "mixed", "healed"}] /\ care'[b] = "mixed"
          /\ \A d \in Bills \ {b} : care'[d] = care[d]
      BY <1>3, <2>1
    <2>3. ~InStep(b)'
      BY <2>2 DEF InStep
    <2> QED
      BY <1>2, <1>3, <1>4, <2>1, <2>2, <2>3, Ends
  <1>10. CASE ReadAgain(p) /\ ~Exists(subject[p])
    <2>1. /\ Return(p) /\ UNCHANGED <<bills, items, created, care>> /\ handler[p] # "edit"
      BY <1>10 DEF ReadAgain, tables, IInv, Shape
    <2>2. InStep(b)' = InStep(b)
      BY <2>1 DEF InStep
    <2> QED
      BY <1>2, <1>3, <1>4, <1>6, <2>1, <2>2, Ends
  <1> QED
    BY <1>7, <1>8, <1>9, <1>10

LEMMA CreateKeeps ==
    ASSUME IInv, NEW b \in Bills, NEW S \in SUBSET Items, CreateBill(b, S)
    PROVE  IInv'
  <1>1. /\ bills[b]["status"] = "None" /\ S \cap created = {} /\ created' = created \cup S
        /\ UNCHANGED <<worker, alone>>
    BY DEF CreateBill
  <1>2. PICK l \in [S -> Lines] :
           LET L == [i \in Items |-> IF i \in S THEN Computed(b, l[i]) ELSE NoItem] IN
           /\ items' = [i \in Items |-> IF i \in S THEN Stored(L[i]) ELSE items[i]]
           /\ bills' = [bills EXCEPT ![b] =
                           WithTotals([NoBill EXCEPT !["status"] = "Initiated"], L)]
           /\ Touch(b, L)
    BY DEF CreateBill
  <1>3. PICK L : L = [i \in Items |-> IF i \in S THEN Computed(b, l[i]) ELSE NoItem]
    OBVIOUS
  <1>4. PICK h : h = [NoBill EXCEPT !["status"] = "Initiated"]
    OBVIOUS
  <1>5. /\ items' = [i \in Items |-> IF i \in S THEN Stored(L[i]) ELSE items[i]]
        /\ bills' = [bills EXCEPT ![b] = WithTotals(h, L)]
        /\ Touch(b, L)
    BY <1>2, <1>3, <1>4
  <1>6. b # None /\ None \notin Items
    BY NoneAssumption
  <1>7. \A i \in S : items[i]["bill"] = None
    BY <1>1 DEF IInv, Owned
  <1>8. \A i \in Items :
           /\ On(L[i], ItemColumns) /\ L[i]["bill"] = IF i \in S THEN b ELSE None
           /\ On(Stored(L[i]), ItemColumns) /\ Stored(L[i])["bill"] = L[i]["bill"]
    <2>1. \A x : On(Computed(b, x), ItemColumns) /\ Computed(b, x)["bill"] = b
      BY DEF Computed, On, ItemColumns
    <2> QED
      BY <1>3, <2>1, NoRows, StoredRows
  <1>9. /\ On(WithTotals(h, L), BillColumns) /\ WithTotals(h, L)["status"] = "Initiated"
        /\ \A c \in Amounts : WithTotals(h, L)[c] = Totals(L)[c]
    BY <1>4 DEF WithTotals, On, BillColumns, Amounts, NoBill
  <1>10. /\ On(bills, Bills) /\ \A d \in Bills : On(bills[d], BillColumns)
         /\ \A i \in Items : On(items[i], ItemColumns)
    BY DEF IInv, Shape
  <1>11. /\ On(bills', Bills) /\ On(items', Items)
         /\ \A d \in Bills : bills'[d] = IF d = b THEN WithTotals(h, L) ELSE bills[d]
         /\ \A i \in Items : items'[i] = IF i \in S THEN Stored(L[i]) ELSE items[i]
    BY <1>5, <1>10 DEF On
  <1>12. \A q \in Workers : subject[q] # b
    BY <1>1, <1>6 DEF IInv, Owned
  <1>13. \A q \in Workers : subject[q] # None /\ item[q] # None => item[q] \notin S
    BY <1>1 DEF IInv, Owned
  <1>14. Shape'
    <2>1. /\ \A d \in Bills : On(bills'[d], BillColumns)
          /\ \A i \in Items : On(items'[i], ItemColumns)
      BY <1>8, <1>9, <1>10, <1>11
    <2>2. care' \in [Bills -> {"untouched", "fine", "mixed", "healed"}]
      BY <1>5 DEF Touch, IInv, Shape
    <2> QED
      BY <1>1, <1>11, <2>1, <2>2 DEF IInv, Shape, worker
  <1>15. Owned'
    <2>1. \A d \in Bills : bills[d]["status"] # "None" => bills'[d]["status"] # "None"
      BY <1>9, <1>11
    <2>2. \A i \in Items : items'[i]["bill"] # None =>
             i \in created' /\ items'[i]["bill"] \in Bills /\ bills'[items'[i]["bill"]]["status"] # "None"
      BY <1>1, <1>6, <1>8, <1>9, <1>11, <2>1 DEF IInv, Owned
    <2>3. \A q \in Workers : subject[q] # None =>
             bills'[subject[q]]["status"] # "None" /\ header[q]["status"] # "None"
      BY <2>1 DEF IInv, Owned, Shape
    <2>4. \A q \in Workers : subject[q] # None /\ item[q] # None =>
             /\ item[q] \in created'
             /\ items'[item[q]]["bill"] \in {subject[q], None}
             /\ lines[q][item[q]]["bill"] \in {subject[q], None}
      BY <1>1, <1>11, <1>13 DEF IInv, Owned, Shape
    <2>5. \A p, q \in Workers :
             subject[p] # None /\ subject[q] # None /\ item[p] # None /\ item[p] = item[q] =>
                 subject[p] = subject[q]
      BY DEF IInv, Owned
    <2> QED
      BY <1>1, <2>2, <2>3, <2>4, <2>5 DEF Owned, worker
  <1>16. /\ \A d \in Bills \ {b} : care'[d] = care[d]
         /\ InStep(b)' => AtPrecision(L)
    BY <1>5 DEF Touch, InStep, IInv, Shape
  <1>17. Turns'
    <2>1. \A q \in Workers : subject[q] # None => care'[subject[q]] = care[subject[q]]
      BY <1>12, <1>16 DEF IInv, Shape
    <2> QED
      BY <1>1, <2>1 DEF IInv, Turns, worker
  <1>18. AtPrecision(L) => L = ItemsOf(b)'
    <2>1. \A i \in Items : items[i]["bill"] # b
      BY <1>1, <1>6 DEF IInv, Owned
    <2>2. AtPrecision(L) =>
              \A i \in Items : (IF items'[i]["bill"] = b THEN items'[i] ELSE NoItem) = L[i]
      BY <1>3, <1>8, <1>11, <2>1 DEF AtPrecision
    <2>3. On(L, Items)
      BY <1>3 DEF On
    <2> QED
      BY <2>2, <2>3 DEF ItemsOf, On
  <1>19. ASSUME NEW d \in Bills \ {b} PROVE ItemsOf(d)' = ItemsOf(d)
    <2>1. \A i \in Items : (IF items'[i]["bill"] = d THEN items'[i] ELSE NoItem)
                           = (IF items[i]["bill"] = d THEN items[i] ELSE NoItem)
      BY <1>7, <1>8, <1>11, NoneAssumption
    <2> QED
      BY <2>1 DEF ItemsOf
  <1>20. Settled'
    <2>1. InStep(b)' => Fresh(b)'
      BY <1>9, <1>11, <1>18, <1>16 DEF Fresh
    <2>2. ASSUME NEW d \in Bills \ {b}, bills[d]["status"] # "None", InStep(d)', ~Busy(d)
          PROVE  Fresh(d)'
      BY <1>11, <1>19, <1>16, <2>2 DEF Fresh, IInv, Settled, InStep
    <2> QED
      BY <1>1, <1>11, <2>1, <2>2 DEF Settled, Busy, worker
  <1>21. ASSUME NEW q \in Workers, alone[q] PROVE InHand(q)'
    <2>1. subject[q] \in Bills \ {b} /\ InHand(q)
      BY <1>12, <1>21 DEF IInv, Turns, Shape
    <2>2. ItemsOf(subject[q])' = ItemsOf(subject[q]) /\ bills'[subject[q]] = bills[subject[q]]
      BY <1>1, <1>11, <1>19, <2>1 DEF worker, ItemsOf
    <2>3. step[q] \in {"diffItem", "saveItem"} => items'[item[q]] = items[item[q]]
      BY <1>6, <1>11, <1>13, <2>1, NoneAssumption DEF IInv, Shape, ItemSteps
    <2>4. Fresh(subject[q])' = Fresh(subject[q])
      BY <1>1, <2>2 DEF Fresh, worker
    <2>5. AllBut(item[q], lines[q], subject[q])' = AllBut(item[q], lines[q], subject[q])
      BY <1>1, <2>2 DEF AllBut, worker
    <2>6. /\ care'[subject[q]] = care[subject[q]] /\ InStep(subject[q])' = InStep(subject[q])
          /\ AtPrecision(lines[q])' = AtPrecision(lines[q])
      BY <1>1, <1>16, <2>1 DEF InStep, AtPrecision, worker
    <2> QED
      BY <1>1, <2>1, <2>2, <2>3, <2>4, <2>5, <2>6 DEF InHand, worker
  <1> QED
    BY <1>1, <1>14, <1>15, <1>17, <1>20, <1>21 DEF IInv, worker

LEMMA InitInv == Init => IInv
  <1> SUFFICES ASSUME Init PROVE IInv
    OBVIOUS
  <1>1. Shape
    BY NoRows, NoneAssumption DEF Init, Shape, On, Steps, ItemSteps
  <1>2. Owned
    BY NoRows DEF Init, Owned
  <1>3. Turns /\ \A p \in Workers : ~alone[p]
    BY DEF Init, Turns
  <1>4. Settled
    BY DEF Init, Settled, NoBill, BillColumns
  <1> QED
    BY <1>1, <1>2, <1>3, <1>4 DEF IInv

LEMMA StepInv == IInv /\ [Next]_vars => IInv'
  <1> SUFFICES ASSUME IInv, [Next]_vars PROVE IInv'
    OBVIOUS
  <1>1. ASSUME NEW p \in Workers, Work(p) PROVE IInv'
    BY <1>1, LineKeeps, ThinkingKeeps, EndingKeeps DEF Work
  <1>2. ASSUME NEW p \in Workers, NEW b \in Bills, Request(p, b) PROVE IInv'
    BY <1>2, RequestKeeps
  <1>3. ASSUME NEW b \in Bills, NEW S \in SUBSET Items, CreateBill(b, S) PROVE IInv'
    BY <1>3, CreateKeeps
  <1>4. CASE UNCHANGED vars
    <2>1. \A b \in Bills : ItemsOf(b)' = ItemsOf(b) /\ Fresh(b)' = Fresh(b)
      BY <1>4 DEF vars, tables, ItemsOf, Fresh
    <2>2. Shape' /\ Owned' /\ Turns' /\ Settled'
      BY <1>4 DEF vars, tables, worker, history, IInv, Shape, Owned, Turns, Settled, Busy, Fresh, ItemsOf,
                     InStep
    <2>3. \A q \in Workers : InHand(q) => InHand(q)'
      BY <1>4 DEF vars, tables, worker, history, InHand, AllBut, Fresh, ItemsOf, InStep,
                     AtPrecision
    <2> QED
      BY <1>4, <2>2, <2>3 DEF IInv, vars, history
  <1> QED
    BY <1>1, <1>2, <1>3, <1>4 DEF Next

\* A bill that no handler is at, that nothing has mixed and that was given no amount
\* finer than its column, or that a lone edit has put right again, stores the totals
\* of its lines
\* (add-bill-item.command-handler.ts:36-40, update-bill-item.command-handler.ts:38-42).
THEOREM TotalsStand == Spec => []TotalsMatchItems
  <1>1. IInv => TotalsMatchItems
    BY DEF IInv, Settled, Fresh, InStep, TotalsMatchItems
  <1> QED
    BY InitInv, StepInv, <1>1, PTL DEF Spec

-----------------------------------------------------------------------------
(* What a bill was sold for.                                               *)

SaleOf(b) ==
    b \notin edited /\ bills[b]["status"] = "Completed" /\ care[b] # "mixed" =>
        sold[b] = bills[b]["total"]

\* A handler about to save has sold the bill for the total it writes, or has edited
\* it, or found it completed.
InSale(p) ==
    LET b == subject[p] IN
    /\ step[p] \in {"readAgain", "sell"} => handler[p] = "complete"
    /\ step[p] \in {"diff", "save"} =>
          /\ handler[p] # "none"
          /\ handler[p] = "edit" => b \in edited
          /\ handler[p] = "complete" /\ care[b] # "mixed" => sold[b] = header[p]["total"]
          /\ handler[p] = "header" /\ care[b] # "mixed" /\ header[p]["status"] = "Completed" =>
                bills[b]["status"] = "Completed"

Sales ==
    /\ On(sold, Bills)
    /\ \A b \in Bills : SaleOf(b)
    /\ \A p \in Workers : alone[p] => InSale(p)

\* Nothing of other bills and of who is alone at them changes when p is at b.
Apart(p, b) ==
    /\ \A q \in Workers \ {p} : alone'[q] => alone[q] /\ subject[q] # b /\ Same(q)
    /\ \A d \in Bills \ {b} : /\ bills'[d] = bills[d] /\ sold'[d] = sold[d] /\ care'[d] = care[d]
                              /\ d \in edited' <=> d \in edited

LEMMA SalesKept ==
    ASSUME IInv, Sales, NEW p \in Workers, NEW b \in Bills, Apart(p, b), On(sold', Bills),
           SaleOf(b)', alone'[p] => InSale(p)'
    PROVE  Sales'
  <1>1. ASSUME NEW q \in Workers \ {p}, alone'[q] PROVE InSale(q)'
    <2>1. alone[q] /\ subject[q] \in Bills \ {b} /\ Same(q) /\ InSale(q)
      BY <1>1 DEF Apart, IInv, Shape, Turns, Sales
    <2> QED
      BY <2>1 DEF Apart, Same, InSale
  <1>2. ASSUME NEW d \in Bills \ {b} PROVE SaleOf(d)'
    BY <1>2 DEF Apart, Sales, SaleOf
  <1> QED
    BY <1>1, <1>2 DEF Sales

\* Nobody else is alone at the bill that p is at.
LEMMA NobodyElse ==
    ASSUME IInv, NEW p \in Workers, subject[p] # None,
           \A q \in Workers \ {p} : Same(q) /\ alone'[q] = alone[q]
    PROVE  \A q \in Workers \ {p} : alone'[q] => alone[q] /\ subject[q] # subject[p] /\ Same(q)
  BY DEF IInv, Turns

LEMMA StartSale ==
    ASSUME IInv, Sales, NEW p \in Workers, NEW h, NEW b \in Bills, NEW i, NEW hd, NEW L, NEW first,
           Start(p, h, b, i, hd, L, first),
           first = "diff" => h = "header" /\ (hd["status"] = "Completed" => bills[b]["status"] = "Completed"),
           first = "readAgain" => h = "complete", first \notin {"save", "sell"}
    PROVE  Sales'
  <1>1. /\ UNCHANGED <<bills, sold, edited>> /\ step'[p] = first /\ handler'[p] = h
        /\ subject'[p] = b /\ header'[p] = hd
        /\ \A d \in Bills \ {b} : care'[d] = care[d]
        /\ care'[b] # "mixed" => care[b] # "mixed"
    <2>1. Touch(b, L) /\ care \in [Bills -> {"untouched", "fine", "mixed", "healed"}]
      BY DEF Start, IInv, Shape
    <2>2. /\ \A d \in Bills \ {b} : care'[d] = care[d]
          /\ care'[b] # "mixed" => care[b] # "mixed"
      BY <2>1 DEF Touch
    <2> QED
      BY <2>2 DEF Start, IInv, Shape, On, tables
  <1>2. \A q \in Workers \ {p} : Same(q)
    <2>1. /\ On(handler, Workers) /\ On(step, Workers) /\ On(subject, Workers)
          /\ On(item, Workers) /\ On(header, Workers) /\ On(lines, Workers)
      BY DEF IInv, Shape, On
    <2>2. /\ handler' = [handler EXCEPT ![p] = h] /\ step' = [step EXCEPT ![p] = first]
          /\ subject' = [subject EXCEPT ![p] = b] /\ item' = [item EXCEPT ![p] = i]
          /\ header' = [header EXCEPT ![p] = hd] /\ lines' = [lines EXCEPT ![p] = L]
          /\ dirty' = dirty
      BY DEF Start
    <2> QED
      BY <2>1, <2>2 DEF On, Same
  <1>3. \A q \in Workers \ {p} : alone'[q] => alone[q] /\ subject[q] # b
    BY DEF Start
  <1>4. Apart(p, b)
    BY <1>1, <1>2, <1>3 DEF Apart
  <1>5. SaleOf(b)' /\ On(sold', Bills)
    BY <1>1 DEF Sales, SaleOf, On
  <1>6. InSale(p)'
    BY <1>1 DEF InSale
  <1> QED
    BY <1>4, <1>5, <1>6, SalesKept

LEMMA RequestSale == ASSUME IInv, Sales, NEW p \in Workers, NEW b \in Bills, Request(p, b)
                     PROVE  Sales'
  <1>1. ASSUME NEW i \in Items, NEW l, AddItem(p, b, i, l) PROVE Sales'
    BY <1>1, StartSale DEF AddItem
  <1>2. ASSUME NEW i \in Items, NEW F, NEW l, UpdateItem(p, b, i, F, l) PROVE Sales'
    BY <1>2, StartSale DEF UpdateItem
  <1>3. ASSUME NEW i \in Items, RemoveItem(p, b, i) PROVE Sales'
    BY <1>3, StartSale DEF RemoveItem
  <1>4. CASE UpdateBill(p, b)
    BY <1>4, StartSale DEF UpdateBill
  <1>5. CASE DeleteBill(p, b)
    BY <1>5, StartSale DEF DeleteBill
  <1>6. ASSUME NEW s \in BillStatus \ {"None"}, Transition(p, b, s) PROVE Sales'
    <2>1. CASE s = "Completed"
      BY <1>6, <2>1, StartSale DEF Transition
    <2>2. CASE s # "Completed"
      <3> DEFINE hd == [bills[b] EXCEPT !["status"] = s]
      <3>1. Start(p, "header", b, None, hd, ItemsOf(b), "diff")
        BY <1>6, <2>2 DEF Transition
      <3>2. hd["status"] = s
        BY DEF IInv, Shape, On, BillColumns
      <3> HIDE DEF hd
      <3> QED
        BY <2>2, <3>1, <3>2, StartSale
    <2> QED
      BY <2>1, <2>2
  <1> QED
    BY <1>1, <1>2, <1>3, <1>4, <1>5, <1>6 DEF Request, EditItem

\* A line is written, or a handler only thinks.
LEMMA WorkSale ==
    ASSUME IInv, Sales, NEW p \in Workers,
           \/ CreateItem(p) \/ DiffItem(p) \/ SaveItem(p) \/ DeleteItem(p)
           \/ (ReadAgain(p) /\ Exists(subject[p])) \/ Sell(p) \/ DiffBill(p)
    PROVE  Sales'
  <1>1. PICK b \in Bills : b = subject[p]
    BY DEF IInv, Shape, CreateItem, DiffItem, SaveItem, DeleteItem, ReadAgain, Sell, DiffBill
  <1>2. /\ UNCHANGED <<bills, handler, subject, item, alone, care>>
        /\ b # None
    BY <1>1, NoneAssumption
    DEF CreateItem, DiffItem, SaveItem, DeleteItem, ReadAgain, Sell, DiffBill, Rolled, tables, history
  <1>3. \A q \in Workers \ {p} : Same(q)
    BY <1>2
    DEF CreateItem, DiffItem, SaveItem, DeleteItem, ReadAgain, Sell, DiffBill, Rolled, Goto, Same,
        IInv, Shape, On
  <1>4. \A q \in Workers \ {p} : alone'[q] => alone[q] /\ subject[q] # b /\ Same(q)
    BY <1>1, <1>2, <1>3, NobodyElse
  <1>5. CASE CreateItem(p) \/ SaveItem(p) \/ DeleteItem(p)
    <2>1. sold' = sold /\ edited' = edited \cup {b} /\ step[p] \in ItemSteps
      BY <1>1, <1>5 DEF CreateItem, SaveItem, DeleteItem, Rolled, MarkEdited, ItemSteps
    <2>2. Apart(p, b) /\ On(sold', Bills) /\ SaleOf(b)'
      BY <1>2, <1>4, <2>1 DEF Apart, Sales, SaleOf, On
    <2>3. handler[p] = "edit" /\ step'[p] = "diff"
      BY <1>5, <2>1 DEF CreateItem, SaveItem, DeleteItem, Rolled, Goto, IInv, Shape
    <2>4. InSale(p)'
      BY <1>1, <1>2, <2>1, <2>3 DEF InSale
    <2> QED
      BY <2>2, <2>4, SalesKept
  <1>6. CASE DiffItem(p) \/ (ReadAgain(p) /\ Exists(subject[p]))
    <2>1. /\ UNCHANGED <<sold, edited>> /\ step'[p] \in {"saveItem", "sell"}
          /\ step'[p] = "sell" => step[p] = "readAgain"
      BY <1>6 DEF DiffItem, ReadAgain, Goto, history, IInv, Shape
    <2>2. Apart(p, b) /\ On(sold', Bills) /\ SaleOf(b)' /\ (alone'[p] => InSale(p)')
      BY <1>2, <1>4, <2>1 DEF Apart, Sales, SaleOf, On, InSale
    <2> QED
      BY <2>2, SalesKept
  <1>7. CASE Sell(p)
    <2>1. /\ step[p] = "sell" /\ handler[p] # "edit" /\ edited' = edited \ {b}
          /\ sold' = [sold EXCEPT ![b] = header[p]["total"]]
          /\ header' = [header EXCEPT ![p]["status"] = "Completed"]
      BY <1>1, <1>7 DEF Sell, IInv, Shape
    <2>2. On(sold', Bills) /\ sold'[b] = header[p]["total"] /\ \A d \in Bills \ {b} : sold'[d] = sold[d]
      BY <2>1 DEF Sales, On
    <2>3. header'[p]["total"] = header[p]["total"]
      BY <2>1 DEF IInv, Shape, On, BillColumns, Amounts
    <2>4. care[b] # "mixed" => bills[b]["total"] = header[p]["total"]
      BY <1>1, <1>2, <2>1 DEF IInv, Turns, InHand, Amounts
    <2>5. Apart(p, b) /\ SaleOf(b)'
      BY <1>2, <1>4, <2>1, <2>2, <2>4 DEF Apart, SaleOf
    <2>6. alone[p] => handler[p] = "complete"
      BY <2>1 DEF Sales, InSale
    <2>7. step'[p] = "diff"
      BY <1>7 DEF Sell, Goto, IInv, Shape
    <2>8. alone'[p] => InSale(p)'
      BY <1>1, <1>2, <2>2, <2>3, <2>6, <2>7 DEF InSale
    <2> QED
      BY <2>2, <2>5, <2>8, SalesKept
  <1>8. CASE DiffBill(p)
    <2>1. UNCHANGED <<sold, edited, header>> /\ step[p] = "diff" /\ step'[p] = "save"
      BY <1>8 DEF DiffBill, Goto, history, IInv, Shape
    <2>2. Apart(p, b) /\ On(sold', Bills) /\ SaleOf(b)'
      BY <1>2, <1>4, <2>1 DEF Apart, Sales, SaleOf, On
    <2>3. alone[p] => InSale(p)'
      BY <1>2, <2>1 DEF Sales, InSale
    <2> QED
      BY <1>2, <2>2, <2>3, SalesKept
  <1> QED
    BY <1>5, <1>6, <1>7, <1>8

\* A handler ends.
LEMMA EndSale ==
    ASSUME IInv, Sales, NEW p \in Workers,
           SoftDelete(p) \/ SaveBill(p) \/ Crash(p) \/ (ReadAgain(p) /\ ~Exists(subject[p]))
    PROVE  Sales'
  <1>1. PICK b \in Bills : b = subject[p]
    BY DEF IInv, Shape, SoftDelete, SaveBill, Crash, ReadAgain
  <1>2. UNCHANGED <<sold, edited>> /\ Return(p) /\ b # None
    BY NoneAssumption DEF SoftDelete, SaveBill, Crash, ReadAgain
  <1>3. \A q \in Workers \ {p} : Same(q) /\ alone'[q] = alone[q]
    <2>1. /\ On(handler, Workers) /\ On(step, Workers) /\ On(subject, Workers)
          /\ On(item, Workers) /\ On(header, Workers) /\ On(lines, Workers)
          /\ On(dirty, Workers) /\ On(alone, Workers)
      BY DEF IInv, Shape, On
    <2> QED
      BY <1>2, <2>1 DEF Return, Same, On
  <1>4. \A q \in Workers \ {p} : alone'[q] => alone[q] /\ subject[q] # b /\ Same(q)
    BY <1>1, <1>2, <1>3, NobodyElse
  <1>5. ~alone'[p] /\ On(sold', Bills)
    BY <1>2 DEF Return, IInv, Shape, Sales, On
  <1>6. /\ On(bills, Bills) /\ On(bills[b], BillColumns) /\ On(header[p], BillColumns)
        /\ care \in [Bills -> {"untouched", "fine", "mixed", "healed"}]
    BY DEF IInv, Shape
  <1>7. CASE SoftDelete(p)
    <2>1. /\ \A d \in Bills \ {b} : bills'[d] = bills[d]
          /\ bills'[b]["status"] = bills[b]["status"] /\ bills'[b]["total"] = bills[b]["total"]
          /\ care' = care
      BY <1>1, <1>6, <1>7 DEF SoftDelete, On, BillColumns, Amounts
    <2>2. Apart(p, b) /\ SaleOf(b)'
      BY <1>2, <1>4, <2>1 DEF Apart, Sales, SaleOf
    <2> QED
      BY <1>5, <2>2, SalesKept
  <1>8. CASE SaveBill(p)
    <2> DEFINE row == [c \in BillColumns |-> IF c \in dirty[p] THEN header[p][c] ELSE bills[b][c]]
    <2>1. /\ bills' = [bills EXCEPT ![b] = row] /\ step[p] = "save"
          /\ care' = IF /\ alone[p] /\ handler[p] = "edit" /\ AtPrecision(lines[p])
                        /\ care[b] \in {"mixed", "fine"}
                     THEN [care EXCEPT ![b] = "healed"] ELSE care
      BY <1>1, <1>6, <1>8 DEF SaveBill
    <2>2. alone[p] => row["total"] = header[p]["total"] /\ row["status"] = header[p]["status"]
      <3>1. alone[p] => \A c \in BillColumns \ dirty[p] : header[p][c] = bills[b][c]
        BY <1>1, <2>1 DEF IInv, InHand
      <3> QED
        BY <3>1 DEF BillColumns, Amounts
    <2> HIDE DEF row
    <2>3. /\ bills'[b] = row /\ \A d \in Bills \ {b} : bills'[d] = bills[d] /\ care'[d] = care[d]
          /\ care'[b] # "mixed" => (handler[p] = "edit" /\ alone[p]) \/ care[b] # "mixed"
      BY <1>6, <2>1 DEF On
    <2>4. ASSUME b \notin edited, row["status"] = "Completed", care'[b] # "mixed"
          PROVE  sold[b] = row["total"]
      <3>1. alone[p] /\ InSale(p) /\ InHand(p)
        BY <1>1, <1>2, <2>3, <2>4 DEF IInv, Turns, Sales
      <3>2. handler[p] # "edit" /\ care[b] # "mixed"
        BY <1>1, <2>1, <2>3, <2>4, <3>1 DEF InSale
      <3>3. CASE handler[p] = "complete"
        BY <1>1, <2>1, <2>2, <3>1, <3>2, <3>3 DEF InSale
      <3>4. CASE handler[p] = "header"
        <4>1. bills[b]["status"] = "Completed"
          BY <1>1, <2>1, <2>2, <2>4, <3>1, <3>2, <3>4 DEF InSale
        <4>2. header[p]["total"] = bills[b]["total"]
          BY <1>1, <2>1, <3>1, <3>2 DEF InHand, Amounts
        <4> QED
          BY <2>2, <2>4, <3>1, <3>2, <4>1, <4>2 DEF Sales, SaleOf
      <3>5. handler[p] \in {"complete", "header"}
        BY <2>1, <3>1, <3>2 DEF IInv, Shape, InSale
      <3> QED
        BY <3>3, <3>4, <3>5
    <2>5. Apart(p, b) /\ SaleOf(b)'
      BY <1>2, <1>4, <2>3, <2>4 DEF Apart, SaleOf
    <2> QED
      BY <1>5, <2>5, SalesKept
  <1>9. CASE Crash(p)
    <2>1. /\ bills' = bills /\ care'[b] = "mixed" /\ \A d \in Bills \ {b} : care'[d] = care[d]
      BY <1>1, <1>6, <1>9 DEF Crash, tables
    <2>2. Apart(p, b) /\ SaleOf(b)'
      BY <1>2, <1>4, <2>1 DEF Apart, SaleOf
    <2> QED
      BY <1>5, <2>2, SalesKept
  <1>10. CASE ReadAgain(p) /\ ~Exists(subject[p])
    <2>1. bills' = bills /\ care' = care
      BY <1>10 DEF ReadAgain, tables
    <2>2. Apart(p, b) /\ SaleOf(b)'
      BY <1>2, <1>4, <2>1 DEF Apart, Sales, SaleOf
    <2> QED
      BY <1>5, <2>2, SalesKept
  <1> QED
    BY <1>7, <1>8, <1>9, <1>10

LEMMA CreateSale ==
    ASSUME IInv, Sales, NEW b \in Bills, NEW S \in SUBSET Items, CreateBill(b, S)
    PROVE  Sales'
  <1>1. /\ bills[b]["status"] = "None" /\ UNCHANGED <<worker, alone, sold, edited>>
        /\ \E L : /\ bills' = [bills EXCEPT ![b] =
                                   WithTotals([NoBill EXCEPT !["status"] = "Initiated"], L)]
                  /\ Touch(b, L)
    BY DEF CreateBill
  <1>2. \A L : WithTotals([NoBill EXCEPT !["status"] = "Initiated"], L)["status"] = "Initiated"
    BY NoRows DEF WithTotals, On, BillColumns, Amounts
  <1>3. bills'[b]["status"] = "Initiated" /\ \A d \in Bills \ {b} : bills'[d] = bills[d]
    <2>1. PICK row : bills' = [bills EXCEPT ![b] = row] /\ row["status"] = "Initiated"
      BY <1>1, <1>2
    <2> QED
      BY <2>1 DEF IInv, Shape, On
  <1>4. \A d \in Bills \ {b} : care'[d] = care[d]
    BY <1>1 DEF Touch, IInv, Shape
  <1>5. ASSUME NEW q \in Workers, alone[q] PROVE InSale(q)'
    <2>1. InSale(q) /\ subject[q] \in Bills /\ bills[subject[q]]["status"] # "None"
      BY <1>5 DEF IInv, Shape, Turns, Owned, Sales
    <2>2. bills'[subject[q]] = bills[subject[q]] /\ care'[subject[q]] = care[subject[q]]
      BY <1>1, <1>3, <1>4, <2>1
    <2> QED
      BY <1>1, <2>1, <2>2 DEF InSale, worker
  <1> QED
    BY <1>1, <1>3, <1>4, <1>5 DEF Sales, SaleOf, On

LEMMA StepSale == IInv /\ Sales /\ [Next]_vars => Sales'
  <1> SUFFICES ASSUME IInv, Sales, [Next]_vars PROVE Sales'
    OBVIOUS
  <1>1. ASSUME NEW p \in Workers, Work(p) PROVE Sales'
    BY <1>1, WorkSale, EndSale DEF Work
  <1>2. CASE UNCHANGED vars
    BY <1>2 DEF vars, tables, worker, history, Sales, SaleOf, InSale, On
  <1> QED
    BY <1>1, <1>2, RequestSale, CreateSale DEF Next

LEMMA InitSale == Init => Sales
  BY DEF Init, Sales, SaleOf, InSale, On, NoBill, BillColumns, Amounts

\* A completed bill shows the total it was sold for, for any number of bills, lines
\* and handlers, as long as handlers take turns at it and no line is edited after
\* (BillCompletionService.completeBill, UpdateBillCommandHandler).
THEOREM BillsShowTheirSale == Spec => []SoldForTotal
  <1>1. Spec => [](IInv /\ Sales)
    BY InitInv, InitSale, StepInv, StepSale, PTL DEF Spec
  <1>2. Sales => SoldForTotal
    BY DEF Sales, SaleOf, SoldForTotal
  <1> QED
    BY <1>1, <1>2, PTL

-----------------------------------------------------------------------------
(* Sums over a finite set.  What SumOver computes is a function on the     *)
(* subsets, defined by recursion; that it exists, and that it does not     *)
(* depend on the order of the elements, is by induction on subsets, in the *)
(* form "of the subsets that are bad, take a least one".                   *)

SumOver(S, f) == SumFunctionOnSet(f, S)

LEMMA LeastSubset ==
    ASSUME NEW S, IsFiniteSet(S), NEW Bad \in SUBSET SUBSET S, Bad # {}
    PROVE  \E T \in Bad : \A U \in SUBSET T : U # T => U \notin Bad
  <1>1. IsWellFoundedOn(StrictSubsetOrdering(S), FiniteSubsetsOf(S))
    BY FS_StrictSubsetOrderingWellFounded
  <1>2. Bad \subseteq FiniteSubsetsOf(S)
    BY FS_FiniteSubsetsOfFinite
  <1>3. \E T \in Bad : \A U \in Bad : ~(<<U, T>> \in StrictSubsetOrdering(S))
    BY <1>1, <1>2, WFMin
  <1> QED
    BY <1>3 DEF StrictSubsetOrdering

Pick(s) == CHOOSE x \in s : TRUE

Unfolds(g, f, S) ==
    g = [s \in SUBSET S |-> IF s = {} THEN 0 ELSE f[Pick(s)] + g[s \ {Pick(s)}]]

\* Only the values on the set count.
LEMMA SumUnique ==
    ASSUME NEW S, IsFiniteSet(S), NEW T, NEW f, NEW e, NEW g, NEW h,
           Unfolds(g, f, S), Unfolds(h, e, T),
           NEW U, U \subseteq S, U \subseteq T, \A x \in U : f[x] = e[x]
    PROVE  g[U] = h[U]
  <1> DEFINE Bad == {s \in SUBSET U : g[s] # h[s]}
  <1> SUFFICES ASSUME Bad # {} PROVE FALSE
    OBVIOUS
  <1>1. PICK s \in Bad : \A r \in SUBSET s : r # s => r \notin Bad
    <2>1. IsFiniteSet(U) /\ Bad \in SUBSET SUBSET U
      BY FS_Subset
    <2> HIDE DEF Bad
    <2> QED
      BY <2>1, LeastSubset
  <1>2. /\ g[s] = IF s = {} THEN 0 ELSE f[Pick(s)] + g[s \ {Pick(s)}]
        /\ h[s] = IF s = {} THEN 0 ELSE e[Pick(s)] + h[s \ {Pick(s)}]
    BY <1>1 DEF Unfolds
  <1>3. s # {} => Pick(s) \in s
    BY DEF Pick
  <1> QED
    BY <1>1, <1>2, <1>3

LEMMA SumUnfolds ==
    ASSUME NEW S, IsFiniteSet(S), NEW f
    PROVE  Unfolds(CHOOSE g : Unfolds(g, f, S), f, S)
  <1> DEFINE G(s) == CHOOSE g : Unfolds(g, f, s)
             V(s) == G(s)[s]
             Bad == {s \in SUBSET S : ~Unfolds(G(s), f, s)}
  <1> SUFFICES ASSUME Bad # {} PROVE FALSE
    OBVIOUS
  <1>1. PICK s \in Bad : \A r \in SUBSET s : r # s => r \notin Bad
    <2>1. Bad \in SUBSET SUBSET S
      OBVIOUS
    <2> HIDE DEF Bad
    <2> QED
      BY <2>1, LeastSubset
  <1> DEFINE h == [r \in SUBSET s |-> IF r = {} THEN 0 ELSE f[Pick(r)] + V(r \ {Pick(r)})]
  <1>2. ASSUME NEW r \in SUBSET s, r # s PROVE V(r) = h[r]
    <2>0. Unfolds(G(r), f, r) /\ IsFiniteSet(r)
      BY <1>1, <1>2, FS_Subset
    <2>1. V(r) = IF r = {} THEN 0 ELSE f[Pick(r)] + G(r)[r \ {Pick(r)}]
      BY <2>0 DEF Unfolds
    <2>2. CASE r # {}
      <3> DEFINE q == r \ {Pick(r)}
      <3>1. Unfolds(G(q), f, q) /\ q \subseteq r
        BY <1>1, <1>2, <2>2 DEF Pick
      <3> HIDE DEF G
      <3>2. G(r)[q] = G(q)[q]
        BY <2>0, <3>1, SumUnique
      <3> QED
        BY <2>1, <2>2, <3>2
    <2> QED
      BY <2>1, <2>2
  <1>3. \A r \in SUBSET s : r # {} => r \ {Pick(r)} \in SUBSET s /\ r \ {Pick(r)} # s
    BY DEF Pick
  <1>4. h = [r \in SUBSET s |-> IF r = {} THEN 0 ELSE f[Pick(r)] + h[r \ {Pick(r)}]]
    <2> HIDE DEF V
    <2>1. \A r \in SUBSET s : h[r] = IF r = {} THEN 0 ELSE f[Pick(r)] + h[r \ {Pick(r)}]
      <3>1. \A r \in SUBSET s : h[r] = IF r = {} THEN 0 ELSE f[Pick(r)] + V(r \ {Pick(r)})
        OBVIOUS
      <3> HIDE DEF h
      <3> QED
        BY <1>2, <1>3, <3>1
    <2>2. h = [r \in SUBSET s |-> h[r]]
      OBVIOUS
    <2> HIDE DEF h
    <2> QED
      BY <2>1, <2>2
  <1>5. Unfolds(G(s), f, s)
    <2> HIDE DEF h
    <2> QED
      BY <1>4 DEF Unfolds
  <1> QED
    BY <1>1, <1>5

LEMMA SumSame ==
    ASSUME NEW S, IsFiniteSet(S), NEW f, NEW e, \A x \in S : f[x] = e[x]
    PROVE  /\ SumOver(S, f) = SumOver(S, e)
           /\ SumOver(S, f) = IF S = {} THEN 0 ELSE f[Pick(S)] + SumOver(S \ {Pick(S)}, f)
  <1> DEFINE G(s, d) == CHOOSE g : Unfolds(g, d, s)
             q == S \ {Pick(S)}
  <1>1. IsFiniteSet(q) /\ q \subseteq S
    BY FS_Subset
  <1>2. \A s, d : SumOver(s, d) = G(s, d)[s]
    BY DEF SumOver, SumFunctionOnSet, FoldFunctionOnSet, MapThenFoldSet, Unfolds, Pick
  <1>3. Unfolds(G(S, f), f, S) /\ Unfolds(G(S, e), e, S) /\ Unfolds(G(q, f), f, q)
    BY <1>1, SumUnfolds
  <1> HIDE DEF G
  <1>4. G(S, f)[S] = IF S = {} THEN 0 ELSE f[Pick(S)] + G(S, f)[q]
    BY <1>3 DEF Unfolds
  <1> HIDE DEF q
  <1>5. G(S, f)[q] = G(q, f)[q] /\ G(S, f)[S] = G(S, e)[S]
    BY <1>1, <1>3, SumUnique
  <1> QED
    BY <1>2, <1>4, <1>5 DEF q

\* A sum of integers is one, and may be unfolded at any element.
LEMMA SumRemove ==
    ASSUME NEW S, IsFiniteSet(S), NEW f, \A x \in S : f[x] \in Int
    PROVE  /\ SumOver(S, f) \in Int
           /\ \A x \in S : SumOver(S, f) = f[x] + SumOver(S \ {x}, f)
  <1> DEFINE Good(s) == /\ SumOver(s, f) \in Int
                        /\ \A x \in s : SumOver(s, f) = f[x] + SumOver(s \ {x}, f)
             Bad == {s \in SUBSET S : ~Good(s)}
  <1> SUFFICES ASSUME Bad # {} PROVE FALSE
    OBVIOUS
  <1>1. PICK s \in Bad : \A r \in SUBSET s : r # s => r \notin Bad
    <2>1. Bad \in SUBSET SUBSET S
      OBVIOUS
    <2> HIDE DEF Bad
    <2> QED
      BY <2>1, LeastSubset
  <1>2. s \subseteq S /\ ~Good(s) /\ \A r \in SUBSET s : r # s => Good(r)
    BY <1>1
  <1> DEFINE p == Pick(s)
  <1>3. SumOver(s, f) = IF s = {} THEN 0 ELSE f[p] + SumOver(s \ {p}, f)
    BY <1>2, FS_Subset, SumSame
  <1> HIDE DEF Bad
  <1>4. CASE s # {}
    <2>1. p \in s
      BY <1>4 DEF Pick
    <2> HIDE DEF p
    <2>2. Good(s \ {p})
      BY <1>2, <2>1
    <2>3. ASSUME NEW x \in s, x # p PROVE SumOver(s, f) = f[x] + SumOver(s \ {x}, f)
      <3>1. /\ SumOver(s \ {p}, f) = f[x] + SumOver((s \ {p}) \ {x}, f)
            /\ SumOver(s \ {x}, f) = f[p] + SumOver((s \ {x}) \ {p}, f)
            /\ SumOver((s \ {p}) \ {x}, f) \in Int
        BY <1>2, <2>1, <2>3
      <3>2. (s \ {p}) \ {x} = (s \ {x}) \ {p} /\ f[x] \in Int /\ f[p] \in Int
        BY <1>2, <2>1
      <3> HIDE DEF Good
      <3> QED
        BY <1>3, <1>4, <3>1, <3>2
    <2>4. \A x \in s : SumOver(s, f) = f[x] + SumOver(s \ {x}, f)
      BY <1>3, <1>4, <2>3
    <2> QED
      BY <1>2, <1>3, <1>4, <2>1, <2>2, <2>4
  <1> QED
    BY <1>2, <1>3, <1>4

\* Induction on finite sets, for the members of a set P rather than a formula.
LEMMA SubsetInduction ==
    ASSUME NEW S, IsFiniteSet(S), NEW P, {} \in P,
           \A T \in SUBSET S : \A x \in T : T \ {x} \in P => T \in P
    PROVE  S \in P
  <1> DEFINE Bad == {T \in SUBSET S : T \notin P}
  <1> SUFFICES ASSUME Bad # {} PROVE FALSE
    OBVIOUS
  <1>1. PICK T \in Bad : \A U \in SUBSET T : U # T => U \notin Bad
    <2>1. Bad \in SUBSET SUBSET S
      OBVIOUS
    <2> HIDE DEF Bad
    <2> QED
      BY <2>1, LeastSubset
  <1>2. PICK x \in T : TRUE
    BY <1>1
  <1>3. T \ {x} \in P
    BY <1>1, <1>2
  <1> QED
    BY <1>1, <1>2, <1>3

LEMMA SumEmpty ==
    ASSUME NEW f
    PROVE  SumOver({}, f) = 0
  <1>1. IsFiniteSet({})
    BY FS_EmptySet
  <1> QED
    BY <1>1, SumSame

LEMMA SumNat ==
    ASSUME NEW S, IsFiniteSet(S), NEW f, \A x \in S : f[x] \in Nat
    PROVE  SumOver(S, f) \in Nat
  <1> DEFINE P == {T \in SUBSET S : SumOver(T, f) \in Nat}
  <1>1. {} \in P
    BY FS_EmptySet, SumEmpty
  <1>2. ASSUME NEW T \in SUBSET S, NEW x \in T, T \ {x} \in P PROVE T \in P
    BY <1>2, FS_Subset, SumRemove
  <1> HIDE DEF P
  <1>3. S \in P
    BY <1>1, <1>2, SubsetInduction
  <1> QED
    BY <1>3 DEF P

LEMMA SumOfParts ==
    ASSUME NEW S, IsFiniteSet(S), NEW e, NEW g, NEW d, NEW t,
           \A x \in S : /\ g[x] \in Int /\ d[x] \in Int /\ t[x] \in Int
                        /\ e[x] = (g[x] - d[x]) + t[x]
    PROVE  SumOver(S, e) = (SumOver(S, g) - SumOver(S, d)) + SumOver(S, t)
  <1> DEFINE P == {T \in SUBSET S : SumOver(T, e) = (SumOver(T, g) - SumOver(T, d)) + SumOver(T, t)}
  <1>1. {} \in P
    BY FS_EmptySet, SumEmpty
  <1>2. ASSUME NEW T \in SUBSET S, NEW x \in T, T \ {x} \in P PROVE T \in P
    <2> DEFINE U == T \ {x}
    <2>1. IsFiniteSet(T) /\ IsFiniteSet(U) /\ \A y \in T : e[y] \in Int
      BY FS_Subset
    <2>2. /\ SumOver(U, g) \in Int /\ SumOver(U, d) \in Int /\ SumOver(U, t) \in Int
      BY <2>1, SumRemove
    <2>3. /\ SumOver(T, e) = e[x] + SumOver(U, e) /\ SumOver(T, g) = g[x] + SumOver(U, g)
          /\ SumOver(T, d) = d[x] + SumOver(U, d) /\ SumOver(T, t) = t[x] + SumOver(U, t)
      BY <2>1, SumRemove
    <2>4. SumOver(U, e) = (SumOver(U, g) - SumOver(U, d)) + SumOver(U, t)
      BY <1>2
    <2>5. e[x] = (g[x] - d[x]) + t[x] /\ g[x] \in Int /\ d[x] \in Int /\ t[x] \in Int
      OBVIOUS
    <2> HIDE DEF U
    <2> QED
      BY <2>2, <2>3, <2>4, <2>5
  <1> HIDE DEF P
  <1>3. S \in P
    BY <1>1, <1>2, SubsetInduction
  <1> QED
    BY <1>3 DEF P

LEMMA SumScaled ==
    ASSUME NEW S, IsFiniteSet(S), NEW k \in Nat, NEW f, NEW g,
           \A x \in S : g[x] \in Nat /\ f[x] = k * g[x]
    PROVE  SumOver(S, f) = k * SumOver(S, g)
  <1> DEFINE P == {T \in SUBSET S : SumOver(T, f) = k * SumOver(T, g)}
  <1>1. {} \in P
    BY FS_EmptySet, SumEmpty
  <1>2. ASSUME NEW T \in SUBSET S, NEW x \in T, T \ {x} \in P PROVE T \in P
    <2> DEFINE U == T \ {x}
    <2>1. IsFiniteSet(T) /\ IsFiniteSet(U) /\ \A y \in T : f[y] \in Int /\ g[y] \in Int
      BY FS_Subset
    <2>2. PICK a \in Nat, G \in Int : a = g[x] /\ G = SumOver(U, g)
      BY <2>1, SumRemove
    <2>3. SumOver(T, f) = f[x] + SumOver(U, f) /\ SumOver(T, g) = g[x] + SumOver(U, g)
      BY <2>1, SumRemove
    <2>4. SumOver(U, f) = k * G /\ f[x] = k * a
      BY <1>2, <2>2
    <2>5. k * (a + G) = k * a + k * G
      OBVIOUS
    <2> HIDE DEF U
    <2> QED
      BY <2>2, <2>3, <2>4, <2>5
  <1> HIDE DEF P
  <1>3. S \in P
    BY <1>1, <1>2, SubsetInduction
  <1> QED
    BY <1>3 DEF P

\* The sum of values rounded to k-ths is off by half a k-th for each of them at most.
LEMMA SumRounded ==
    ASSUME NEW S, IsFiniteSet(S), NEW k \in Nat, NEW g, NEW q,
           \A x \in S : g[x] \in Int /\ q[x] \in Int /\ 2 * (k * g[x] - q[x]) \in -k .. k
    PROVE  2 * (k * SumOver(S, g) - SumOver(S, q)) \in -(k * Cardinality(S)) .. k * Cardinality(S)
  <1> DEFINE Off(T) == 2 * (k * SumOver(T, g) - SumOver(T, q))
             P == {T \in SUBSET S : Off(T) \in -(k * Cardinality(T)) .. k * Cardinality(T)}
  <1>1. {} \in P
    BY FS_EmptySet, SumEmpty
  <1>2. ASSUME NEW T \in SUBSET S, NEW x \in T, T \ {x} \in P PROVE T \in P
    <2> DEFINE U == T \ {x}
    <2>1. IsFiniteSet(T) /\ IsFiniteSet(U)
      BY FS_Subset
    <2>2. PICK n \in Nat : n = Cardinality(U) /\ Cardinality(T) = n + 1
      <3>1. Cardinality(U) = Cardinality(T) - 1 /\ Cardinality(U) \in Nat /\ Cardinality(T) \in Nat
        BY <2>1, FS_RemoveElement, FS_CardinalityType
      <3> HIDE DEF U
      <3> QED
        BY <3>1
    <2>3. PICK G \in Int, Q \in Int : G = SumOver(U, g) /\ Q = SumOver(U, q)
      BY <2>1, SumRemove
    <2>4. SumOver(T, g) = g[x] + G /\ SumOver(T, q) = q[x] + Q
      BY <2>1, <2>3, SumRemove
    <2>5. 2 * (k * G - Q) \in -(k * n) .. k * n
      BY <1>2, <2>2, <2>3
    <2>6. PICK a \in Int, b \in Int : a = g[x] /\ b = q[x] /\ 2 * (k * a - b) \in -k .. k
      OBVIOUS
    <2>7. k * (a + G) = k * a + k * G /\ k * (n + 1) = k * n + k
      OBVIOUS
    <2>8. k * a \in Int /\ k * G \in Int /\ k * n \in Int
      OBVIOUS
    <2>9. 2 * (k * (a + G) - (b + Q)) \in -(k * (n + 1)) .. k * (n + 1)
      BY <2>5, <2>6, <2>7, <2>8
    <2> QED
      BY <2>2, <2>4, <2>6, <2>9
  <1> HIDE DEF P
  <1>3. S \in P
    BY <1>1, <1>2, SubsetInduction
  <1> QED
    BY <1>3 DEF P

-----------------------------------------------------------------------------
(* Types.                                                                  *)

LEMMA Divisors == Fine \in Nat \ {0} /\ Square \in Nat \ {0} /\ 100 * Scale * Fine \in Nat \ {0}
  <1>1. \A x, y \in Nat \ {0} : x * y \in Nat \ {0}
    OBVIOUS
  <1>2. Scale * Fine \in Nat \ {0} /\ 100 * Scale \in Nat \ {0}
    BY <1>1, ScaleAssumption
  <1>3. Scale * Fine * Fine \in Nat \ {0} /\ 100 * Scale * Fine \in Nat \ {0}
    BY <1>1, <1>2, ScaleAssumption
  <1> QED
    BY <1>3, ScaleAssumption DEF Square

LEMMA GrossType ==
    ASSUME NEW r, \A f \in Fields : r[f] \in Nat
    PROVE  /\ Gross(r) \in Nat /\ Taxable(r) \in Nat /\ Tax(r) \in Nat
           /\ r["quantity"] * r["unitPrice"] \in Nat
           /\ 2 * (Square * Gross(r) - r["quantity"] * r["unitPrice"]) \in -Square .. Square
  <1>1. PICK q \in Nat, u \in Nat, t \in Nat, d \in Nat :
           q = r["quantity"] /\ u = r["unitPrice"] /\ t = r["taxRate"] /\ d = r["discount"]
    BY DEF Fields
  <1>2. q * u \in Nat
    OBVIOUS
  <1>3. /\ Round(q * u, Square) \in Nat
        /\ 2 * (Square * Round(q * u, Square) - q * u) \in -Square .. Square
    BY <1>2, Divisors, RoundBounds
  <1>4. PICK g \in Nat : g = Gross(r) /\ g = Round(q * u, Square)
    BY <1>1, <1>3 DEF Gross
  <1>5. Taxable(r) \in Nat
    <2>1. CASE Fine * g >= d
      <3>1. Fine * g - d \in Nat
        BY <2>1, Divisors
      <3>2. Taxable(r) = Round(Fine * g - d, Fine)
        BY <1>1, <1>4, <2>1 DEF Taxable
      <3> QED
        BY <3>1, <3>2, Divisors, RoundBounds
    <2>2. CASE ~(Fine * g >= d)
      BY <1>1, <1>4, <2>2 DEF Taxable
    <2> QED
      BY <2>1, <2>2
  <1>6. Taxable(r) * t \in Nat
    BY <1>5
  <1>7. Tax(r) \in Nat
    BY <1>1, <1>6, Divisors, RoundBounds DEF Tax
  <1> QED
    BY <1>1, <1>3, <1>4, <1>5, <1>7

LEMMA HeaderAmounts ==
    ASSUME NEW c, NEW d, NEW t
    PROVE  /\ Header(c, d, t)["subtotal"] = c /\ Header(c, d, t)["discount"] = d
           /\ Header(c, d, t)["tax"] = t /\ Header(c, d, t)["total"] = (c - d) + t
  BY DEF Header, Amounts

LEMMA TotalsType ==
    ASSUME NEW L, \A i \in Items : IsItem(L[i])
    PROVE  Totals(L)["total"] \in Int /\ \A c \in Amounts \ {"total"} : Totals(L)[c] \in Nat
  <1> DEFINE S == Present(L)
             q == [i \in S |-> L[i]["quantity"] * L[i]["unitPrice"]]
             d == [i \in S |-> L[i]["discount"]]
             t == [i \in S |-> Tax(L[i])]
  <1>1. IsFiniteSet(S) /\ S \subseteq Items
    BY FiniteAssumption, FS_Subset DEF Present
  <1>2. \A i \in Items : \A f \in Fields : L[i][f] \in Nat
    BY DEF IsItem, ItemColumns, Fields
  <1>3. \A i \in S : q[i] \in Nat /\ d[i] \in Nat /\ t[i] \in Nat
    BY <1>1, <1>2, GrossType DEF Fields
  <1>4. Totals(L) = Header(Round(SumOver(S, q), Square), Round(SumOver(S, d), Fine), SumOver(S, t))
    BY DEF Totals, Cost, SumOf, SumOver
  <1> HIDE DEF S, q, d, t
  <1>5. SumOver(S, q) \in Nat /\ SumOver(S, d) \in Nat /\ SumOver(S, t) \in Nat
    BY <1>1, <1>3, SumNat
  <1>6. Round(SumOver(S, q), Square) \in Nat /\ Round(SumOver(S, d), Fine) \in Nat
    BY <1>5, RoundBounds, Divisors
  <1> QED
    BY <1>4, <1>5, <1>6, HeaderAmounts DEF Amounts

LEMMA HeaderType ==
    ASSUME NEW h, IsBill(h), NEW L, \A i \in Items : IsItem(L[i])
    PROVE  IsBill(WithTotals(h, L))
  BY TotalsType DEF IsBill, WithTotals, BillColumns, Amounts

LEMMA ComputedType ==
    ASSUME NEW b \in Bills, NEW l, \A f \in Fields : l[f] \in Nat
    PROVE  IsItem(Computed(b, l))
  <1>1. Taxable(l) + Tax(l) \in Nat /\ Tax(l) \in Nat
    BY GrossType
  <1> QED
    BY <1>1 DEF IsItem, Computed, ItemColumns, Fields

LEMMA StoredType ==
    ASSUME NEW r, IsItem(r)
    PROVE  IsItem(Stored(r)) /\ IsItem(ReadBack(r))
  <1>1. ASSUME NEW f \in Fields PROVE Stored(r)[f] \in Nat
    <2>1. r[f] \in Nat /\ f \in ItemColumns
      BY DEF IsItem, ItemColumns, Fields
    <2>2. Round(r[f], Fine) \in Nat
      BY <2>1, RoundBounds, Divisors
    <2>3. Fine * Round(r[f], Fine) \in Nat
      BY <2>2, Divisors
    <2> QED
      BY <2>1, <2>3 DEF Stored
  <1>2. \A c \in ItemColumns \ Fields : Stored(r)[c] = r[c]
    BY DEF Stored
  <1>3. IsItem(Stored(r))
    <2>1. DOMAIN Stored(r) = ItemColumns /\ Stored(r)["bill"] = r["bill"]
      BY DEF Stored, ItemColumns, Fields
    <2> QED
      BY <1>1, <1>2, <2>1 DEF IsItem
  <1>4. \A c \in ItemColumns : ReadBack(r)[c] \in {r[c], Stored(r)[c]}
    BY DEF ReadBack
  <1>5. DOMAIN ReadBack(r) = ItemColumns /\ ReadBack(r)["bill"] = r["bill"]
    BY DEF ReadBack, ItemColumns
  <1> QED
    BY <1>3, <1>4, <1>5 DEF IsItem

LEMMA NoRowsType == /\ IsItem(NoItem) /\ IsBill(NoBill)
                    /\ NoBill["status"] = "None" /\ NoBill["total"] = 0
  <1>1. IsItem(NoItem)
    <2>1. DOMAIN NoItem = ItemColumns /\ NoItem["bill"] = None
      BY DEF NoItem, ItemColumns
    <2>2. \A c \in ItemColumns \ {"bill"} : NoItem[c] = 0
      BY DEF NoItem
    <2> QED
      BY <2>1, <2>2 DEF IsItem
  <1>2. DOMAIN NoBill = BillColumns /\ NoBill["status"] = "None" /\ NoBill["deleted"] = FALSE
    BY DEF NoBill, BillColumns
  <1>3. \A c \in Amounts : NoBill[c] = 0
    BY DEF NoBill, BillColumns, Amounts
  <1>4. NoBill["deleted"] \in BOOLEAN /\ NoBill["status"] \in BillStatus
    BY <1>2, Zenon DEF BillStatus
  <1>5. NoBill["total"] = 0 /\ \A c \in Amounts \ {"total"} : NoBill[c] \in Nat
    BY <1>3 DEF Amounts
  <1> QED
    BY <1>1, <1>2, <1>4, <1>5 DEF IsBill

\* The rows, and what the handlers have of them in memory.
RowTypes ==
    /\ \A b \in Bills : IsBill(bills[b]) /\ (bills[b]["status"] = "None" => bills[b]["total"] = 0)
    /\ \A i \in Items : IsItem(items[i])
    /\ \A p \in Workers :
          /\ IsBill(header[p]) /\ (\A i \in Items : IsItem(lines[p][i]))
          /\ dirty[p] \subseteq ItemColumns \cup BillColumns

LEMMA InitTypes == Init => RowTypes
  BY NoRowsType DEF Init, RowTypes

LEMMA StartTypes ==
    ASSUME IInv, RowTypes, NEW p \in Workers, NEW h, NEW b, NEW i, NEW hd, NEW L, NEW first,
           Start(p, h, b, i, hd, L, first), IsBill(hd), \A j \in Items : IsItem(L[j])
    PROVE  RowTypes'
  <1>1. /\ UNCHANGED <<bills, items, dirty>>
        /\ header' = [header EXCEPT ![p] = hd] /\ lines' = [lines EXCEPT ![p] = L]
    BY DEF Start, tables
  <1>2. /\ \A q \in Workers : header'[q] = IF q = p THEN hd ELSE header[q]
        /\ \A q \in Workers : lines'[q] = IF q = p THEN L ELSE lines[q]
    BY <1>1 DEF IInv, Shape, On
  <1> QED
    BY <1>1, <1>2 DEF RowTypes

LEMMA RequestTypes ==
    ASSUME IInv, RowTypes, NEW p \in Workers, NEW b \in Bills, Request(p, b)
    PROVE  RowTypes'
  <1>1. IsBill(bills[b])
    BY DEF RowTypes
  <1>2. On(ItemsOf(b), Items) /\ \A j \in Items : IsItem(ItemsOf(b)[j])
    BY NoRowsType DEF RowTypes, ItemsOf, On
  <1>3. ASSUME NEW i \in Items, NEW l, \A f \in Fields : l[f] \in Nat
        PROVE  \A j \in Items : IsItem([ItemsOf(b) EXCEPT ![i] = Computed(b, l)][j])
    BY <1>2, <1>3, ComputedType DEF On
  <1>4. \A l \in Lines : \A f \in Fields : l[f] \in Nat
    BY LinesAssumption DEF Line
  <1>5. ASSUME NEW i \in Items, NEW l \in Lines, AddItem(p, b, i, l) PROVE RowTypes'
    BY <1>1, <1>3, <1>4, <1>5, StartTypes DEF AddItem
  <1>6. ASSUME NEW i \in Items, NEW F, NEW l \in Lines, UpdateItem(p, b, i, F, l) PROVE RowTypes'
    <2>1. PICK line : line = [f \in Fields |-> IF f \in F THEN l[f] ELSE items[i][f]]
      OBVIOUS
    <2>2. \A f \in Fields : line[f] \in Nat
      BY <1>4, <2>1 DEF RowTypes, IsItem, ItemColumns, Fields
    <2>3. Start(p, "edit", b, i, bills[b], [ItemsOf(b) EXCEPT ![i] = Computed(b, line)], "diffItem")
      BY <1>6, <2>1 DEF UpdateItem
    <2> QED
      BY <1>1, <1>3, <2>2, <2>3, StartTypes
  <1>7. ASSUME NEW i \in Items, RemoveItem(p, b, i) PROVE RowTypes'
    BY <1>1, <1>2, <1>7, StartTypes DEF RemoveItem
  <1>8. CASE UpdateBill(p, b)
    BY <1>1, <1>2, <1>8, StartTypes DEF UpdateBill
  <1>9. CASE DeleteBill(p, b)
    BY <1>1, <1>2, <1>9, StartTypes DEF DeleteBill
  <1>10. ASSUME NEW s \in BillStatus, Transition(p, b, s) PROVE RowTypes'
    <2>1. PICK hd : hd = [bills[b] EXCEPT !["status"] = s]
      OBVIOUS
    <2>2. IsBill(hd)
      BY <1>1, <2>1 DEF IsBill, BillColumns, Amounts
    <2>3. \/ Start(p, "complete", b, None, bills[b], ItemsOf(b), "readAgain")
          \/ Start(p, "header", b, None, hd, ItemsOf(b), "diff")
      BY <1>10, <2>1 DEF Transition
    <2> QED
      BY <1>1, <1>2, <2>2, <2>3, StartTypes
  <1> QED
    BY <1>5, <1>6, <1>7, <1>8, <1>9, <1>10 DEF Request, EditItem

LEMMA RolledTypes ==
    ASSUME IInv, RowTypes, NEW p \in Workers, step[p] \in ItemSteps, NEW L, Rolled(p, L),
           NEW row, items' = [items EXCEPT ![item[p]] = row] \/ items' = items, IsItem(row),
           lines' = [lines EXCEPT ![p] = L] \/ (lines' = lines /\ L = lines[p]),
           \A i \in Items : IsItem(L[i])
    PROVE  RowTypes'
  <1>1. item[p] \in Items /\ On(items, Items) /\ On(lines, Workers) /\ On(header, Workers)
    BY DEF IInv, Shape
  <1>2. /\ \A i \in Items : items'[i] \in {row, items[i]}
        /\ \A q \in Workers : lines'[q] = lines[q] \/ (q = p /\ lines'[q] = L)
        /\ UNCHANGED <<bills, dirty>>
    BY <1>1 DEF On, Rolled
  <1>3. \A q \in Workers : header'[q] = IF q = p THEN WithTotals(header[p], L) ELSE header[q]
    BY <1>1 DEF On, Rolled
  <1>4. IsBill(WithTotals(header[p], L))
    BY HeaderType DEF RowTypes
  <1>5. \A q \in Workers : IsBill(header'[q])
    BY <1>3, <1>4 DEF RowTypes
  <1>6. \A i \in Items : IsItem(items'[i])
    BY <1>2 DEF RowTypes
  <1>7. \A q \in Workers : \A i \in Items : IsItem(lines'[q][i])
    BY <1>2 DEF RowTypes
  <1> QED
    BY <1>2, <1>5, <1>6, <1>7 DEF RowTypes

LEMMA LineTypes ==
    ASSUME IInv, RowTypes, NEW p \in Workers, CreateItem(p) \/ SaveItem(p) \/ DeleteItem(p)
    PROVE  RowTypes'
  <1> DEFINE i == item[p]
  <1>1. step[p] \in ItemSteps
    BY DEF CreateItem, SaveItem, DeleteItem, ItemSteps
  <1>2. /\ i \in Items /\ On(lines[p], Items)
        /\ IsItem(items[i]) /\ \A j \in Items : IsItem(lines[p][j])
    BY <1>1 DEF IInv, Shape, RowTypes
  <1>3. CASE CreateItem(p)
    <2>1. PICK L : L = [lines[p] EXCEPT ![i] = ReadBack(@)]
      OBVIOUS
    <2>2. /\ Rolled(p, L) /\ lines' = [lines EXCEPT ![p] = L]
          /\ items' = [items EXCEPT ![i] = Stored(lines[p][i])]
      BY <1>3, <2>1 DEF CreateItem
    <2>3. \A j \in Items : L[j] = IF j = i THEN ReadBack(lines[p][i]) ELSE lines[p][j]
      BY <1>2, <2>1 DEF On
    <2>4. IsItem(Stored(lines[p][i])) /\ \A j \in Items : IsItem(L[j])
      BY <1>2, <2>3, StoredType
    <2> QED
      BY <1>1, <2>2, <2>4, RolledTypes
  <1>4. CASE SaveItem(p)
    <2> DEFINE row == [c \in ItemColumns |->
                           IF c \in dirty[p] THEN Stored(lines[p][i])[c] ELSE items[i][c]]
    <2>0. IsItem(Stored(lines[p][i]))
      BY <1>2, StoredType
    <2>1. IsItem(row)
      BY <1>2, <2>0 DEF IsItem, ItemColumns
    <2>2. items' = [items EXCEPT ![i] = row] \/ items' = items
      BY <1>2, <1>4 DEF SaveItem, IInv, Shape, On
    <2> HIDE DEF row
    <2> QED
      BY <1>1, <1>2, <1>4, <2>1, <2>2, RolledTypes DEF SaveItem
  <1>5. CASE DeleteItem(p)
    <2>1. PICK rest : rest = [lines[p] EXCEPT ![i] = NoItem]
      OBVIOUS
    <2>2. \A j \in Items : IsItem(rest[j])
      BY <1>2, <2>1, NoRowsType DEF On
    <2>3. /\ Rolled(p, rest) /\ lines' = [lines EXCEPT ![p] = rest]
          /\ items' = [items EXCEPT ![i] = NoItem]
      BY <1>5, <2>1 DEF DeleteItem
    <2> QED
      BY <1>1, <2>2, <2>3, NoRowsType, RolledTypes
  <1> QED
    BY <1>3, <1>4, <1>5

\* The step is over, and nothing of it is left in memory.
LEMMA ReturnTypes ==
    ASSUME IInv, RowTypes, NEW p \in Workers, Return(p), items' = items,
           \A b \in Bills : IsBill(bills'[b]) /\ (bills'[b]["status"] = "None" => bills'[b]["total"] = 0)
    PROVE  RowTypes'
  <1>1. /\ \A q \in Workers : header'[q] \in {NoBill, header[q]}
        /\ \A q \in Workers : lines'[q] \in {[i \in Items |-> NoItem], lines[q]}
        /\ \A q \in Workers : dirty'[q] \in {{}, dirty[q]}
    BY DEF Return, IInv, Shape, On
  <1> QED
    BY <1>1, NoRowsType DEF RowTypes

LEMMA BillTypes ==
    ASSUME IInv, RowTypes, NEW p \in Workers,
           \/ DiffItem(p) \/ ReadAgain(p) \/ Sell(p) \/ SoftDelete(p) \/ DiffBill(p)
           \/ SaveBill(p) \/ Crash(p)
    PROVE  RowTypes'
  <1>1. /\ subject[p] \in Bills
        /\ bills[subject[p]]["status"] # "None" /\ header[p]["status"] # "None"
        /\ IsBill(header[p]) /\ IsBill(bills[subject[p]])
        /\ On(header, Workers) /\ On(lines, Workers) /\ On(dirty, Workers) /\ On(bills, Bills)
    BY NoneAssumption
    DEF DiffItem, ReadAgain, Sell, SoftDelete, DiffBill, SaveBill, Crash, IInv, Shape, Owned, RowTypes
  <1>2. CASE DiffItem(p) \/ DiffBill(p)
    <2>1. \A q \in Workers : dirty'[q] = dirty[q] \/ dirty'[q] \subseteq ItemColumns \cup BillColumns
      BY <1>1, <1>2 DEF DiffItem, DiffBill, On
    <2> QED
      BY <1>2, <2>1 DEF DiffItem, DiffBill, tables, RowTypes
  <1>3. CASE Sell(p)
    <2>1. /\ UNCHANGED <<tables, lines, dirty>>
          /\ \A q \in Workers : \/ header'[q] = header[q]
                                \/ (q = p /\ header'[q] = [header[p] EXCEPT !["status"] = "Completed"])
      BY <1>1, <1>3 DEF Sell, On
    <2>2. IsBill([header[p] EXCEPT !["status"] = "Completed"])
      BY <1>1 DEF IsBill, BillColumns, BillStatus, Amounts
    <2> QED
      BY <2>1, <2>2 DEF RowTypes, tables
  <1>4. CASE ReadAgain(p)
    <2>1. CASE Return(p)
      BY <1>4, <2>1, ReturnTypes DEF ReadAgain, tables, RowTypes
    <2>2. CASE ~Return(p)
      <3>1. /\ UNCHANGED <<tables, dirty>>
            /\ \A q \in Workers : header'[q] \in {header[q], bills[subject[p]]}
            /\ \A q \in Workers : lines'[q] \in {lines[q], ItemsOf(subject[p])}
        BY <1>1, <1>4, <2>2 DEF ReadAgain, On
      <3>2. \A i \in Items : IsItem(ItemsOf(subject[p])[i])
        BY NoRowsType DEF ItemsOf, RowTypes
      <3> QED
        BY <1>1, <3>1, <3>2 DEF RowTypes, tables
    <2> QED
      BY <2>1, <2>2
  <1>5. CASE Crash(p)
    BY <1>5, ReturnTypes DEF Crash, tables, RowTypes
  <1>6. CASE SoftDelete(p)
    <2> DEFINE row == [bills[subject[p]] EXCEPT !["deleted"] = TRUE]
    <2>1. /\ Return(p) /\ items' = items
          /\ \A b \in Bills : bills'[b] = bills[b] \/ (b = subject[p] /\ bills'[b] = row)
      BY <1>1, <1>6 DEF SoftDelete, On
    <2>2. IsBill(row) /\ row["status"] # "None"
      BY <1>1 DEF IsBill, BillColumns, Amounts
    <2> HIDE DEF row
    <2> QED
      BY <2>1, <2>2, ReturnTypes DEF RowTypes
  <1>7. CASE SaveBill(p)
    <2> DEFINE row == [c \in BillColumns |-> IF c \in dirty[p] THEN header[p][c] ELSE bills[subject[p]][c]]
    <2>1. /\ Return(p) /\ items' = items
          /\ \A b \in Bills : bills'[b] = bills[b] \/ (b = subject[p] /\ bills'[b] = row)
      BY <1>1, <1>7 DEF SaveBill, On
    <2>2. IsBill(row) /\ row["status"] # "None"
      BY <1>1 DEF IsBill, BillColumns, Amounts
    <2> HIDE DEF row
    <2> QED
      BY <2>1, <2>2, ReturnTypes DEF RowTypes
  <1> QED
    BY <1>2, <1>3, <1>4, <1>5, <1>6, <1>7

LEMMA CreateTypes ==
    ASSUME IInv, RowTypes, NEW b \in Bills, NEW S \in SUBSET Items, CreateBill(b, S)
    PROVE  RowTypes'
  <1>0. PICK l \in [S -> Lines] :
           LET L == [i \in Items |-> IF i \in S THEN Computed(b, l[i]) ELSE NoItem] IN
           /\ items' = [i \in Items |-> IF i \in S THEN Stored(L[i]) ELSE items[i]]
           /\ bills' = [bills EXCEPT ![b] =
                           WithTotals([NoBill EXCEPT !["status"] = "Initiated"], L)]
    BY DEF CreateBill
  <1>1. PICK L, h :
           /\ L = [i \in Items |-> IF i \in S THEN Computed(b, l[i]) ELSE NoItem]
           /\ h = [NoBill EXCEPT !["status"] = "Initiated"]
           /\ items' = [i \in Items |-> IF i \in S THEN Stored(L[i]) ELSE items[i]]
           /\ bills' = [bills EXCEPT ![b] = WithTotals(h, L)]
    BY <1>0
  <1>2. \A i \in Items : IsItem(L[i]) /\ IsItem(Stored(L[i]))
    BY <1>1, ComputedType, NoRowsType, StoredType, LinesAssumption DEF Line
  <1>3. IsBill(h) /\ h["status"] = "Initiated"
    BY <1>1, NoRowsType DEF IsBill, BillColumns, Amounts, BillStatus
  <1>4. IsBill(WithTotals(h, L)) /\ WithTotals(h, L)["status"] = "Initiated"
    BY <1>2, <1>3, HeaderType DEF WithTotals, BillColumns, Amounts
  <1>5. \A d \in Bills : bills'[d] \in {bills[d], WithTotals(h, L)}
    BY <1>1 DEF IInv, Shape, On
  <1>6. \A i \in Items : items'[i] \in {items[i], Stored(L[i])}
    BY <1>1
  <1>7. UNCHANGED <<header, lines, dirty>>
    BY DEF CreateBill, worker
  <1>8. \A d \in Bills : IsBill(bills'[d]) /\ (bills'[d]["status"] = "None" => bills'[d]["total"] = 0)
    BY <1>4, <1>5 DEF RowTypes
  <1> QED
    BY <1>2, <1>6, <1>7, <1>8 DEF RowTypes

LEMMA StepTypes == IInv /\ RowTypes /\ [Next]_vars => RowTypes'
  <1> SUFFICES ASSUME IInv, RowTypes, [Next]_vars PROVE RowTypes'
    OBVIOUS
  <1>1. ASSUME NEW p \in Workers, Work(p) PROVE RowTypes'
    BY <1>1, LineTypes, BillTypes DEF Work
  <1>2. CASE UNCHANGED vars
    BY <1>2 DEF vars, tables, worker, RowTypes
  <1> QED
    BY <1>1, <1>2, RequestTypes, CreateTypes DEF Next

LEMMA Typed == Spec => [](IInv /\ RowTypes)
  BY InitInv, InitTypes, StepInv, StepTypes, PTL DEF Spec

\* Every row and all that handlers remember has the type of its column, for any
\* prices, rates and discounts: no amount but a bill's total is ever negative
\* (bill-totals.ts:17-40, bill.entity.ts, bill-item.entity.ts).
THEOREM BillsWellTyped == Spec => []TypeOK
  <1>1. IInv /\ RowTypes => TypeOK
    BY DEF IInv, Shape, RowTypes, TypeOK
  <1> QED
    BY <1>1, Typed, PTL

-----------------------------------------------------------------------------
(* What is printed on a bill.                                              *)

Priced(r) == r["lineTotal"] = Taxable(r) + Tax(r)

\* A line about to be written is priced as it stands; so is one of a bill that
\* handlers have always taken turns at, where no save has mixed two versions of it,
\* and that was given no amount finer than its column: there rows are what was computed.
Prices ==
    /\ \A i \in Items : items[i]["bill"] # None /\ care[items[i]["bill"]] = "untouched" =>
           Priced(items[i]) /\ Stored(items[i]) = items[i]
    /\ \A p \in Workers : step[p] \in {"create", "diffItem", "saveItem"} =>
           Priced(lines[p][item[p]])

LEMMA ComputedPriced ==
    ASSUME NEW b, NEW l
    PROVE  Priced(Computed(b, l))
  <1> DEFINE r == Computed(b, l)
  <1>1. /\ r["quantity"] = l["quantity"] /\ r["unitPrice"] = l["unitPrice"]
        /\ r["taxRate"] = l["taxRate"] /\ r["discount"] = l["discount"]
        /\ r["lineTotal"] = Taxable(l) + Tax(l)
    BY DEF Computed, ItemColumns, Fields
  <1> HIDE DEF r
  <1>2. Taxable(r) = Taxable(l)
    BY <1>1 DEF Taxable, Gross
  <1>3. Tax(r) = Tax(l)
    BY <1>1, <1>2 DEF Tax
  <1>4. Priced(r)
    BY <1>1, <1>2, <1>3 DEF Priced
  <1> QED
    BY <1>4 DEF r

LEMMA StartPrices ==
    ASSUME IInv, Prices, NEW p \in Workers, NEW h, NEW b \in Bills, NEW i, NEW hd, NEW L, NEW first,
           Start(p, h, b, i, hd, L, first), first \in {"create", "diffItem"} => Priced(L[i]),
           first # "saveItem"
    PROVE  Prices'
  <1>1. /\ items' = items /\ step'[p] = first /\ lines'[p] = L /\ item'[p] = i
        /\ \A d \in Bills : care'[d] = "untouched" => care[d] = "untouched"
        /\ \A q \in Workers \ {p} : step'[q] = step[q] /\ lines'[q] = lines[q] /\ item'[q] = item[q]
    <2>1. Touch(b, L) /\ care \in [Bills -> {"untouched", "fine", "mixed", "healed"}]
      BY DEF Start, IInv, Shape
    <2>2. \A d \in Bills : care'[d] = "untouched" => care[d] = "untouched"
      BY <2>1 DEF Touch
    <2>3. On(step, Workers) /\ On(lines, Workers) /\ On(item, Workers)
      BY DEF IInv, Shape, On
    <2> QED
      BY <2>2, <2>3 DEF Start, On, tables
  <1>2. \A j \in Items : items[j]["bill"] # None => items[j]["bill"] \in Bills
    BY DEF IInv, Owned
  <1> QED
    BY <1>1, <1>2 DEF Prices

LEMMA RequestPrices ==
    ASSUME IInv, Prices, NEW p \in Workers, NEW b \in Bills, Request(p, b)
    PROVE  Prices'
  <1>1. \A i \in Items : \A l : Priced([ItemsOf(b) EXCEPT ![i] = Computed(b, l)][i])
    BY ComputedPriced DEF ItemsOf
  <1>2. ASSUME NEW i \in Items, NEW l \in Lines, AddItem(p, b, i, l) PROVE Prices'
    BY <1>1, <1>2, StartPrices DEF AddItem
  <1>3. ASSUME NEW i \in Items, NEW F, NEW l \in Lines, UpdateItem(p, b, i, F, l) PROVE Prices'
    <2>1. PICK line : line = [f \in Fields |-> IF f \in F THEN l[f] ELSE items[i][f]]
      OBVIOUS
    <2>2. Start(p, "edit", b, i, bills[b], [ItemsOf(b) EXCEPT ![i] = Computed(b, line)], "diffItem")
      BY <1>3, <2>1 DEF UpdateItem
    <2> QED
      BY <1>1, <2>2, StartPrices
  <1>4. ASSUME NEW i \in Items, RemoveItem(p, b, i) PROVE Prices'
    BY <1>4, StartPrices DEF RemoveItem
  <1>5. CASE UpdateBill(p, b)
    BY <1>5, StartPrices DEF UpdateBill
  <1>6. CASE DeleteBill(p, b)
    BY <1>6, StartPrices DEF DeleteBill
  <1>7. ASSUME NEW s \in BillStatus, Transition(p, b, s) PROVE Prices'
    BY <1>7, StartPrices DEF Transition
  <1> QED
    BY <1>2, <1>3, <1>4, <1>5, <1>6, <1>7 DEF Request, EditItem

\* Line i of bill b becomes row: only a bill that is untouched needs it priced.
LEMMA RowPrices ==
    ASSUME IInv, Prices, NEW p \in Workers, step[p] \in ItemSteps, NEW L, Rolled(p, L),
           NEW row, items' = [items EXCEPT ![item[p]] = row],
           row["bill"] \in {subject[p], None},
           row["bill"] # None /\ care[subject[p]] = "untouched" => Priced(row) /\ Stored(row) = row,
           \A q \in Workers \ {p} : lines'[q] = lines[q]
    PROVE  Prices'
  <1>1. item[p] \in Items /\ On(items, Items)
    BY DEF IInv, Shape
  <1>2. /\ \A j \in Items : items'[j] = IF j = item[p] THEN row ELSE items[j]
        /\ care' = care
    BY <1>1 DEF On, Rolled
  <1>3. /\ \A q \in Workers \ {p} : step'[q] = step[q] /\ item'[q] = item[q]
        /\ step'[p] = "diff"
    BY DEF Rolled, Goto, IInv, Shape
  <1> QED
    BY <1>2, <1>3 DEF Prices

LEMMA LinePrices ==
    ASSUME IInv, Prices, NEW p \in Workers, CreateItem(p) \/ SaveItem(p) \/ DeleteItem(p)
    PROVE  Prices'
  <1>1. step[p] \in ItemSteps
    BY DEF CreateItem, SaveItem, DeleteItem, ItemSteps
  <1>2. /\ item[p] \in Items /\ On(items, Items) /\ On(items[item[p]], ItemColumns)
        /\ On(lines, Workers) /\ On(lines[p][item[p]], ItemColumns)
        /\ subject[p] # None /\ item[p] # None
    BY <1>1, NoneAssumption DEF IInv, Shape, ItemSteps
  <1>3. /\ lines[p][item[p]]["bill"] \in {subject[p], None}
        /\ items[item[p]]["bill"] \in {subject[p], None}
    BY <1>2 DEF IInv, Owned
  <1>4. ASSUME care[subject[p]] = "untouched"
        PROVE  alone[p] /\ InHand(p) /\ Stored(lines[p][item[p]]) = lines[p][item[p]]
    <2>1. alone[p] /\ InHand(p) /\ InStep(subject[p]) /\ handler[p] = "edit"
      BY <1>1, <1>2, <1>4 DEF IInv, Shape, Turns, InStep
    <2> QED
      BY <1>2, <2>1 DEF InHand, AtPrecision
  <1>5. CASE CreateItem(p)
    <2>1. PICK L : L = [lines[p] EXCEPT ![item[p]] = ReadBack(@)]
      OBVIOUS
    <2>2. PICK row : row = Stored(lines[p][item[p]])
      OBVIOUS
    <2>3. /\ Rolled(p, L) /\ lines' = [lines EXCEPT ![p] = L] /\ step[p] = "create"
          /\ items' = [items EXCEPT ![item[p]] = row]
      BY <1>5, <2>1, <2>2 DEF CreateItem
    <2>4. row["bill"] \in {subject[p], None}
      BY <1>3, <2>2, StoredRows
    <2>5. care[subject[p]] = "untouched" => Priced(row) /\ Stored(row) = row
      BY <1>4, <2>2, <2>3 DEF Prices
    <2>6. \A q \in Workers \ {p} : lines'[q] = lines[q]
      BY <1>2, <2>3 DEF On
    <2> QED
      BY <1>1, <2>3, <2>4, <2>5, <2>6, RowPrices
  <1>6. CASE SaveItem(p)
    <2> DEFINE new == [c \in ItemColumns |->
                           IF c \in dirty[p] THEN Stored(lines[p][item[p]])[c]
                           ELSE items[item[p]][c]]
               stays == items[item[p]]["bill"] = None /\ ~("bill" \in dirty[p])
               row == IF stays THEN items[item[p]] ELSE new
    <2>1. /\ Rolled(p, lines[p]) /\ lines' = lines /\ step[p] = "saveItem"
          /\ items' = [items EXCEPT ![item[p]] = row]
      BY <1>2, <1>6 DEF SaveItem, On
    <2>2. row["bill"] \in {subject[p], None}
      BY <1>3, StoredRows DEF ItemColumns
    <2>3. ASSUME row["bill"] # None, care[subject[p]] = "untouched"
          PROVE  Priced(row) /\ Stored(row) = row
      <3>1. alone[p] /\ InHand(p) /\ Stored(lines[p][item[p]]) = lines[p][item[p]]
        BY <1>4, <2>3
      <3>2. \A c \in ItemColumns \ dirty[p] : lines[p][item[p]][c] = items[item[p]][c]
        BY <2>1, <3>1 DEF InHand
      <3>3. \A c \in ItemColumns : new[c] = lines[p][item[p]][c]
        BY <3>1, <3>2
      <3>4. new = lines[p][item[p]]
        BY <1>2, <3>3 DEF On
      <3>5. row = new
        BY <2>3
      <3> QED
        BY <2>1, <3>1, <3>4, <3>5 DEF Prices
    <2> HIDE DEF row
    <2> QED
      BY <1>1, <2>1, <2>2, <2>3, RowPrices
  <1>7. CASE DeleteItem(p)
    <2>1. PICK rest : rest = [lines[p] EXCEPT ![item[p]] = NoItem]
      OBVIOUS
    <2>2. /\ Rolled(p, rest) /\ lines' = [lines EXCEPT ![p] = rest]
          /\ items' = [items EXCEPT ![item[p]] = NoItem]
      BY <1>7, <2>1 DEF DeleteItem
    <2> QED
      BY <1>1, <1>2, <2>2, NoRows, RowPrices DEF On
  <1> QED
    BY <1>5, <1>6, <1>7

\* Steps that write no line: none begins to write one, none makes a bill untouched.
LEMMA OtherPrices ==
    ASSUME IInv, Prices, NEW p \in Workers,
           \/ DiffItem(p) \/ ReadAgain(p) \/ Sell(p) \/ SoftDelete(p) \/ DiffBill(p)
           \/ SaveBill(p) \/ Crash(p)
    PROVE  Prices'
  <1>1. subject[p] \in Bills
    BY DEF DiffItem, ReadAgain, Sell, SoftDelete, DiffBill, SaveBill, Crash, IInv, Shape
  <1>2. items' = items
    BY DEF DiffItem, ReadAgain, Sell, SoftDelete, DiffBill, SaveBill, Crash, tables
  <1>3. \A d \in Bills : care'[d] = "untouched" => care[d] = "untouched"
    BY <1>1
    DEF DiffItem, ReadAgain, Sell, SoftDelete, DiffBill, SaveBill, Crash, history, IInv, Shape
  <1>4. \A q \in Workers \ {p} : step'[q] = step[q] /\ lines'[q] = lines[q] /\ item'[q] = item[q]
    BY DEF DiffItem, ReadAgain, Sell, SoftDelete, DiffBill, SaveBill, Crash, Goto, Return,
           IInv, Shape, On
  <1>5. step'[p] \in {"create", "diffItem", "saveItem"} =>
            step[p] = "diffItem" /\ lines'[p] = lines[p] /\ item'[p] = item[p]
    BY DEF DiffItem, ReadAgain, Sell, SoftDelete, DiffBill, SaveBill, Crash, Goto, Return,
           IInv, Shape
  <1>6. \A j \in Items : items[j]["bill"] # None => items[j]["bill"] \in Bills
    BY DEF IInv, Owned
  <1> QED
    BY <1>2, <1>3, <1>4, <1>5, <1>6 DEF Prices

LEMMA CreatePrices ==
    ASSUME IInv, Prices, NEW b \in Bills, NEW S \in SUBSET Items, CreateBill(b, S)
    PROVE  Prices'
  <1>1. PICK l \in [S -> Lines] :
           LET L == [i \in Items |-> IF i \in S THEN Computed(b, l[i]) ELSE NoItem] IN
           /\ items' = [i \in Items |-> IF i \in S THEN Stored(L[i]) ELSE items[i]]
           /\ Touch(b, L)
    BY DEF CreateBill
  <1>2. PICK L : /\ L = [i \in Items |-> IF i \in S THEN Computed(b, l[i]) ELSE NoItem]
                 /\ items' = [i \in Items |-> IF i \in S THEN Stored(L[i]) ELSE items[i]]
                 /\ Touch(b, L)
    BY <1>1
  <1>3. UNCHANGED <<step, lines, item>>
    BY DEF CreateBill, worker
  <1>4. /\ \A d \in Bills : care'[d] = "untouched" => care[d] = "untouched"
        /\ care'[b] = "untouched" => AtPrecision(L)
    BY <1>2 DEF Touch, IInv, Shape
  <1>5. \A i \in Items : items[i]["bill"] # None => items[i]["bill"] \in Bills
    BY DEF IInv, Owned
  <1>6. ASSUME NEW i \in Items, items'[i]["bill"] # None, care'[items'[i]["bill"]] = "untouched"
        PROVE  Priced(items'[i]) /\ Stored(items'[i]) = items'[i]
    <2>1. CASE i \in S
      <3>1. items'[i] = Stored(L[i]) /\ L[i] = Computed(b, l[i])
        BY <1>2, <2>1
      <3>2. items'[i]["bill"] = b
        BY <3>1, StoredRows DEF Computed, ItemColumns
      <3>3. Stored(L[i]) = L[i]
        BY <1>4, <1>6, <3>2 DEF AtPrecision
      <3> QED
        BY <3>1, <3>3, ComputedPriced
    <2>2. CASE i \notin S
      <3>1. items'[i] = items[i]
        BY <1>2, <2>2
      <3> QED
        BY <1>4, <1>5, <1>6, <3>1 DEF Prices
    <2> QED
      BY <2>1, <2>2
  <1> QED
    BY <1>3, <1>6 DEF Prices

LEMMA StepPrices == IInv /\ Prices /\ [Next]_vars => Prices'
  <1> SUFFICES ASSUME IInv, Prices, [Next]_vars PROVE Prices'
    OBVIOUS
  <1>1. ASSUME NEW p \in Workers, Work(p) PROVE Prices'
    BY <1>1, LinePrices, OtherPrices DEF Work
  <1>2. CASE UNCHANGED vars
    BY <1>2 DEF vars, tables, worker, history, Prices
  <1> QED
    BY <1>1, <1>2, RequestPrices, CreatePrices DEF Next

LEMMA InitPrices == Init => Prices
  BY NoRows DEF Init, Prices

\* What is left of a line as columns keep it, once its discount is off.
LEMMA WholeLine ==
    ASSUME NEW r, \A f \in Fields : r[f] \in Nat, Stored(r) = r,
           r["discount"] <= Fine * Gross(r)
    PROVE  \E D \in Nat : /\ D = Round(r["discount"], Fine) /\ r["discount"] = Fine * D
                          /\ Taxable(r) = Gross(r) - D
  <1>1. PICK d \in Nat, g \in Nat : d = r["discount"] /\ g = Gross(r)
    BY GrossType DEF Fields
  <1>2. PICK D \in Nat : D = Round(d, Fine)
    BY RoundBounds, Divisors
  <1>3. d = Fine * D
    <2>1. Stored(r)["discount"] = Fine * Round(r["discount"], Fine)
      BY DEF Stored, ItemColumns, Fields
    <2> QED
      BY <1>1, <1>2, <2>1
  <1>4. Fine * D <= Fine * g
    BY <1>1, <1>3
  <1>5. g - D \in Nat /\ Fine * g - d = Fine * (g - D)
    <2>1. Fine \in Nat \ {0}
      BY Divisors
    <2>2. CASE D > g
      <3>1. Fine * D = Fine * g + Fine * (D - g) /\ Fine * (D - g) > 0
        BY <2>1, <2>2
      <3>2. Fine * g \in Int /\ Fine * (D - g) \in Int
        BY <2>1
      <3> QED
        BY <1>4, <3>1, <3>2
    <2>3. CASE D <= g
      BY <1>3, <2>1, <2>3
    <2> QED
      BY <2>2, <2>3
  <1>6. Round(Fine * (g - D), Fine) = g - D
    BY <1>5, RoundWhole, Divisors
  <1>7. Taxable(r) = g - D
    <2>1. Fine * g >= d
      BY <1>1, Divisors
    <2> QED
      BY <1>1, <1>5, <1>6, <2>1 DEF Taxable
  <1> QED
    BY <1>1, <1>2, <1>3, <1>7

\* Lines that are priced, and computed totals: the two differ by rounding alone.
LEMMA OffByRounding ==
    ASSUME NEW L, \A i \in Items : IsItem(L[i]),
           NEW S, S = Present(L),
           \A i \in S : Priced(L[i]) /\ Stored(L[i]) = L[i],
           \A i \in S : L[i]["discount"] <= Fine * Gross(L[i])
    PROVE  2 * (Totals(L)["total"] - SumOver(S, [i \in S |-> L[i]["lineTotal"]]))
               \in -(Cardinality(S) + 1) .. Cardinality(S) + 1
  <1> DEFINE q == [i \in S |-> L[i]["quantity"] * L[i]["unitPrice"]]
             d == [i \in S |-> L[i]["discount"]]
             w == [i \in S |-> Round(L[i]["discount"], Fine)]
             t == [i \in S |-> Tax(L[i])]
             g == [i \in S |-> Gross(L[i])]
             e == [i \in S |-> L[i]["lineTotal"]]
  <1>1. IsFiniteSet(S) /\ S \subseteq Items
    BY FiniteAssumption, FS_Subset DEF Present
  <1>2. \A i \in Items : \A f \in Fields : L[i][f] \in Nat
    BY DEF IsItem, ItemColumns, Fields
  <1>3. ASSUME NEW i \in S
        PROVE  /\ q[i] \in Nat /\ w[i] \in Nat /\ t[i] \in Nat /\ g[i] \in Nat
               /\ d[i] = Fine * w[i] /\ e[i] = (g[i] - w[i]) + t[i]
               /\ 2 * (Square * g[i] - q[i]) \in -Square .. Square
    <2>1. \A f \in Fields : L[i][f] \in Nat
      BY <1>1, <1>2
    <2>2. /\ Gross(L[i]) \in Nat /\ Tax(L[i]) \in Nat /\ q[i] \in Nat
          /\ 2 * (Square * Gross(L[i]) - q[i]) \in -Square .. Square
      BY <2>1, GrossType
    <2>3. PICK D \in Nat : /\ D = Round(L[i]["discount"], Fine) /\ L[i]["discount"] = Fine * D
                           /\ Taxable(L[i]) = Gross(L[i]) - D
      BY <2>1, WholeLine
    <2>4. L[i]["lineTotal"] = Taxable(L[i]) + Tax(L[i])
      BY DEF Priced
    <2> QED
      BY <2>2, <2>3, <2>4
  <1>4. Totals(L)["total"] = (Round(SumOver(S, q), Square) - Round(SumOver(S, d), Fine)) + SumOver(S, t)
    BY HeaderAmounts DEF Totals, Cost, SumOf, SumOver
  <1>5. SumOver(S, e) = (SumOver(S, g) - SumOver(S, w)) + SumOver(S, t)
    <2> HIDE DEF q, d, w, t, g, e
    <2>1. \A i \in S : /\ g[i] \in Int /\ w[i] \in Int /\ t[i] \in Int
                       /\ e[i] = (g[i] - w[i]) + t[i]
      BY <1>3
    <2> QED
      BY <1>1, <2>1, SumOfParts
  <1> HIDE DEF q, d, w, t, g, e
  <1>6. PICK Q \in Nat, W \in Nat, T \in Nat, G \in Nat, n \in Nat :
           /\ Q = SumOver(S, q) /\ W = SumOver(S, w) /\ T = SumOver(S, t) /\ G = SumOver(S, g)
           /\ n = Cardinality(S)
    BY <1>1, <1>3, SumNat, FS_CardinalityType
  <1>7. Round(SumOver(S, d), Fine) = W
    <2>1. PICK k \in Nat : k = Fine
      BY Divisors
    <2>2. \A i \in S : w[i] \in Nat /\ d[i] = k * w[i]
      BY <1>3, <2>1
    <2>3. SumOver(S, d) = k * SumOver(S, w)
      BY <1>1, <2>2, SumScaled
    <2> QED
      BY <1>6, <2>1, <2>3, RoundWhole, Divisors
  <1>8. 2 * (Square * G - Q) \in -(Square * n) .. Square * n
    <2>1. \A i \in S : g[i] \in Int /\ q[i] \in Int /\ 2 * (Square * g[i] - q[i]) \in -Square .. Square
      BY <1>3
    <2> QED
      BY <1>1, <1>6, <2>1, SumRounded, Divisors
  <1>9. PICK R \in Nat : R = Round(Q, Square) /\ 2 * (Square * R - Q) \in -Square .. Square
    BY RoundBounds, Divisors
  <1>10. Square * (2 * (R - G)) \in -(Square * (n + 1)) .. Square * (n + 1)
    <2>1. PICK k \in Nat \ {0} : k = Square
      BY Divisors
    <2>2. k * R \in Int /\ k * G \in Int /\ k * n \in Int
      OBVIOUS
    <2>3. k * (2 * (R - G)) = 2 * (k * R) - 2 * (k * G) /\ k * (n + 1) = k * n + k
      OBVIOUS
    <2> QED
      BY <1>8, <1>9, <2>1, <2>2, <2>3
  <1>11. 2 * (R - G) \in -(n + 1) .. n + 1
    <2>1. 2 * (R - G) \in Int /\ n + 1 \in Nat
      OBVIOUS
    <2> QED
      BY <1>10, <2>1, Cancel, Divisors
  <1>12. Totals(L)["total"] - SumOver(S, e) = R - G
    BY <1>4, <1>5, <1>6, <1>7, <1>9
  <1> QED
    BY <1>6, <1>11, <1>12 DEF e

\* The lines printed on a bill that handlers took turns at, and that was given no
\* amount with more decimals than its column has, add up to its total, but for half a
\* unit of rounding per line and one half for the header, for any number of lines, any
\* prices and any scale (bill-totals.ts:23-27, 36-39).
THEOREM PrintedLinesAddUp == Spec => []LinesAddUp
  <1>1. ASSUME IInv, RowTypes, Prices PROVE LinesAddUp
    <2> SUFFICES ASSUME NEW b \in Bills, care[b] = "untouched", ~Busy(b),
                        NEW L, L = ItemsOf(b), NEW S, S = Present(L),
                        \A i \in S : L[i]["discount"] <= Fine * Gross(L[i])
                 PROVE  2 * (bills[b]["total"] - SumFunctionOnSet([i \in S |-> L[i]["lineTotal"]], S))
                            \in -(Cardinality(S) + 1) .. Cardinality(S) + 1
      BY DEF LinesAddUp, SumOf
    <2>1. \A i \in Items : IsItem(L[i])
      BY <1>1, NoRowsType DEF ItemsOf, RowTypes
    <2>2. \A i \in S : L[i] = items[i] /\ items[i]["bill"] = b
      BY NoRows DEF Present, ItemsOf
    <2>3. b # None /\ S \subseteq Items
      BY NoneAssumption DEF Present
    <2>4. \A i \in S : Priced(L[i]) /\ Stored(L[i]) = L[i]
      BY <1>1, <2>2, <2>3 DEF Prices
    <2>5. bills[b]["total"] = Totals(L)["total"]
      <3>1. CASE bills[b]["status"] # "None"
        BY <1>1, <3>1 DEF IInv, Settled, Fresh, InStep, Amounts
      <3>2. CASE bills[b]["status"] = "None"
        <4>1. Present(L) = {}
          BY <1>1, <2>2, <2>3, <3>2 DEF IInv, Owned
        <4>2. \A f : SumFunctionOnSet(f, {}) = 0
          BY SumEmpty DEF SumOver
        <4>3. Totals(L)["total"] = (Round(0, Square) - Round(0, Fine)) + 0
          BY <4>1, <4>2, HeaderAmounts DEF Totals, Cost, SumOf
        <4>4. Round(0, Square) = 0 /\ Round(0, Fine) = 0
          BY RoundNone, Divisors
        <4> QED
          BY <1>1, <3>2, <4>3, <4>4 DEF RowTypes
      <3> QED
        BY <3>1, <3>2
    <2> QED
      BY <2>1, <2>4, <2>5, OffByRounding DEF SumOver
  <1>2. Spec => [](IInv /\ RowTypes /\ Prices)
    BY Typed, InitPrices, StepPrices, PTL DEF Spec
  <1> QED
    BY <1>1, <1>2, PTL
=============================================================================
