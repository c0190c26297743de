------------------------------ MODULE BillItems ------------------------------
(***************************************************************************)
(* A bill, its lines and the totals in its header.  Adding, changing or    *)
(* removing a line reads the bill, commits the line, and then saves the    *)
(* header with totals computed from the lines as they were read; every     *)
(* other change of a bill saves the same header, as read.  Nothing locks.  *)
(*                                                                         *)
(* Derived amounts are integers, the units of the decimal(18,4) columns: 1 *)
(* stands for 1/Scale.  Requests may be finer: the fields of a line are    *)
(* counted in grains, Fine to a unit, and handlers compute with them as    *)
(* given, but their columns keep whole units.  Arithmetic is exact.        *)
(* A completion's stock transaction and charge are one step here, and      *)
(* BillCompletion's business; names, notes and sale types are left out.    *)
(***************************************************************************)
EXTENDS Integers, FiniteSets, Functions

CONSTANTS
    Bills, Items,  \* identities
    Lines,         \* what a command may ask of a line
    Edits,         \* the sets of fields that an update may give
    Scale,         \* units of a whole: 10^4 in the database
    Fine,          \* grains of a unit: how fine a request may be
    Workers,       \* handlers that can be running at once
    MaxJobs,       \* bound on the handlers started
    None           \* no bill, no item, not sold

Fields == {"quantity", "unitPrice", "taxRate", "discount"}
Line == [Fields -> Nat]

ASSUME NoneAssumption == None \notin Bills \cup Items \cup Int
ASSUME FiniteAssumption == IsFiniteSet(Items)
ASSUME LinesAssumption == Lines \subseteq Line /\ Edits \subseteq SUBSET Fields
ASSUME ScaleAssumption == Scale \in Nat \ {0} /\ Fine \in Nat \ {0}
ASSUME MaxJobsAssumption == MaxJobs \in Nat

BillStatus == {"None", "Initiated", "Draft", "Completed", "Cancelled"}
AllowedFrom == [s \in BillStatus |->
    CASE s = "Initiated" -> {"Draft", "Completed", "Cancelled"}
      [] s = "Draft"     -> {"Initiated", "Completed", "Cancelled"}
      [] OTHER           -> {}]

ItemColumns == Fields \cup {"bill", "taxAmount", "lineTotal"}
NoItem == [c \in ItemColumns |-> IF c = "bill" THEN None ELSE 0]

Amounts == {"subtotal", "discount", "tax", "total"}
BillColumns == Amounts \cup {"status", "deleted"}
NoBill == [c \in BillColumns |-> CASE c = "status" -> "None" [] c = "deleted" -> FALSE [] OTHER -> 0]

VARIABLES
    bills, items,        \* the two tables
    handler, step,       \* what each worker runs and where it is
    subject, item,       \* the bill and the line it is about
    header, lines,       \* the bill and its lines in memory
    dirty,               \* columns save has decided to write
    jobs,                \* handlers started so far
    created,             \* history: items given an identity so far
    alone,               \* history: no other handler was at the bill meanwhile
    care,                \* history: "mixed" after an overlap or a crash, "fine" after
                         \* an amount finer than its column, until an edit that ran
                         \* alone, on amounts as columns keep them, has "healed" it
    sold,                \* history: the total a bill was last sold for
    edited               \* history: bills whose lines changed since, if ever sold

tables  == <<bills, items>>
worker  == <<handler, step, subject, item, header, lines, dirty>>
history == <<created, alone, care, sold, edited>>
vars    == <<tables, worker, jobs, history>>

Init ==
    /\ bills = [b \in Bills |-> NoBill]
    /\ items = [i \in Items |-> NoItem]
    /\ handler = [p \in Workers |-> "none"]
    /\ step = [p \in Workers |-> "idle"]
    /\ subject = [p \in Workers |-> None]
    /\ item = [p \in Workers |-> None]
    /\ header = [p \in Workers |-> NoBill]
    /\ lines = [p \in Workers |-> [i \in Items |-> NoItem]]
    /\ dirty = [p \in Workers |-> {}]
    /\ jobs = 0
    /\ created = {} /\ edited = {}
    /\ alone = [p \in Workers |-> FALSE]
    /\ care = [b \in Bills |-> "untouched"]
    /\ sold = [b \in Bills |-> None]

-----------------------------------------------------------------------------
(* Amounts.                                                                *)

\* n / d rounded to the nearest whole, halves up.
Round(n, d) == (2 * n + d) \div (2 * d)

\* What quantity times price is, in grains of grains, to a unit.
Square == Scale * Fine * Fine

Gross(r) == Round(r["quantity"] * r["unitPrice"], Square)

\* Mutant: a discount may make a line's taxable amount negative.
TaxableUncut(r) == Round(Fine * Gross(r) - r["discount"], Fine)

Taxable(r) ==
    IF Fine * Gross(r) >= r["discount"] THEN Round(Fine * Gross(r) - r["discount"], Fine) ELSE 0

Tax(r) == Round(Taxable(r) * r["taxRate"], 100 * Scale * Fine)

\* computeBillItemTotals: a row of bill b for line l.
Computed(b, l) ==
    [c \in ItemColumns |->
        CASE c = "bill" -> b
          [] c = "taxAmount" -> Tax(l)
          [] c = "lineTotal" -> Taxable(l) + Tax(l)
          [] OTHER -> l[c]]

\* The row that is there after r was written: each field rounded to its column.
Stored(r) == [c \in ItemColumns |-> IF c \in Fields THEN Fine * Round(r[c], Fine) ELSE r[c]]
\* A line in memory after its INSERT: columns that have a default are read back.
ReadBack(r) == [c \in ItemColumns |-> IF c \in {"taxRate", "discount"} THEN Stored(r)[c] ELSE r[c]]
AtPrecision(L) == \A i \in Items : Stored(L[i]) = L[i]

Present(L) == {i \in Items : L[i]["bill"] # None}

SumOf(L, f) == SumFunctionOnSet([i \in Present(L) |-> L[i][f]], Present(L))
Cost(L) == SumFunctionOnSet([i \in Present(L) |-> L[i]["quantity"] * L[i]["unitPrice"]], Present(L))

\* The totals of a header with subtotal cost, discount off and tax.
Header(cost, off, tax) ==
    [c \in Amounts |-> CASE c = "subtotal" -> cost [] c = "discount" -> off
                         [] c = "tax" -> tax [] OTHER -> (cost - off) + tax]

\* Mutant: the header is taxed on what the lines cost before discounts.
TotalsTaxedGross(L) ==
    LET S == Present(L)
        tax == [i \in S |-> Round(Gross(L[i]) * L[i]["taxRate"], 100 * Scale * Fine)]
    IN  Header(Round(Cost(L), Square), Round(SumOf(L, "discount"), Fine), SumFunctionOnSet(tax, S))

\* applyBillTotals: every line is computed anew.
Totals(L) ==
    LET S == Present(L) IN
    Header(Round(Cost(L), Square), Round(SumOf(L, "discount"), Fine),
           SumFunctionOnSet([i \in S |-> Tax(L[i])], S))

WithTotals(h, L) == [c \in BillColumns |-> IF c \in Amounts THEN Totals(L)[c] ELSE h[c]]

-----------------------------------------------------------------------------
Exists(b) == bills[b]["status"] # "None" /\ ~bills[b]["deleted"]
ItemsOf(b) == [i \in Items |-> IF items[i]["bill"] = b THEN items[i] ELSE NoItem]
Busy(b) == \E p \in Workers : subject[p] = b

\* What a request that has lines L in memory makes of its bill's history.
Touch(b, L) ==
    care' = [care EXCEPT ![b] = IF Busy(b) THEN "mixed"
                                ELSE IF @ # "mixed" /\ ~AtPrecision(L) THEN "fine" ELSE @]

Goto(p, s) == step' = [step EXCEPT ![p] = s]

Return(p) ==
    /\ handler' = [handler EXCEPT ![p] = "none"]
    /\ step' = [step EXCEPT ![p] = "idle"]
    /\ subject' = [subject EXCEPT ![p] = None]
    /\ item' = [item EXCEPT ![p] = None]
    /\ header' = [header EXCEPT ![p] = NoBill]
    /\ lines' = [lines EXCEPT ![p] = [i \in Items |-> NoItem]]
    /\ dirty' = [dirty EXCEPT ![p] = {}]
    /\ alone' = [alone EXCEPT ![p] = FALSE]

\* Handler h has read bill b with its lines, and goes on with header hd and lines L
\* in memory.
Start(p, h, b, i, hd, L, first) ==
    /\ step[p] = "idle"
    /\ jobs < MaxJobs
    /\ jobs' = jobs + 1
    /\ Exists(b)
    /\ handler' = [handler EXCEPT ![p] = h]
    /\ step' = [step EXCEPT ![p] = first]
    /\ subject' = [subject EXCEPT ![p] = b]
    /\ item' = [item EXCEPT ![p] = i]
    /\ header' = [header EXCEPT ![p] = hd]
    /\ lines' = [lines EXCEPT ![p] = L]
    /\ alone' = [q \in Workers |-> IF q = p THEN ~Busy(b) ELSE alone[q] /\ subject[q] # b]
    /\ Touch(b, L)
    /\ UNCHANGED <<tables, dirty, sold, edited>>

-----------------------------------------------------------------------------
(* Requests.                                                               *)

\* The bill and its lines are one insertion; the totals are those of the lines as given.
CreateBill(b, S) ==
    /\ bills[b]["status"] = "None"
    /\ S \cap created = {}
    /\ \E l \in [S -> Lines] :
          LET L == [i \in Items |-> IF i \in S THEN Computed(b, l[i]) ELSE NoItem] IN
          /\ items' = [i \in Items |-> IF i \in S THEN Stored(L[i]) ELSE items[i]]
          /\ bills' = [bills EXCEPT ![b] =
                          WithTotals([NoBill EXCEPT !["status"] = "Initiated"], L)]
          /\ Touch(b, L)
    /\ created' = created \cup S
    /\ UNCHANGED <<worker, jobs, alone, sold, edited>>

\* The identity of the new line is chosen here, its row inserted later; the line in
\* memory keeps the amounts as given, and so does all that is computed from it.
AddItem(p, b, i, l) ==
    LET L == [ItemsOf(b) EXCEPT ![i] = Computed(b, l)] IN
    /\ i \notin created
    /\ created' = created \cup {i}
    /\ Start(p, "edit", b, i, bills[b], L, "create")

\* The fields in F are given, the others stay as read.
UpdateItem(p, b, i, F, l) ==
    LET line == [f \in Fields |-> IF f \in F THEN l[f] ELSE items[i][f]] IN
    /\ items[i]["bill"] = b
    /\ Start(p, "edit", b, i, bills[b], [ItemsOf(b) EXCEPT ![i] = Computed(b, line)], "diffItem")
    /\ UNCHANGED created

RemoveItem(p, b, i) ==
    /\ items[i]["bill"] = b
    /\ Start(p, "edit", b, i, bills[b], ItemsOf(b), "delete")
    /\ UNCHANGED created

\* Customer, location and notes: nothing of it shows here but the save.
UpdateBill(p, b) ==
    /\ Start(p, "header", b, None, bills[b], ItemsOf(b), "diff")
    /\ UNCHANGED created

\* A completion reads the bill again.
Transition(p, b, s) ==
    LET status == bills[b]["status"] IN
    /\ status = s \/ s \in AllowedFrom[status]
    /\ IF s = "Completed"
       THEN Start(p, "complete", b, None, bills[b], ItemsOf(b), "readAgain")
       ELSE Start(p, "header", b, None, [bills[b] EXCEPT !["status"] = s], ItemsOf(b), "diff")
    /\ UNCHANGED created

DeleteBill(p, b) ==
    /\ bills[b]["status"] \notin {"Completed", "Cancelled"}
    /\ Start(p, "header", b, None, bills[b], ItemsOf(b), "softDelete")
    /\ UNCHANGED created

-----------------------------------------------------------------------------
(* The line.                                                               *)

MarkEdited(b) == edited' = edited \cup {b}

Rolled(p, L) ==
    /\ header' = [header EXCEPT ![p] = WithTotals(header[p], L)]
    /\ Goto(p, "diff")
    /\ UNCHANGED <<bills, handler, subject, item, dirty, jobs, created, alone, care, sold>>

CreateItem(p) ==
    LET L == [lines[p] EXCEPT ![item[p]] = ReadBack(@)] IN
    /\ step[p] = "create"
    /\ items' = [items EXCEPT ![item[p]] = Stored(lines[p][item[p]])]
    /\ lines' = [lines EXCEPT ![p] = L]
    /\ Rolled(p, L)
    /\ MarkEdited(subject[p])

\* save selects the row: it will insert it or update the columns that differ.
DiffItem(p) ==
    /\ step[p] = "diffItem"
    /\ dirty' = [dirty EXCEPT ![p] =
                    {c \in ItemColumns : lines[p][item[p]][c] # items[item[p]][c]}]
    /\ Goto(p, "saveItem")
    /\ UNCHANGED <<tables, handler, subject, item, header, lines, jobs, history>>

\* A row removed since save looked is updated in vain, one inserted since is
\* refused by its key.
SaveItem(p) ==
    LET gone == items[item[p]]["bill"] = None
        inserts == "bill" \in dirty[p]
    IN
    /\ step[p] = "saveItem"
    /\ inserts => gone
    /\ items' = IF gone /\ ~inserts THEN items
                ELSE [items EXCEPT ![item[p]] =
                         [c \in ItemColumns |->
                             IF c \in dirty[p] THEN Stored(lines[p][item[p]])[c] ELSE @[c]]]
    /\ Rolled(p, lines[p])
    /\ MarkEdited(subject[p])
    /\ UNCHANGED lines

\* Mutant: the totals still count the line that is gone.
DeleteItemCounted(p) ==
    /\ step[p] = "delete"
    /\ items' = [items EXCEPT ![item[p]] = NoItem]
    /\ Rolled(p, lines[p])
    /\ MarkEdited(subject[p])
    /\ UNCHANGED lines

DeleteItem(p) ==
    LET rest == [lines[p] EXCEPT ![item[p]] = NoItem] IN
    /\ step[p] = "delete"
    /\ items' = [items EXCEPT ![item[p]] = NoItem]
    /\ lines' = [lines EXCEPT ![p] = rest]
    /\ Rolled(p, rest)
    /\ MarkEdited(subject[p])

-----------------------------------------------------------------------------
(* The header.                                                             *)

\* Whatever the status is by now.
ReadAgain(p) ==
    /\ step[p] = "readAgain"
    /\ IF Exists(subject[p])
       THEN /\ header' = [header EXCEPT ![p] = bills[subject[p]]]
            /\ lines' = [lines EXCEPT ![p] = ItemsOf(subject[p])]
            /\ Goto(p, "sell")
            /\ UNCHANGED <<handler, subject, item, dirty, alone>>
       ELSE Return(p)
    /\ UNCHANGED <<tables, jobs, created, care, sold, edited>>

\* Mutant: the discount and the tax are not charged.
SellSubtotal(p) ==
    /\ step[p] = "sell"
    /\ header' = [header EXCEPT ![p]["status"] = "Completed"]
    /\ sold' = [sold EXCEPT ![subject[p]] = header[p]["subtotal"]]
    /\ edited' = edited \ {subject[p]}
    /\ Goto(p, "diff")
    /\ UNCHANGED <<tables, handler, subject, item, lines, dirty, jobs, created, alone, care>>

\* The goods leave and the customer is charged the total as read.
Sell(p) ==
    /\ step[p] = "sell"
    /\ header' = [header EXCEPT ![p]["status"] = "Completed"]
    /\ sold' = [sold EXCEPT ![subject[p]] = header[p]["total"]]
    /\ edited' = edited \ {subject[p]}
    /\ Goto(p, "diff")
    /\ UNCHANGED <<tables, handler, subject, item, lines, dirty, jobs, created, alone, care>>

SoftDelete(p) ==
    /\ step[p] = "softDelete"
    /\ bills' = [bills EXCEPT ![subject[p]]["deleted"] = TRUE]
    /\ Return(p)
    /\ UNCHANGED <<items, jobs, created, care, sold, edited>>

DiffBill(p) ==
    /\ step[p] = "diff"
    /\ dirty' = [dirty EXCEPT ![p] =
                    {c \in BillColumns : header[p][c] # bills[subject[p]][c]}]
    /\ Goto(p, "save")
    /\ UNCHANGED <<tables, handler, subject, item, header, lines, jobs, history>>

\* Status and deletion are written back as they were read, with the totals.
SaveBill(p) ==
    /\ step[p] = "save"
    /\ bills' = [bills EXCEPT ![subject[p]] =
                    [c \in BillColumns |-> IF c \in dirty[p] THEN header[p][c] ELSE @[c]]]
    /\ care' = IF /\ alone[p] /\ handler[p] = "edit" /\ AtPrecision(lines[p])
                  /\ care[subject[p]] \in {"mixed", "fine"}
               THEN [care EXCEPT ![subject[p]] = "healed"] ELSE care
    /\ Return(p)
    /\ UNCHANGED <<items, jobs, created, sold, edited>>

\* The process dies, or a statement fails.
Crash(p) ==
    /\ step[p] # "idle"
    /\ care' = [care EXCEPT ![subject[p]] = "mixed"]
    /\ Return(p)
    /\ UNCHANGED <<tables, jobs, created, sold, edited>>

EditItem(p, b) ==
    \E i \in Items :
        \/ RemoveItem(p, b, i)
        \/ \E l \in Lines : AddItem(p, b, i, l) \/ (\E F \in Edits : UpdateItem(p, b, i, F, l))

Request(p, b) ==
    \/ EditItem(p, b)
    \/ UpdateBill(p, b)
    \/ \E s \in BillStatus \ {"None"} : Transition(p, b, s)
    \/ DeleteBill(p, b)

Work(p) ==
    \/ CreateItem(p) \/ DiffItem(p) \/ SaveItem(p) \/ DeleteItem(p)
    \/ ReadAgain(p) \/ Sell(p) \/ SoftDelete(p) \/ DiffBill(p) \/ SaveBill(p)
    \/ Crash(p)

Next ==
    \/ \E p \in Workers : Work(p) \/ (\E b \in Bills : Request(p, b))
    \/ \E b \in Bills, S \in SUBSET Items : CreateBill(b, S)

Spec == Init /\ [][Next]_vars
-----------------------------------------------------------------------------
(* Properties.                                                             *)

IsItem(r) ==
    /\ DOMAIN r = ItemColumns /\ r["bill"] \in Bills \cup {None}
    /\ \A c \in ItemColumns \ {"bill"} : r[c] \in Nat
IsBill(h) ==
    /\ DOMAIN h = BillColumns /\ h["status"] \in BillStatus /\ h["deleted"] \in BOOLEAN
    /\ h["total"] \in Int /\ \A c \in Amounts \ {"total"} : h[c] \in Nat

\* Every row and every handler's memory has the type its column has; no amount but
\* a bill's total can be negative.
TypeOK ==
    /\ \A b \in Bills : IsBill(bills[b])
    /\ \A i \in Items : IsItem(items[i])
    /\ \A p \in Workers :
          /\ handler[p] \in {"none", "edit", "header", "complete"}
          /\ step[p] = "idle" <=> subject[p] = None
          /\ subject[p] \in Bills \cup {None} /\ item[p] \in Items \cup {None}
          /\ IsBill(header[p])
          /\ \A i \in Items : IsItem(lines[p][i])
          /\ dirty[p] \subseteq ItemColumns \cup BillColumns

\* A bill's stored totals are those of its lines whenever no handler is at it,
\* unless an overlap or a crash has mixed it, or an amount with more decimals than
\* its column was given; and an edit that runs alone, with no such amount, puts the
\* bill right again, for it computes every total anew
\* (add-bill-item.command-handler.ts:38-40, bill-totals.ts:32-41).
TotalsMatchItems ==
    \A b \in Bills : bills[b]["status"] # "None" /\ care[b] \notin {"mixed", "fine"} /\ ~Busy(b) =>
        \A c \in Amounts : bills[b][c] = Totals(ItemsOf(b))[c]

\* The lines printed on a bill add up to its total, but for half a unit of rounding
\* per line and one half for the header, when no discount exceeds its line and all
\* amounts were given with no more decimals than their columns have
\* (bill-totals.ts:23-27, 36-39).
LinesAddUp ==
    \A b \in Bills : care[b] = "untouched" /\ ~Busy(b) =>
        LET L == ItemsOf(b)
            S == Present(L)
            off == bills[b]["total"] - SumOf(L, "lineTotal")
        IN  (\A i \in S : L[i]["discount"] <= Fine * Gross(L[i]))
                => 2 * off \in -(Cardinality(S) + 1) .. Cardinality(S) + 1

\* A completed bill shows the total it was sold for: headers saved as they were
\* read, repeated completions and renamings change neither, as long as they take
\* turns and no line is edited afterwards
\* (bill-completion.service.ts:79-107, update-bill.command-handler.ts:32).
SoldForTotal ==
    \A b \in Bills \ edited :
        bills[b]["status"] = "Completed" /\ care[b] # "mixed" => sold[b] = bills[b]["total"]
=============================================================================
