-------------------------- MODULE StockOperations --------------------------
(***************************************************************************)
(* The script of row operations behind each operation that moves stock:    *)
(* one operator per method of StockOrchestrationService, the stock         *)
(* deduction of BillCompletionService, and the inventory PATCH handler.    *)
(***************************************************************************)
EXTENDS Integers, Sequences, SequencesExt

RowStep(kind, i, q, log) == [kind |-> kind, row |-> i, qty |-> q, log |-> log]

AddStock(i, q)           == <<RowStep("add", i, q, TRUE)>>
RemoveStock(i, q)        == <<RowStep("remove", i, q, TRUE)>>
ReserveStock(i, q)       == <<RowStep("reserve", i, q, TRUE)>>
ReleaseReservation(i, q) == <<RowStep("release", i, q, TRUE)>>
DamageStock(i, q)        == <<RowStep("deduct", i, q, TRUE)>>
WriteOffStock(i, q)      == <<RowStep("deduct", i, q, TRUE)>>

\* The snapshot for quantityBefore is read before the transaction begins.
AdjustStock(i, q) == <<RowStep("peek", i, 0, FALSE), RowStep("adjust", i, q, TRUE)>>

\* u: the unpublished_stock row; findOrCreateAsync is the read for quantityBefore.
AddUnpublishedStock(u, q) == <<RowStep("peek", u, 0, FALSE), RowStep("add", u, q, TRUE)>>

PublishStock(u, i, q) ==
    << RowStep("peek", u, q, FALSE), RowStep("peek", i, 0, FALSE),
       RowStep("deduct", u, q, FALSE), RowStep("add", i, q, TRUE) >>

\* runTransferWithManager for one item [from, to, qty].
TransferStock(item) ==
    << RowStep("deduct", item.from, item.qty, FALSE), RowStep("add", item.to, item.qty, TRUE) >>

CompleteTransferBatch(items) ==
    FlattenSeq([k \in DOMAIN items |-> TransferStock(items[k])])

\* deductOfficialStock and deductBlackStock: one [row, qty] per bill item, no log.
DeductForBill(items) ==
    FlattenSeq([k \in DOMAIN items |->
        << RowStep("peek", items[k].row, 0, FALSE),
           RowStep("deduct", items[k].row, items[k].qty, FALSE) >>])

\* PATCH /inventory/:id: reorder level and the like, the quantities as read.
UpdateInventory(i) == <<RowStep("patch", i, 0, FALSE)>>
=============================================================================
