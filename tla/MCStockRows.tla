---------------------------- MODULE MCStockRows ----------------------------
(* One inventory row, every single-row operation, requests interleaving.    *)
EXTENDS StockLedger, StockOperations

CONSTANTS i1

OpeningRow == [i \in Rows |-> [c \in Cols |-> IF c = "onHand" THEN 2 ELSE 1]]

SingleRowRequests ==
    { AddStock(i1, 1), RemoveStock(i1, 1), AdjustStock(i1, 3), ReserveStock(i1, 1),
      ReleaseReservation(i1, 1), DamageStock(i1, 2), UpdateInventory(i1),
      DeductForBill(<<[row |-> i1, qty |-> 1]>>) }

=============================================================================
