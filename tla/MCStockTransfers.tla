-------------------------- MODULE MCStockTransfers --------------------------
(* Requests that touch two rows: transfers both ways, a batch that can fail *)
(* at its second item, publishing, a sale.  u1 is an unpublished_stock row. *)
EXTENDS StockLedger, StockOperations

CONSTANTS i1, i2, u1

OpeningRows == [i \in Rows |-> [c \in Cols |-> IF c = "onHand" THEN 2 ELSE 0]]

Move(i, j, q) == [from |-> i, to |-> j, qty |-> q]

MovingRequests ==
    { TransferStock(Move(i1, i2, 1)), TransferStock(Move(i2, i1, 2)),
      CompleteTransferBatch(<<Move(i1, i2, 2), Move(i1, i2, 1)>>),
      PublishStock(u1, i1, 1) }

AllRequests == MovingRequests \cup
    { AddUnpublishedStock(u1, 1), WriteOffStock(i1, 1),
      DeductForBill(<<[row |-> i2, qty |-> 1], [row |-> i1, qty |-> 1]>>) }

ASSUME MovingAssumption == \A s \in MovingRequests : OnlyMoves(s)
=============================================================================
