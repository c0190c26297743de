--------------------------- MODULE MCStockClaims ---------------------------
(* What the design document says of the orchestrator, held against the      *)
(* model: a claim that the code does not keep.                              *)
EXTENDS StockLedger, StockOperations

CONSTANTS i1

OpeningRow == [i \in Rows |-> [c \in Cols |-> IF c = "onHand" THEN 2 ELSE 0]]

ReserveRequests == {RemoveStock(i1, 2), ReserveStock(i1, 2)}

\* "Cannot remove reserved stock" (2026-07-27-inventory-system-design.md:188):
\* what is reserved is on hand.  A removal and a reservation write different
\* columns, each from a snapshot that lacks the other.
ReservedStockProtected == \A i \in Rows : db[i]["reserved"] <= db[i]["onHand"]
=============================================================================
