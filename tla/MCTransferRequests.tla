------------------------- MODULE MCTransferRequests -------------------------
(* Two stores that can supply, one that asks.                               *)
EXTENDS TransferRequests

CONSTANTS shop, depot, store, r1, r2

Homes      == [r \in Requests |-> IF r = r1 THEN shop ELSE depot]
Quantities == [r \in Requests |-> 1]
Stocks     == [l \in Locations |-> IF l = depot THEN 2 ELSE 1]
=============================================================================
