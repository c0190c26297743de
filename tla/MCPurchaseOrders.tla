-------------------------- MODULE MCPurchaseOrders --------------------------
(* An order of two of one item and one of another.                          *)
EXTENDS PurchaseOrders

CONSTANTS cups, pans

Two(i, m, j, n) == <<[item |-> i, qty |-> m], [item |-> j, qty |-> n]>>
One(i, m)       == <<[item |-> i, qty |-> m]>>

OrderedQty == [i \in Items |-> IF i = cups THEN 2 ELSE 1]

\* In full, in part, and an item split over two lines.
Received == {Two(cups, 2, pans, 1), Two(cups, 1, cups, 1)}
Split    == {Two(cups, 1, pans, 1), One(cups, 1)}
=============================================================================
