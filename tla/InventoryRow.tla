---------------------------- MODULE InventoryRow ----------------------------
(***************************************************************************)
(* What the methods of InventoryRepo and UnpublishedStockRepo compute from *)
(* the one row they have read.  A row operation is a record with a kind    *)
(* and a quantity; "peek" is a plain read, "patch" an update of columns    *)
(* other than the quantities.                                              *)
(***************************************************************************)
EXTENDS Integers

Cols == {"onHand", "reserved"}
Kinds == {"peek", "add", "remove", "adjust", "reserve", "release", "deduct", "patch"}

\* The columns a method merges into the entity: save always writes these
\* (a number against the driver's decimal string).
Merged(kind) ==
    CASE kind \in {"add", "remove", "adjust", "deduct"} -> {"onHand"}
      [] kind \in {"reserve", "release"}                -> {"reserved"}
      [] OTHER                                          -> {}

\* Mutant: deductStockAsync without its check.
GuardWithoutDeduct(op, r) ==
    CASE op.kind \in {"remove", "reserve"} -> op.qty <= r["onHand"] - r["reserved"]
      [] op.kind = "release"               -> op.qty <= r["reserved"]
      [] OTHER                             -> TRUE

\* The check that throws BadRequestException when it fails.
Guard(op, r) ==
    CASE op.kind \in {"remove", "reserve"} -> op.qty <= r["onHand"] - r["reserved"]
      [] op.kind \in {"deduct", "peek"}    -> op.qty <= r["onHand"]
      [] op.kind = "release"               -> op.qty <= r["reserved"]
      [] OTHER                             -> TRUE

\* The entity after manager.merge: the merged columns new, the rest as read.
Entity(op, r) ==
    CASE op.kind = "add"                   -> [r EXCEPT !["onHand"] = @ + op.qty]
      [] op.kind \in {"remove", "deduct"}  -> [r EXCEPT !["onHand"] = @ - op.qty]
      [] op.kind = "adjust"                -> [r EXCEPT !["onHand"] = op.qty]
      [] op.kind = "reserve"               -> [r EXCEPT !["reserved"] = @ + op.qty]
      [] op.kind = "release"               -> [r EXCEPT !["reserved"] = @ - op.qty]
      [] OTHER                             -> r
=============================================================================
