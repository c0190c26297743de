-------------------------- MODULE MCBillCompletion --------------------------
(* One customer with a credit limit of 2, two bills.                        *)
EXTENDS BillCompletion

CONSTANTS b1, b2

CreditAndBlack  == [b \in Bills |-> IF b = b1 THEN "credit" ELSE "black"]
CreditAndNormal == [b \in Bills |-> IF b = b1 THEN "credit" ELSE "normal"]
TwoAndOne       == [b \in Bills |-> IF b = b1 THEN 2 ELSE 1]
Goods           == [k \in {"official", "black"} |-> IF k = "official" THEN 4 ELSE 1]

\* "COMPLETED -> (terminal)" (docs/billing-frontend-integration-guide.md:42): the
\* goods of a completed bill are not taken out of stock again.
CompletedSellsNoMore ==
    [][\A b \in Bills : bills[b] = "Completed" => deducted'[b] = deducted[b]]_vars
=============================================================================
