----------------------------- MODULE MCBillItems -----------------------------
(* One bill, and three lines to choose from, in grains: a taxed one with a     *)
(* discount, whose derived amounts need rounding; the same with a price and a   *)
(* discount finer than their columns; one whose discount exceeds what it costs. *)
EXTENDS BillItems, TLC

L(q, u, t, d) == [f \in Fields |-> CASE f = "quantity" -> q [] f = "unitPrice" -> u
                                     [] f = "taxRate" -> t [] OTHER -> d]
MCLines == {L(6, 6, 200, 6), L(6, 5, 200, 5), L(2, 2, 200, 4)}
MCEdits == {{"quantity", "unitPrice"}, {"discount", "taxRate"}}
Alike == Permutations(Items) \cup Permutations(Workers)
=============================================================================
