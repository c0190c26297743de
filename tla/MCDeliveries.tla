---------------------------- MODULE MCDeliveries ----------------------------
(* One order to be paid in advance and collected or delivered, one to be    *)
(* paid on delivery; a trip of one or both.                                 *)
EXTENDS Deliveries, TLC

CONSTANTS o1, o2

Totals   == [o \in Orders |-> 2]
Advance  == [o \in Orders |-> IF o = o1 THEN 2 ELSE 0]
Alike    == Permutations(Workers) \cup Permutations(Users)
=============================================================================
