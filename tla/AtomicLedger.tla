---------------------------- MODULE AtomicLedger ----------------------------
(***************************************************************************)
(* What the orchestrator promises its callers: a request's whole script    *)
(* takes effect in one step, quantities and movements together, and only   *)
(* if every guard holds on the way; otherwise nothing happens.             *)
(***************************************************************************)
EXTENDS InventoryRow, SequencesExt

CONSTANTS Rows, Requests, Opening
VARIABLES db, net

\* A book is the rows and their movement totals part-way through a script.
Perform(book, op) ==
    LET row   == book.rows[op.row]
        after == Entity(op, row)
    IN [ ok    |-> book.ok /\ Guard(op, row),
         rows  |-> [book.rows EXCEPT ![op.row] = after],
         moved |-> [book.moved EXCEPT ![op.row] =
                      [c \in Cols |-> @[c] + after[c] - row[c]]] ]

Outcome(s) == FoldLeft(Perform, [ok |-> TRUE, rows |-> db, moved |-> net], s)

Serve(s) ==
    /\ Outcome(s).ok
    /\ db' = Outcome(s).rows
    /\ net' = Outcome(s).moved

Init == db = Opening /\ net = [i \in Rows |-> [c \in Cols |-> 0]]

Next == \E s \in Requests : Serve(s)

Spec == Init /\ [][Next]_<<db, net>>
=============================================================================
