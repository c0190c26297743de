---------------------------- MODULE StockLedger ----------------------------
(***************************************************************************)
(* StockOrchestrationService over InventoryRepo, UnpublishedStockRepo and  *)
(* the TypeORM transactions that carry them (PostgreSQL, READ COMMITTED).  *)
(*                                                                         *)
(* A worker is one HTTP request being served.  Its script is the sequence  *)
(* of row operations its orchestrator method makes; StockOperations builds *)
(* the script of each method.  A row operation is what a repository method *)
(* does to one row, in the steps the database sees:                        *)
(*   ReadRow   manager.findOneOrFail, then the guard, in memory            *)
(*   DiffRow   the SELECT inside manager.save: which columns to write      *)
(*   WriteRow  the UPDATE (takes the row lock) and the movement INSERT     *)
(* A row of unpublished_stock is a row whose reserved column stays 0.      *)
(***************************************************************************)
EXTENDS InventoryRow, Sequences, FiniteSets, Functions

CONSTANTS
    Rows,         \* inventory and unpublished_stock rows
    Workers,      \* requests that can be in progress at once
    Requests,     \* the scripts a request may run
    Opening,      \* the rows' contents at the start
    MaxRequests,  \* bound on the requests of a behaviour
    NoOne         \* "nobody holds this row's lock"

RowOp == [kind : Kinds, row : Rows, qty : Nat, log : BOOLEAN]

ASSUME FiniteAssumption == IsFiniteSet(Rows)
ASSUME NoOneAssumption == NoOne \notin Workers
ASSUME OpeningAssumption == Opening \in [Rows -> [Cols -> Nat]]

\* A read made ahead of a write is made for that write: the request's next
\* operation on the row is no read.
PeeksFollowed(s) ==
    \A k \in DOMAIN s : s[k].kind = "peek" =>
        \E m \in (k + 1)..Len(s) :
            /\ s[m].row = s[k].row /\ s[m].kind # "peek"
            /\ \A j \in (k + 1)..(m - 1) : s[j].row # s[k].row

ASSUME RequestsAssumption ==
    \A s \in Requests : s \in Seq(RowOp) /\ Len(s) > 0 /\ PeeksFollowed(s)
ASSUME MaxRequestsAssumption == MaxRequests \in Nat

-----------------------------------------------------------------------------
VARIABLES
    db,       \* committed rows
    net,      \* net[i][c]: sum of (quantityAfter - quantityBefore) over the
              \* committed movements of row i on column c
    draft,    \* the lock holder's uncommitted version of a row
    draftNet, \* and of its movements
    holder,   \* who holds the row lock
    pc, script, pos,  \* where each request is
    snap,     \* the row the current row operation has read
    seen,     \* onHand read ahead of the row operation, for quantityBefore
    peeked,   \* rows for which seen is set
    dirty,    \* columns save has decided to write
    started,  \* requests begun
    touched,  \* history: rows others changed since the request read them
    spoiled   \* history: rows committed by a request after others touched them

data    == <<db, net, spoiled>>
drafts  == <<draft, draftNet, holder>>
request == <<script, pos, snap, seen, peeked, dirty>>
vars    == <<data, drafts, pc, request, started, touched>>

Op(p)  == script[p][pos[p]]
Target(p) == Op(p).row
Held(p) == {i \in Rows : holder[i] = p}

\* Mutant: a repository call made without the transaction's manager.
VisibleOutside(p, i) == db[i]

\* A request sees its own uncommitted writes and the others' committed ones.
Visible(p, i)    == IF holder[i] = p THEN draft[i] ELSE db[i]
VisibleNet(p, i) == IF holder[i] = p THEN draftNet[i] ELSE net[i]

\* A read outside one's own writes is up to date: forget who touched the row.
Refreshed(p, i) == IF holder[i] = p THEN touched[p] ELSE touched[p] \ {i}

\* quantityBefore of the movement: read ahead, or derived from quantityAfter.
Before(p, c) == IF Target(p) \in peeked[p] /\ c = "onHand"
                THEN seen[p][Target(p)] ELSE snap[p][c]

\* Mutant: the movement of an operation is always its quantity, added.
MovementOfQuantity(p, c) == IF c \in Merged(Op(p).kind) THEN Op(p).qty ELSE 0

MovementDelta(p, c) ==
    IF c \in Merged(Op(p).kind) THEN Entity(Op(p), snap[p])[c] - Before(p, c) ELSE 0

ZeroRow == [c \in Cols |-> 0]

Init ==
    /\ db = Opening
    /\ net = [i \in Rows |-> ZeroRow]
    /\ draft = [i \in Rows |-> ZeroRow]
    /\ draftNet = [i \in Rows |-> ZeroRow]
    /\ holder = [i \in Rows |-> NoOne]
    /\ pc = [p \in Workers |-> "idle"]
    /\ script = [p \in Workers |-> <<>>]
    /\ pos = [p \in Workers |-> 1]
    /\ snap = [p \in Workers |-> ZeroRow]
    /\ seen = [p \in Workers |-> [i \in Rows |-> 0]]
    /\ peeked = [p \in Workers |-> {}]
    /\ dirty = [p \in Workers |-> {}]
    /\ started = 0
    /\ touched = [p \in Workers |-> {}]
    /\ spoiled = {}

-----------------------------------------------------------------------------
(* The connection goes back to the pool and the request is over.           *)
Finish(p) ==
    /\ pc' = [pc EXCEPT ![p] = "idle"]
    /\ script' = [script EXCEPT ![p] = <<>>]
    /\ pos' = [pos EXCEPT ![p] = 1]
    /\ snap' = [snap EXCEPT ![p] = ZeroRow]
    /\ seen' = [seen EXCEPT ![p] = [i \in Rows |-> 0]]
    /\ peeked' = [peeked EXCEPT ![p] = {}]
    /\ dirty' = [dirty EXCEPT ![p] = {}]

Unlock(p) ==
    /\ holder' = [i \in Rows |-> IF holder[i] = p THEN NoOne ELSE holder[i]]
    /\ draft' = [i \in Rows |-> IF holder[i] = p THEN ZeroRow ELSE draft[i]]
    /\ draftNet' = [i \in Rows |-> IF holder[i] = p THEN ZeroRow ELSE draftNet[i]]

\* Mutant: the repositories write outside the transaction, so a rollback keeps
\* what was written before it.
RollbackKeepingWrites(p) ==
    /\ db' = [i \in Rows |-> IF holder[i] = p THEN draft[i] ELSE db[i]]
    /\ net' = [i \in Rows |-> IF holder[i] = p THEN draftNet[i] ELSE net[i]]
    /\ Finish(p)
    /\ Unlock(p)
    /\ touched' = [touched EXCEPT ![p] = {}]
    /\ UNCHANGED <<spoiled, started>>

\* ROLLBACK: the drafts are gone.
Rollback(p) ==
    /\ Finish(p)
    /\ Unlock(p)
    /\ touched' = [touched EXCEPT ![p] = {}]
    /\ UNCHANGED <<data, started>>

\* Mutants: the loop over items runs one too far; the transaction ends after
\* the first row operation.
AdvancePastEnd(p) ==
    IF pos[p] > Len(script[p])
    THEN pc' = [pc EXCEPT ![p] = "commit"] /\ UNCHANGED pos
    ELSE pc' = [pc EXCEPT ![p] = "read"] /\ pos' = [pos EXCEPT ![p] = @ + 1]
AdvanceCommitting(p) == pc' = [pc EXCEPT ![p] = "commit"] /\ UNCHANGED pos

\* Go on to the next row operation, or to COMMIT after the last.
Advance(p) ==
    IF pos[p] = Len(script[p])
    THEN pc' = [pc EXCEPT ![p] = "commit"] /\ UNCHANGED pos
    ELSE pc' = [pc EXCEPT ![p] = "read"] /\ pos' = [pos EXCEPT ![p] = @ + 1]

-----------------------------------------------------------------------------
Begin(p) ==
    /\ pc[p] = "idle"
    /\ started < MaxRequests
    /\ started' = started + 1
    /\ \E s \in Requests : script' = [script EXCEPT ![p] = s]
    /\ pos' = [pos EXCEPT ![p] = 1]
    /\ pc' = [pc EXCEPT ![p] = "read"]
    /\ UNCHANGED <<data, drafts, snap, seen, peeked, dirty, touched>>

\* A read made only for quantityBefore (or, in publishStock, also checked).
PeekRow(p) ==
    /\ pc[p] = "read"
    /\ Op(p).kind = "peek"
    /\ Guard(Op(p), Visible(p, Target(p)))
    /\ seen' = [seen EXCEPT ![p][Target(p)] = Visible(p, Target(p))["onHand"]]
    /\ peeked' = [peeked EXCEPT ![p] = @ \cup {Target(p)}]
    /\ touched' = [touched EXCEPT ![p] = Refreshed(p, Target(p))]
    /\ Advance(p)
    /\ UNCHANGED <<data, drafts, script, snap, dirty, started>>

ReadRow(p) ==
    /\ pc[p] = "read"
    /\ Op(p).kind # "peek"
    /\ Guard(Op(p), Visible(p, Target(p)))
    /\ snap' = [snap EXCEPT ![p] = Visible(p, Target(p))]
    /\ touched' = [touched EXCEPT ![p] =
                     IF Target(p) \in peeked[p] THEN @ ELSE Refreshed(p, Target(p))]
    /\ pc' = [pc EXCEPT ![p] = "diff"]
    /\ UNCHANGED <<data, drafts, script, pos, seen, peeked, dirty, started>>

\* The guard fails: BadRequestException rolls the transaction back.
Reject(p) ==
    /\ pc[p] = "read"
    /\ ~Guard(Op(p), Visible(p, Target(p)))
    /\ Rollback(p)

DiffRow(p) ==
    /\ pc[p] = "diff"
    /\ dirty' = [dirty EXCEPT ![p] =
          Merged(Op(p).kind) \cup
          {c \in Cols : Entity(Op(p), snap[p])[c] # Visible(p, Target(p))[c]}]
    /\ pc' = [pc EXCEPT ![p] = "write"]
    /\ UNCHANGED <<data, drafts, script, pos, snap, seen, peeked, started, touched>>

WriteRow(p) ==
    LET i == Target(p) IN
    /\ pc[p] = "write"
    /\ holder[i] \in {NoOne, p}
    /\ holder' = [holder EXCEPT ![i] = p]
    /\ draft' = [draft EXCEPT ![i] =
          [c \in Cols |-> IF c \in dirty[p] THEN Entity(Op(p), snap[p])[c]
                                            ELSE Visible(p, i)[c]]]
    /\ draftNet' = [draftNet EXCEPT ![i] =
          [c \in Cols |-> VisibleNet(p, i)[c] + MovementDelta(p, c)]]
    /\ peeked' = [peeked EXCEPT ![p] = @ \ {i}]
    /\ IF Op(p).log THEN pc' = [pc EXCEPT ![p] = "log"] /\ UNCHANGED pos
                    ELSE Advance(p)
    /\ UNCHANGED <<data, script, snap, seen, dirty, started, touched>>

\* ProductActivityLogger.log: an INSERT of a product_logs row on another connection,
\* which no guard reads; a failure is swallowed.
Log(p) ==
    /\ pc[p] = "log"
    /\ Advance(p)
    /\ UNCHANGED <<data, drafts, script, snap, seen, peeked, dirty, started, touched>>

Changed(p) == {i \in Held(p) : draft[i] # db[i]}

Commit(p) ==
    /\ pc[p] = "commit"
    /\ db' = [i \in Rows |-> IF holder[i] = p THEN draft[i] ELSE db[i]]
    /\ net' = [i \in Rows |-> IF holder[i] = p THEN draftNet[i] ELSE net[i]]
    /\ spoiled' = spoiled \cup (Held(p) \cap touched[p])
    /\ touched' = [q \in Workers |->
          IF q = p \/ pc[q] = "idle" THEN {} ELSE touched[q] \cup Changed(p)]
    /\ Finish(p)
    /\ Unlock(p)
    /\ UNCHANGED started

\* The process dies, the connection drops or a statement fails.
Crash(p) == pc[p] # "idle" /\ Rollback(p)

Waiting(p) == pc[p] = "write" /\ holder[Target(p)] \notin {NoOne, p}

\* Mutant: nothing ever breaks a wait cycle.
NoDeadlockCheck(p) == FALSE

\* PostgreSQL's deadlock_timeout check aborts a transaction on a wait cycle.
DeadlockVictim(p) ==
    /\ \E S \in SUBSET Workers :
          /\ p \in S
          /\ \A q \in S : Waiting(q) /\ \E r \in S : holder[Target(r)] = q
    /\ Rollback(p)

Proceed(p) ==
    PeekRow(p) \/ ReadRow(p) \/ Reject(p) \/ DiffRow(p) \/ WriteRow(p) \/ Log(p) \/ Commit(p)

\* Every request of the bound has been served.
Done == started = MaxRequests /\ (\A p \in Workers : pc[p] = "idle") /\ UNCHANGED vars

Next == \/ \E p \in Workers : Begin(p) \/ Proceed(p) \/ Crash(p) \/ DeadlockVictim(p)
        \/ Done

Fairness == \A p \in Workers : WF_vars(Proceed(p)) /\ WF_vars(DeadlockVictim(p))

Spec == Init /\ [][Next]_vars /\ Fairness
-----------------------------------------------------------------------------
(* Properties.                                                             *)

\* Every variable has the type the code gives it; a script is one of the
\* orchestrator's, and its position is inside it.
TypeOK ==
    /\ db \in [Rows -> [Cols -> Int]]
    /\ net \in [Rows -> [Cols -> Int]]
    /\ draft \in [Rows -> [Cols -> Int]]
    /\ draftNet \in [Rows -> [Cols -> Int]]
    /\ holder \in [Rows -> Workers \cup {NoOne}]
    /\ pc \in [Workers -> {"idle", "read", "diff", "write", "log", "commit"}]
    /\ script \in [Workers -> Requests \cup {<<>>}]
    /\ pos \in [Workers -> Nat \ {0}]
    /\ \A p \in Workers : pc[p] # "idle" => script[p] \in Requests /\ pos[p] <= Len(script[p])
    /\ snap \in [Workers -> [Cols -> Int]]
    /\ seen \in [Workers -> [Rows -> Int]]
    /\ peeked \in [Workers -> SUBSET Rows]
    /\ dirty \in [Workers -> SUBSET Cols]
    /\ started \in Nat
    /\ touched \in [Workers -> SUBSET Rows]
    /\ spoiled \in SUBSET Rows

\* However requests interleave, fail or overwrite each other's rows, no row's
\* quantities go below zero: each guard is checked on the very snapshot the
\* written value is computed from (inventory.repo.ts:60-104).
StockNeverNegative == \A i \in Rows, c \in Cols : db[i][c] >= 0

\* The movement ledger explains the stock of every row, except of a row on
\* which some request wrote over a change committed after it had read the row:
\* a lost update is the one way quantities and stock_movements come apart,
\* and neither rollbacks nor retries nor multi-row batches are
\* (stock-orchestration.service.ts:38-187).
LedgerBalanced ==
    \A i \in Rows \ spoiled, c \in Cols : db[i][c] = Opening[i][c] + net[i][c]

\* Why LedgerBalanced holds, part by part.  A lock holder's draft balances too;
\* what a request has read is still what it would read, unless touched says not;
\* save writes at least the merged columns; an idle request has left nothing.
DraftsBalanced ==
    \A p \in Workers, i \in Rows \ spoiled, c \in Cols :
        holder[i] = p /\ i \notin touched[p]
            => draft[i][c] = Opening[i][c] + draftNet[i][c]
SnapshotsFresh ==
    \A p \in Workers : pc[p] \in {"diff", "write"} /\ Target(p) \notin touched[p]
        => snap[p] = Visible(p, Target(p))
PeeksFresh ==
    \A p \in Workers, i \in Rows :
        i \in peeked[p] /\ i \notin touched[p] => seen[p][i] = Visible(p, i)["onHand"]
MergedWritten == \A p \in Workers : pc[p] = "write" => Merged(Op(p).kind) \subseteq dirty[p]
IdleIsClean ==
    \A p \in Workers : pc[p] = "idle" => peeked[p] = {} /\ \A i \in Rows : holder[i] # p

LedgerInv ==
    /\ LedgerBalanced /\ DraftsBalanced
    /\ SnapshotsFresh /\ PeeksFresh
    /\ MergedWritten /\ IdleIsClean

\* Requests that only move stock: what they add to some rows they take from others.
StockMoved(op) ==
    CASE op.kind = "add"                  -> op.qty
      [] op.kind \in {"remove", "deduct"} -> -op.qty
      [] OTHER                            -> 0
OnlyMoves(s) ==
    /\ \A k \in DOMAIN s : s[k].kind # "adjust"
    /\ SumFunctionOnSet([k \in DOMAIN s |-> StockMoved(s[k])], DOMAIN s) = 0

TotalOnHand(rows) == SumFunctionOnSet([i \in Rows |-> rows[i]["onHand"]], Rows)

\* Moving stock between rows neither creates nor destroys any, whichever
\* request fails or crashes half-way, unless some request overwrote a change
\* made after it had read the row (runTransferWithManager, publishStock).
TransfersConserveStock == spoiled = {} => TotalOnHand(db) = TotalOnHand(Opening)

\* What a committed request did to the rows is what its script does in one step:
\* the abstract ledger sees the committed rows and movements, and nothing of the
\* transactions under way.
Atomic == INSTANCE AtomicLedger
    WITH Rows <- Rows, Requests <- Requests, Opening <- Opening, db <- db, net <- net

\* A request none of whose rows was changed by others between its reads and its
\* writes commits exactly what its script does in one step to the current rows,
\* quantities and movements (stock-orchestration.service.ts:105-182).
UnstaleCommitIsAtomic ==
    [][\A p \in Workers :
          Commit(p) /\ Held(p) \cap touched[p] = {} => Atomic!Serve(script[p])]_vars

\* With one request at a time the ledger implements the atomic one, failures,
\* rollbacks and crashes included.
AtomicSpec == Atomic!Spec

\* Every request that begins comes to an end, committed or rolled back,
\* although requests wait for each other's row locks in any order
\* (completeTransferBatch, stock-orchestration.service.ts:161-168).
RequestsEnd == \A p \in Workers : pc[p] # "idle" ~> pc[p] = "idle"
=============================================================================
