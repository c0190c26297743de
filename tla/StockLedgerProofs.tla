------------------------- MODULE StockLedgerProofs -------------------------
(***************************************************************************)
(* Theorems about StockLedger for every set of rows, of concurrent         *)
(* requests and of scripts: type correctness; stock never negative; the    *)
(* movement ledger balanced wherever no update was lost; that a request    *)
(* which missed no change commits its whole script in one step, so that a  *)
(* history without lost updates is one of AtomicLedger; and that requests  *)
(* which only move stock conserve it.                                      *)
(***************************************************************************)
EXTENDS StockLedger, StockOperations, FiniteSetTheorems, TLAPS

-----------------------------------------------------------------------------
(* Facts about the operators.                                              *)

\* The operation a request in progress is at is a row operation.
LEMMA OpType ==
    ASSUME TypeOK, NEW p \in Workers, pc[p] # "idle"
    PROVE  /\ script[p] \in Seq(RowOp)
           /\ pos[p] \in 1..Len(script[p])
           /\ Op(p) \in RowOp
           /\ Target(p) \in Rows
  <1>1. script[p] \in Requests /\ pos[p] \in Nat \ {0} /\ pos[p] <= Len(script[p])
    BY DEF TypeOK
  <1>2. script[p] \in Seq(RowOp)
    BY <1>1, RequestsAssumption
  <1>3. Len(script[p]) \in Nat
    BY <1>2
  <1>4. pos[p] \in 1..Len(script[p])
    BY <1>1, <1>3
  <1>5. Op(p) \in RowOp
    BY <1>2, <1>4 DEF Op
  <1> QED
    BY <1>2, <1>4, <1>5 DEF Target, RowOp

\* manager.merge yields a row, and a row without negative quantities when the
\* method's guard held on a row without any.
LEMMA EntityType ==
    ASSUME NEW op \in RowOp, NEW r \in [Cols -> Int]
    PROVE  Entity(op, r) \in [Cols -> Int]
  BY DEF Entity, RowOp, Cols, Kinds

LEMMA EntityNonNegative ==
    ASSUME NEW op \in RowOp, NEW r \in [Cols -> Nat], Guard(op, r)
    PROVE  Entity(op, r) \in [Cols -> Nat]
  BY DEF Entity, Guard, RowOp, Cols, Kinds

\* Columns a method does not merge keep the value that was read.
LEMMA EntityUnmerged ==
    ASSUME NEW op \in RowOp, NEW r \in [Cols -> Int], NEW c \in Cols, c \notin Merged(op.kind)
    PROVE  Entity(op, r)[c] = r[c]
  BY DEF Entity, Merged, RowOp, Cols, Kinds

LEMMA MergedCols == \A k : Merged(k) \subseteq Cols
  BY DEF Merged, Cols

LEMMA VisibleType ==
    ASSUME TypeOK, NEW p \in Workers, NEW i \in Rows
    PROVE  Visible(p, i) \in [Cols -> Int] /\ VisibleNet(p, i) \in [Cols -> Int]
  BY DEF TypeOK, Visible, VisibleNet

LEMMA ZeroRowType == ZeroRow \in [Cols -> Nat] /\ ZeroRow \in [Cols -> Int]
  BY DEF ZeroRow

-----------------------------------------------------------------------------
(* Type correctness.                                                       *)

LEMMA FinishType ==
    ASSUME TypeOK, NEW p \in Workers, Finish(p)
    PROVE  /\ pc' \in [Workers -> {"idle", "read", "diff", "write", "log", "commit"}]
           /\ script' \in [Workers -> Requests \cup {<<>>}]
           /\ pos' \in [Workers -> Nat \ {0}]
           /\ \A q \in Workers : pc'[q] # "idle" => script'[q] \in Requests /\ pos'[q] <= Len(script'[q])
           /\ snap' \in [Workers -> [Cols -> Int]]
           /\ seen' \in [Workers -> [Rows -> Int]]
           /\ peeked' \in [Workers -> SUBSET Rows]
           /\ dirty' \in [Workers -> SUBSET Cols]
  BY ZeroRowType DEF TypeOK, Finish

LEMMA UnlockType ==
    ASSUME TypeOK, NEW p \in Workers, Unlock(p)
    PROVE  /\ holder' \in [Rows -> Workers \cup {NoOne}]
           /\ draft' \in [Rows -> [Cols -> Int]]
           /\ draftNet' \in [Rows -> [Cols -> Int]]
  BY ZeroRowType DEF TypeOK, Unlock

LEMMA RollbackType ==
    ASSUME TypeOK, NEW p \in Workers, Rollback(p)
    PROVE  TypeOK'
  BY FinishType, UnlockType DEF TypeOK, Rollback, data

LEMMA AdvanceType ==
    ASSUME TypeOK, NEW p \in Workers, pc[p] # "idle", Advance(p), UNCHANGED script
    PROVE  /\ pc' \in [Workers -> {"idle", "read", "diff", "write", "log", "commit"}]
           /\ pos' \in [Workers -> Nat \ {0}]
           /\ \A q \in Workers : pc'[q] # "idle" => script'[q] \in Requests /\ pos'[q] <= Len(script'[q])
  <1>1. pos[p] \in 1..Len(script[p]) /\ Len(script[p]) \in Nat
    BY OpType
  <1>2. CASE pos[p] = Len(script[p])
    BY <1>2 DEF TypeOK, Advance
  <1>3. CASE pos[p] # Len(script[p])
    <2>1. pos' = [pos EXCEPT ![p] = @ + 1] /\ pc' = [pc EXCEPT ![p] = "read"]
      BY <1>3 DEF Advance
    <2>2. pos[p] + 1 \in Nat \ {0} /\ pos[p] + 1 <= Len(script[p])
      BY <1>1, <1>3
    <2>3. /\ pc' \in [Workers -> {"idle", "read", "diff", "write", "log", "commit"}]
          /\ pos' \in [Workers -> Nat \ {0}]
      BY <2>1, <2>2 DEF TypeOK
    <2>4. ASSUME NEW q \in Workers, pc'[q] # "idle"
          PROVE  script'[q] \in Requests /\ pos'[q] <= Len(script'[q])
      <3>1. CASE q = p
        BY <2>1, <2>2, <3>1 DEF TypeOK
      <3>2. CASE q # p
        BY <2>1, <2>4, <3>2 DEF TypeOK
      <3> QED
        BY <3>1, <3>2
    <2> QED
      BY <2>3, <2>4
  <1> QED
    BY <1>2, <1>3

LEMMA TypeStep == TypeOK /\ [Next]_vars => TypeOK'
  <1> SUFFICES ASSUME TypeOK, [Next]_vars PROVE TypeOK'
    OBVIOUS
  <1>1. ASSUME NEW p \in Workers, Begin(p) PROVE TypeOK'
    <2>1. PICK s \in Requests : script' = [script EXCEPT ![p] = s]
      BY <1>1 DEF Begin
    <2>2. s \in Seq(RowOp) /\ Len(s) \in Nat /\ Len(s) > 0
      BY RequestsAssumption
    <2>3. ASSUME NEW q \in Workers, pc'[q] # "idle"
          PROVE  script'[q] \in Requests /\ pos'[q] <= Len(script'[q])
      BY <1>1, <2>1, <2>2, <2>3 DEF Begin, TypeOK
    <2> QED
      BY <1>1, <2>1, <2>3 DEF Begin, TypeOK, data, drafts
  <1>2. ASSUME NEW p \in Workers, PeekRow(p) PROVE TypeOK'
    <2>1. Target(p) \in Rows /\ Visible(p, Target(p)) \in [Cols -> Int] /\ pc[p] # "idle"
      BY <1>2, OpType, VisibleType DEF PeekRow
    <2>2. Visible(p, Target(p))["onHand"] \in Int
      BY <2>1 DEF Cols
    <2>3. Refreshed(p, Target(p)) \in SUBSET Rows
      BY DEF Refreshed, TypeOK
    <2>4. /\ pc' \in [Workers -> {"idle", "read", "diff", "write", "log", "commit"}]
          /\ pos' \in [Workers -> Nat \ {0}]
          /\ \A q \in Workers : pc'[q] # "idle" => script'[q] \in Requests /\ pos'[q] <= Len(script'[q])
      BY <1>2, <2>1, AdvanceType DEF PeekRow
    <2>5. seen' \in [Workers -> [Rows -> Int]]
      BY <1>2, <2>1, <2>2 DEF PeekRow, TypeOK
    <2> QED
      BY <1>2, <2>1, <2>3, <2>4, <2>5 DEF PeekRow, TypeOK, data, drafts
  <1>3. ASSUME NEW p \in Workers, ReadRow(p) PROVE TypeOK'
    <2>1. Visible(p, Target(p)) \in [Cols -> Int]
      BY <1>3, OpType, VisibleType DEF ReadRow
    <2>2. Refreshed(p, Target(p)) \in SUBSET Rows /\ touched[p] \in SUBSET Rows
      BY DEF Refreshed, TypeOK
    <2> QED
      BY <1>3, <2>1, <2>2 DEF ReadRow, TypeOK, data, drafts
  <1>4. ASSUME NEW p \in Workers, Reject(p) PROVE TypeOK'
    BY <1>4, RollbackType DEF Reject
  <1>5. ASSUME NEW p \in Workers, DiffRow(p) PROVE TypeOK'
    <2>1. dirty' \in [Workers -> SUBSET Cols]
      BY <1>5, MergedCols DEF DiffRow, TypeOK
    <2> QED
      BY <1>5, <2>1 DEF DiffRow, TypeOK, data, drafts
  <1>6. ASSUME NEW p \in Workers, WriteRow(p) PROVE TypeOK'
    <2> DEFINE i == Target(p)
    <2>1. i \in Rows /\ Op(p) \in RowOp /\ pc[p] # "idle"
      BY <1>6, OpType DEF WriteRow
    <2>2. Visible(p, i) \in [Cols -> Int] /\ VisibleNet(p, i) \in [Cols -> Int]
      BY <2>1, VisibleType
    <2>3. snap[p] \in [Cols -> Int] /\ Entity(Op(p), snap[p]) \in [Cols -> Int]
      BY <2>1, EntityType DEF TypeOK
    <2>4. \A c \in Cols : MovementDelta(p, c) \in Int
      BY <2>1, <2>3 DEF MovementDelta, Before, TypeOK
    <2>5. draft' \in [Rows -> [Cols -> Int]] /\ draftNet' \in [Rows -> [Cols -> Int]]
      BY <1>6, <2>1, <2>2, <2>3, <2>4 DEF WriteRow, TypeOK
    <2>6. holder' \in [Rows -> Workers \cup {NoOne}] /\ peeked' \in [Workers -> SUBSET Rows]
      BY <1>6, <2>1 DEF WriteRow, TypeOK
    <2>7. /\ pc' \in [Workers -> {"idle", "read", "diff", "write", "log", "commit"}]
          /\ pos' \in [Workers -> Nat \ {0}]
          /\ \A q \in Workers : pc'[q] # "idle" => script'[q] \in Requests /\ pos'[q] <= Len(script'[q])
      <3>1. CASE Op(p).log
        BY <1>6, <2>1, <3>1 DEF WriteRow, TypeOK
      <3>2. CASE ~Op(p).log
        BY <1>6, <2>1, <3>2, AdvanceType DEF WriteRow
      <3> QED
        BY <3>1, <3>2
    <2> QED
      BY <1>6, <2>5, <2>6, <2>7 DEF WriteRow, TypeOK, data
  <1>7. ASSUME NEW p \in Workers, Log(p) PROVE TypeOK'
    <2>1. /\ pc' \in [Workers -> {"idle", "read", "diff", "write", "log", "commit"}]
          /\ pos' \in [Workers -> Nat \ {0}]
          /\ \A q \in Workers : pc'[q] # "idle" => script'[q] \in Requests /\ pos'[q] <= Len(script'[q])
      BY <1>7, AdvanceType DEF Log
    <2> QED
      BY <1>7, <2>1 DEF Log, TypeOK, data, drafts
  <1>8. ASSUME NEW p \in Workers, Commit(p) PROVE TypeOK'
    <2>1. Held(p) \subseteq Rows /\ Changed(p) \subseteq Rows
      BY DEF Held, Changed
    <2>2. db' \in [Rows -> [Cols -> Int]] /\ net' \in [Rows -> [Cols -> Int]]
      BY <1>8 DEF Commit, TypeOK
    <2>3. touched' \in [Workers -> SUBSET Rows] /\ spoiled' \in SUBSET Rows
      BY <1>8, <2>1 DEF Commit, TypeOK
    <2> QED
      BY <1>8, <2>2, <2>3, FinishType, UnlockType DEF Commit, TypeOK
  <1>9. ASSUME NEW p \in Workers, Crash(p) PROVE TypeOK'
    BY <1>9, RollbackType DEF Crash
  <1>10. ASSUME NEW p \in Workers, DeadlockVictim(p) PROVE TypeOK'
    BY <1>10, RollbackType DEF DeadlockVictim
  <1>11. CASE Done \/ UNCHANGED vars
    BY <1>11 DEF Done, vars, data, drafts, request, TypeOK
  <1> QED
    BY <1>1, <1>2, <1>3, <1>4, <1>5, <1>6, <1>7, <1>8, <1>9, <1>10, <1>11 DEF Next, Proceed

LEMMA TypeInit == Init => TypeOK
  <1> SUFFICES ASSUME Init PROVE TypeOK
    OBVIOUS
  <1>1. db \in [Rows -> [Cols -> Int]]
    BY OpeningAssumption DEF Init
  <1>2. /\ net \in [Rows -> [Cols -> Int]]
        /\ draft \in [Rows -> [Cols -> Int]]
        /\ draftNet \in [Rows -> [Cols -> Int]]
        /\ snap \in [Workers -> [Cols -> Int]]
    BY ZeroRowType DEF Init
  <1>3. /\ script \in [Workers -> Requests \cup {<<>>}]
        /\ seen \in [Workers -> [Rows -> Int]]
        /\ pos \in [Workers -> Nat \ {0}]
        /\ \A p \in Workers : pc[p] = "idle"
    BY DEF Init
  <1> QED
    BY <1>1, <1>2, <1>3 DEF Init, TypeOK

\* Every variable keeps its type, whatever the rows, workers and scripts.
THEOREM TypeCorrect == Spec => []TypeOK
  BY TypeInit, TypeStep, PTL DEF Spec

-----------------------------------------------------------------------------
(* Stock is never negative.                                                *)

\* Inductive: every version of a row is non-negative, and so is the snapshot
\* of a request about to write, on which its method's guard held.
GuardedSnapshots ==
    \A p \in Workers : pc[p] \in {"diff", "write"} =>
        snap[p] \in [Cols -> Nat] /\ Guard(Op(p), snap[p])

NaturalRows ==
    /\ db \in [Rows -> [Cols -> Nat]]
    /\ draft \in [Rows -> [Cols -> Nat]]
    /\ GuardedSnapshots

LEMMA RollbackNatural ==
    ASSUME TypeOK, NaturalRows, NEW p \in Workers, Rollback(p)
    PROVE  NaturalRows'
  <1>1. db' = db /\ draft' \in [Rows -> [Cols -> Nat]]
    BY ZeroRowType DEF NaturalRows, Rollback, Unlock, data
  <1>2. GuardedSnapshots'
    BY DEF TypeOK, NaturalRows, GuardedSnapshots, Rollback, Finish, Op
  <1> QED
    BY <1>1, <1>2 DEF NaturalRows

LEMMA AdvanceGuarded ==
    ASSUME TypeOK, GuardedSnapshots, NEW p \in Workers, Advance(p), UNCHANGED <<script, snap>>
    PROVE  GuardedSnapshots'
  BY DEF TypeOK, GuardedSnapshots, Advance, Op

LEMMA NaturalStep == TypeOK /\ TypeOK' /\ NaturalRows /\ [Next]_vars => NaturalRows'
  <1> SUFFICES ASSUME TypeOK, TypeOK', NaturalRows, [Next]_vars PROVE NaturalRows'
    OBVIOUS
  <1>0. \A p \in Workers, i \in Rows : Visible(p, i) \in [Cols -> Nat]
    BY DEF NaturalRows, Visible
  <1>1. ASSUME NEW p \in Workers, Begin(p) PROVE NaturalRows'
    BY <1>1 DEF Begin, NaturalRows, GuardedSnapshots, TypeOK, Op, data, drafts
  <1>2. ASSUME NEW p \in Workers, PeekRow(p) PROVE NaturalRows'
    BY <1>2, AdvanceGuarded DEF PeekRow, NaturalRows, data, drafts
  <1>3. ASSUME NEW p \in Workers, ReadRow(p) PROVE NaturalRows'
    <2>1. Visible(p, Target(p)) \in [Cols -> Nat]
      BY <1>0, <1>3, OpType DEF ReadRow
    <2>2. GuardedSnapshots'
      BY <1>3, <2>1 DEF ReadRow, NaturalRows, GuardedSnapshots, TypeOK, Op
    <2> QED
      BY <1>3, <2>2 DEF ReadRow, NaturalRows, data, drafts
  <1>4. ASSUME NEW p \in Workers, Reject(p) PROVE NaturalRows'
    BY <1>4, RollbackNatural DEF Reject
  <1>5. ASSUME NEW p \in Workers, DiffRow(p) PROVE NaturalRows'
    BY <1>5 DEF DiffRow, NaturalRows, GuardedSnapshots, TypeOK, Op, data, drafts
  <1>6. ASSUME NEW p \in Workers, WriteRow(p) PROVE NaturalRows'
    <2>1. Target(p) \in Rows /\ Op(p) \in RowOp
      BY <1>6, OpType DEF WriteRow
    <2>2. Entity(Op(p), snap[p]) \in [Cols -> Nat]
      BY <1>6, <2>1, EntityNonNegative DEF WriteRow, NaturalRows, GuardedSnapshots
    <2>3. draft' \in [Rows -> [Cols -> Nat]]
      BY <1>0, <1>6, <2>1, <2>2 DEF WriteRow, NaturalRows
    <2>4. GuardedSnapshots'
      <3>1. CASE Op(p).log
        BY <1>6, <3>1 DEF WriteRow, NaturalRows, GuardedSnapshots, TypeOK, Op
      <3>2. CASE ~Op(p).log
        BY <1>6, <3>2, AdvanceGuarded DEF WriteRow, NaturalRows
      <3> QED
        BY <3>1, <3>2
    <2> QED
      BY <1>6, <2>3, <2>4 DEF WriteRow, NaturalRows, data
  <1>7. ASSUME NEW p \in Workers, Log(p) PROVE NaturalRows'
    BY <1>7, AdvanceGuarded DEF Log, NaturalRows, data, drafts
  <1>8. ASSUME NEW p \in Workers, Commit(p) PROVE NaturalRows'
    <2>1. db' \in [Rows -> [Cols -> Nat]] /\ draft' \in [Rows -> [Cols -> Nat]]
      BY <1>8, ZeroRowType DEF Commit, Unlock, NaturalRows
    <2>2. GuardedSnapshots'
      BY <1>8 DEF Commit, Finish, NaturalRows, GuardedSnapshots, TypeOK, Op
    <2> QED
      BY <2>1, <2>2 DEF NaturalRows
  <1>9. ASSUME NEW p \in Workers, Crash(p) PROVE NaturalRows'
    BY <1>9, RollbackNatural DEF Crash
  <1>10. ASSUME NEW p \in Workers, DeadlockVictim(p) PROVE NaturalRows'
    BY <1>10, RollbackNatural DEF DeadlockVictim
  <1>11. CASE Done \/ UNCHANGED vars
    BY <1>11 DEF Done, vars, data, drafts, request, NaturalRows, GuardedSnapshots, Op
  <1> QED
    BY <1>1, <1>2, <1>3, <1>4, <1>5, <1>6, <1>7, <1>8, <1>9, <1>10, <1>11 DEF Next, Proceed

LEMMA NaturalInit == Init => NaturalRows
  BY OpeningAssumption, ZeroRowType DEF Init, NaturalRows, GuardedSnapshots

\* Whatever the interleaving of requests over a row, its quantities stay at or
\* above zero: the guard holds on the snapshot that the written value is
\* computed from, and a column not written keeps a committed value.
THEOREM StockIsNeverNegative == Spec => []StockNeverNegative
  <1>1. TypeOK /\ NaturalRows => StockNeverNegative
    BY DEF NaturalRows, StockNeverNegative
  <1> QED
    BY <1>1, TypeInit, TypeStep, NaturalInit, NaturalStep, PTL DEF Spec

-----------------------------------------------------------------------------
(* The movement ledger explains the stock.                                 *)

\* What a request sees of a row nobody touched or spoiled is explained.
LEMMA VisibleBalanced ==
    ASSUME TypeOK, LedgerInv, NEW p \in Workers, NEW i \in Rows \ spoiled, i \notin touched[p],
           NEW c \in Cols
    PROVE  Visible(p, i)[c] = Opening[i][c] + VisibleNet(p, i)[c]
  BY DEF LedgerInv, LedgerBalanced, DraftsBalanced, Visible, VisibleNet

\* The parts about one request's reads survive its going on to the next operation.
LEMMA AdvanceLedger ==
    ASSUME TypeOK, NEW p \in Workers, pc[p] # "idle", Advance(p), UNCHANGED script,
           \A q \in Workers \ {p} : /\ snap'[q] = snap[q] /\ dirty'[q] = dirty[q]
                                    /\ peeked'[q] = peeked[q] /\ touched'[q] = touched[q]
                                    /\ \A i \in Rows : Visible(q, i)' = Visible(q, i)
                                    /\ \A i \in Rows : holder'[i] = q <=> holder[i] = q,
           SnapshotsFresh, MergedWritten, IdleIsClean
    PROVE  SnapshotsFresh' /\ MergedWritten' /\ IdleIsClean'
  <1>1. /\ pc'[p] \in {"read", "commit"}
        /\ \A q \in Workers \ {p} : pc'[q] = pc[q] /\ pos'[q] = pos[q]
    BY DEF Advance, TypeOK
  <1>2. \A q \in Workers \ {p} : Op(q)' = Op(q) /\ Target(q)' = Target(q)
    BY <1>1 DEF Op, Target
  <1>3. \A q \in Workers \ {p} : pc[q] # "idle" => Target(q) \in Rows
    BY OpType
  <1> QED
    BY <1>1, <1>2, <1>3 DEF SnapshotsFresh, MergedWritten, IdleIsClean

LEMMA RollbackLedger ==
    ASSUME TypeOK, LedgerInv, NEW p \in Workers, Rollback(p)
    PROVE  LedgerInv'
  <1> USE DEF LedgerInv
  <1>1. /\ pc'[p] = "idle" /\ peeked'[p] = {}
        /\ \A i \in Rows : holder'[i] # p
    BY NoOneAssumption DEF TypeOK, Rollback, Finish, Unlock, Held
  <1>2. \A q \in Workers \ {p} :
            /\ pc'[q] = pc[q] /\ Op(q)' = Op(q) /\ Target(q)' = Target(q)
            /\ snap'[q] = snap[q] /\ seen'[q] = seen[q] /\ peeked'[q] = peeked[q]
            /\ dirty'[q] = dirty[q] /\ touched'[q] = touched[q]
    BY DEF TypeOK, Rollback, Finish, Op, Target
  <1>3. \A q \in Workers \ {p}, i \in Rows :
            /\ holder'[i] = q <=> holder[i] = q
            /\ holder[i] = q => draft'[i] = draft[i] /\ draftNet'[i] = draftNet[i]
            /\ Visible(q, i)' = Visible(q, i)
    BY NoOneAssumption DEF TypeOK, Rollback, Unlock, Visible, data
  <1>4. \A q \in Workers : pc[q] # "idle" => Target(q) \in Rows
    BY OpType
  <1>5. LedgerBalanced'
    BY DEF LedgerBalanced, Rollback, data
  <1>6. DraftsBalanced'
    BY <1>1, <1>2, <1>3 DEF DraftsBalanced, Rollback, data
  <1>7. SnapshotsFresh' /\ PeeksFresh' /\ MergedWritten'
    BY <1>1, <1>2, <1>3, <1>4 DEF SnapshotsFresh, PeeksFresh, MergedWritten
  <1>8. IdleIsClean'
    BY <1>1, <1>2, <1>3 DEF IdleIsClean
  <1> QED
    BY <1>5, <1>6, <1>7, <1>8

LEMMA LedgerStep == TypeOK /\ TypeOK' /\ LedgerInv /\ [Next]_vars => LedgerInv'
  <1> SUFFICES ASSUME TypeOK, TypeOK', LedgerInv, [Next]_vars PROVE LedgerInv'
    OBVIOUS
  <1> USE DEF LedgerInv
  <1>0. \A q \in Workers : pc[q] # "idle" => Target(q) \in Rows /\ Op(q) \in RowOp
    BY OpType
  <1>1. ASSUME NEW p \in Workers, Begin(p) PROVE LedgerInv'
    <2>1. LedgerBalanced' /\ DraftsBalanced'
      BY <1>1 DEF Begin, LedgerBalanced, DraftsBalanced, data, drafts
    <2>2. \A q \in Workers : q # p => pc'[q] = pc[q] /\ Op(q)' = Op(q) /\ Target(q)' = Target(q)
      BY <1>1 DEF Begin, TypeOK, Op, Target
    <2>3. pc'[p] = "read" /\ \A q \in Workers, i \in Rows : Visible(q, i)' = Visible(q, i)
      BY <1>1 DEF Begin, TypeOK, Visible, data, drafts
    <2>4. SnapshotsFresh' /\ PeeksFresh' /\ MergedWritten'
      BY <1>0, <1>1, <2>2, <2>3 DEF Begin, SnapshotsFresh, PeeksFresh, MergedWritten
    <2>5. IdleIsClean'
      BY <1>1, <2>2, <2>3 DEF Begin, IdleIsClean, drafts
    <2> QED
      BY <2>1, <2>4, <2>5
  <1>2. ASSUME NEW p \in Workers, PeekRow(p) PROVE LedgerInv'
    <2>1. Target(p) \in Rows /\ pc[p] # "idle"
      BY <1>0, <1>2 DEF PeekRow
    <2>2. \A q \in Workers, i \in Rows : Visible(q, i)' = Visible(q, i) /\ (holder'[i] = q <=> holder[i] = q)
      BY <1>2 DEF PeekRow, Visible, Held, data, drafts
    <2>3. /\ \A q \in Workers \ {p} : touched'[q] = touched[q] /\ peeked'[q] = peeked[q] /\ seen'[q] = seen[q]
          /\ touched'[p] = Refreshed(p, Target(p))
          /\ peeked'[p] = peeked[p] \cup {Target(p)}
          /\ seen'[p] = [seen[p] EXCEPT ![Target(p)] = Visible(p, Target(p))["onHand"]]
      BY <1>2, <2>1 DEF PeekRow, TypeOK
    <2>4. LedgerBalanced' /\ DraftsBalanced'
      BY <1>2, <2>3 DEF PeekRow, LedgerBalanced, DraftsBalanced, Refreshed, data, drafts
    <2>5. SnapshotsFresh' /\ MergedWritten' /\ IdleIsClean'
      BY <1>2, <2>1, <2>2, <2>3, AdvanceLedger DEF PeekRow
    <2>6. PeeksFresh'
      <3>1. seen[p] \in [Rows -> Int]
        BY DEF TypeOK
      <3>2. seen'[p][Target(p)] = Visible(p, Target(p))["onHand"]
        BY <2>1, <2>3, <3>1
      <3>3. \A i \in Rows \ {Target(p)} : seen'[p][i] = seen[p][i]
        BY <2>3, <3>1
      <3> SUFFICES ASSUME NEW q \in Workers, NEW i \in Rows, i \in peeked'[q], i \notin touched'[q]
                   PROVE  seen'[q][i] = Visible(q, i)["onHand"]'
        BY DEF PeeksFresh
      <3>4. CASE q = p /\ i = Target(p)
        BY <2>2, <3>2, <3>4
      <3>5. CASE q = p /\ i # Target(p)
        <4>1. i \in peeked[p]
          BY <2>3, <3>5
        <4>2. i \notin touched[p]
          BY <2>3, <3>5 DEF Refreshed
        <4>3. seen[p][i] = Visible(p, i)["onHand"]
          BY <4>1, <4>2 DEF PeeksFresh
        <4> QED
          BY <2>2, <3>3, <3>5, <4>3
      <3>6. CASE q # p
        BY <2>2, <2>3, <3>6 DEF PeeksFresh
      <3> QED
        BY <3>4, <3>5, <3>6
    <2> QED
      BY <2>4, <2>5, <2>6
  <1>3. ASSUME NEW p \in Workers, ReadRow(p) PROVE LedgerInv'
    <2>1. Target(p) \in Rows
      BY <1>0, <1>3 DEF ReadRow
    <2>2. /\ \A q \in Workers, i \in Rows : Visible(q, i)' = Visible(q, i) /\ (holder'[i] = q <=> holder[i] = q)
          /\ \A q \in Workers : Op(q)' = Op(q) /\ Target(q)' = Target(q)
      BY <1>3 DEF ReadRow, Visible, Held, Op, Target, data, drafts
    <2>3. /\ \A q \in Workers \ {p} : touched'[q] = touched[q] /\ snap'[q] = snap[q] /\ pc'[q] = pc[q]
          /\ touched'[p] = IF Target(p) \in peeked[p] THEN touched[p] ELSE Refreshed(p, Target(p))
          /\ snap'[p] = Visible(p, Target(p)) /\ pc'[p] = "diff"
      BY <1>3 DEF ReadRow, TypeOK
    <2>4. LedgerBalanced' /\ DraftsBalanced'
      BY <1>3, <2>3 DEF ReadRow, LedgerBalanced, DraftsBalanced, Refreshed, data, drafts
    <2>5. SnapshotsFresh' /\ MergedWritten' /\ IdleIsClean'
      BY <1>0, <1>3, <2>1, <2>2, <2>3 DEF ReadRow, SnapshotsFresh, MergedWritten, IdleIsClean
    <2>6. PeeksFresh'
      BY <1>3, <2>2, <2>3 DEF ReadRow, PeeksFresh, Refreshed
    <2> QED
      BY <2>4, <2>5, <2>6
  <1>4. ASSUME NEW p \in Workers, Reject(p) PROVE LedgerInv'
    BY <1>4, RollbackLedger DEF Reject
  <1>5. ASSUME NEW p \in Workers, DiffRow(p) PROVE LedgerInv'
    <2>1. LedgerBalanced' /\ DraftsBalanced'
      BY <1>5 DEF DiffRow, LedgerBalanced, DraftsBalanced, data, drafts
    <2>2. /\ \A q \in Workers, i \in Rows : Visible(q, i)' = Visible(q, i) /\ (holder'[i] = q <=> holder[i] = q)
          /\ \A q \in Workers : Op(q)' = Op(q) /\ Target(q)' = Target(q)
      BY <1>5 DEF DiffRow, Visible, Held, Op, Target, data, drafts
    <2>3. /\ \A q \in Workers \ {p} : dirty'[q] = dirty[q] /\ pc'[q] = pc[q]
          /\ Merged(Op(p).kind) \subseteq dirty'[p] /\ pc[p] = "diff" /\ pc'[p] = "write"
      BY <1>5 DEF DiffRow, TypeOK
    <2>4. SnapshotsFresh' /\ PeeksFresh' /\ MergedWritten' /\ IdleIsClean'
      BY <1>0, <1>5, <2>2, <2>3 DEF DiffRow, SnapshotsFresh, PeeksFresh, MergedWritten, IdleIsClean
    <2> QED
      BY <2>1, <2>4
  <1>6. ASSUME NEW p \in Workers, WriteRow(p) PROVE LedgerInv'
    <2> DEFINE i == Target(p)
    <2>1. i \in Rows /\ Op(p) \in RowOp /\ pc[p] # "idle" /\ p # NoOne
      BY <1>0, <1>6, NoOneAssumption DEF WriteRow
    <2>2. /\ holder'[i] = p
          /\ \A j \in Rows \ {i} : /\ holder'[j] = holder[j]
                                   /\ draft'[j] = draft[j] /\ draftNet'[j] = draftNet[j]
      BY <1>6, <2>1 DEF WriteRow, TypeOK
    <2>3. \A q \in Workers \ {p}, j \in Rows : Visible(q, j)' = Visible(q, j) /\ (holder'[j] = q <=> holder[j] = q)
      BY <1>6, <2>1, <2>2, NoOneAssumption DEF WriteRow, Visible, Held, data
    <2>4. LedgerBalanced'
      BY <1>6 DEF WriteRow, LedgerBalanced, data
    <2>5. ASSUME i \notin touched[p], i \notin spoiled, NEW c \in Cols
          PROVE  draft'[i][c] = Opening[i][c] + draftNet'[i][c]
      <3>1. Visible(p, i)[c] = Opening[i][c] + VisibleNet(p, i)[c]
        BY <2>1, <2>5, VisibleBalanced
      <3>2. /\ snap[p] = Visible(p, i) /\ snap[p] \in [Cols -> Int]
            /\ Merged(Op(p).kind) \subseteq dirty[p]
        BY <1>6, <2>5 DEF WriteRow, SnapshotsFresh, MergedWritten, TypeOK
      <3>3. Visible(p, i)[c] \in Int /\ VisibleNet(p, i)[c] \in Int /\ Opening[i][c] \in Int
        BY <2>1, VisibleType, OpeningAssumption
      <3>4. draft'[i][c] = IF c \in dirty[p] THEN Entity(Op(p), snap[p])[c] ELSE Visible(p, i)[c]
        BY <1>6, <2>1 DEF WriteRow, TypeOK
      <3>5. draftNet'[i][c] = VisibleNet(p, i)[c] + MovementDelta(p, c)
        BY <1>6, <2>1 DEF WriteRow, TypeOK
      <3>6. CASE c \in Merged(Op(p).kind)
        <4>1. Before(p, c) = Visible(p, i)[c]
          BY <2>1, <2>5, <3>2 DEF Before, PeeksFresh
        <4>2. Entity(Op(p), snap[p])[c] \in Int
          BY <2>1, <3>2, EntityType
        <4>3. MovementDelta(p, c) = Entity(Op(p), snap[p])[c] - Visible(p, i)[c]
          BY <3>6, <4>1 DEF MovementDelta
        <4>4. draft'[i][c] = Entity(Op(p), snap[p])[c]
          BY <3>2, <3>4, <3>6
        <4> QED
          BY <3>1, <3>3, <3>5, <4>2, <4>3, <4>4
      <3>7. CASE c \notin Merged(Op(p).kind)
        <4>1. Entity(Op(p), snap[p])[c] = Visible(p, i)[c]
          BY <2>1, <3>2, <3>7, EntityUnmerged
        <4>2. MovementDelta(p, c) = 0
          BY <3>7 DEF MovementDelta
        <4> QED
          BY <3>1, <3>3, <3>4, <3>5, <4>1, <4>2
      <3> QED
        BY <3>6, <3>7
    <2>6. DraftsBalanced'
      <3> SUFFICES ASSUME NEW q \in Workers, NEW j \in Rows \ spoiled', NEW c \in Cols,
                          holder'[j] = q, j \notin touched'[q]
                   PROVE  draft'[j][c] = Opening[j][c] + draftNet'[j][c]
        BY DEF DraftsBalanced
      <3>1. spoiled' = spoiled /\ touched' = touched
        BY <1>6 DEF WriteRow, data
      <3>2. CASE j = i
        BY <2>2, <2>5, <3>1, <3>2
      <3>3. CASE j # i
        BY <2>2, <3>1, <3>3 DEF DraftsBalanced
      <3> QED
        BY <3>2, <3>3
    <2>7. SnapshotsFresh' /\ MergedWritten' /\ IdleIsClean'
      <3>1. CASE Op(p).log
        <4>1. /\ pc'[p] = "log" /\ \A q \in Workers \ {p} : pc'[q] = pc[q]
              /\ \A q \in Workers : Op(q)' = Op(q) /\ Target(q)' = Target(q)
          BY <1>6, <3>1 DEF WriteRow, TypeOK, Op, Target
        <4>2. \A q \in Workers \ {p} : peeked'[q] = peeked[q]
          BY <1>6 DEF WriteRow, TypeOK
        <4> QED
          BY <1>0, <1>6, <2>3, <4>1, <4>2 DEF WriteRow, SnapshotsFresh, MergedWritten, IdleIsClean
      <3>2. CASE ~Op(p).log
        <4>1. \A q \in Workers \ {p} : peeked'[q] = peeked[q]
          BY <1>6 DEF WriteRow, TypeOK
        <4>2. Advance(p) /\ UNCHANGED <<script, snap, dirty, touched>>
          BY <1>6, <3>2 DEF WriteRow
        <4> QED
          BY <2>1, <2>3, <4>1, <4>2, AdvanceLedger
      <3> QED
        BY <3>1, <3>2
    <2>8. PeeksFresh'
      <3>1. peeked'[p] = peeked[p] \ {i} /\ \A q \in Workers \ {p} : peeked'[q] = peeked[q]
        BY <1>6 DEF WriteRow, TypeOK
      <3>2. \A j \in Rows \ {i} : Visible(p, j)' = Visible(p, j)
        BY <1>6, <2>2 DEF WriteRow, Visible, data
      <3> QED
        BY <1>6, <2>3, <3>1, <3>2 DEF WriteRow, PeeksFresh
    <2> QED
      BY <2>4, <2>6, <2>7, <2>8
  <1>7. ASSUME NEW p \in Workers, Log(p) PROVE LedgerInv'
    <2>1. \A q \in Workers, i \in Rows : Visible(q, i)' = Visible(q, i) /\ (holder'[i] = q <=> holder[i] = q)
      BY <1>7 DEF Log, Visible, Held, data, drafts
    <2>2. LedgerBalanced' /\ DraftsBalanced'
      BY <1>7 DEF Log, LedgerBalanced, DraftsBalanced, data, drafts
    <2>3. PeeksFresh'
      BY <1>7, <2>1 DEF Log, PeeksFresh
    <2>4. SnapshotsFresh' /\ MergedWritten' /\ IdleIsClean'
      <3>1. pc[p] # "idle" /\ Advance(p) /\ UNCHANGED <<script, snap, dirty, peeked, touched>>
        BY <1>7 DEF Log
      <3> QED
        BY <2>1, <3>1, AdvanceLedger
    <2> QED
      BY <2>2, <2>3, <2>4
  <1>8. ASSUME NEW p \in Workers, Commit(p) PROVE LedgerInv'
    <2>1. /\ pc'[p] = "idle" /\ peeked'[p] = {} /\ touched'[p] = {}
          /\ \A i \in Rows : holder'[i] # p
      BY <1>8, NoOneAssumption DEF Commit, TypeOK, Finish, Unlock, Held
    <2>2. \A q \in Workers \ {p} :
              /\ pc'[q] = pc[q] /\ Op(q)' = Op(q) /\ Target(q)' = Target(q)
              /\ snap'[q] = snap[q] /\ seen'[q] = seen[q] /\ peeked'[q] = peeked[q]
              /\ dirty'[q] = dirty[q]
              /\ pc[q] # "idle" => touched[q] \subseteq touched'[q] /\ Changed(p) \subseteq touched'[q]
      BY <1>8 DEF Commit, TypeOK, Finish, Op, Target
    <2>3. \A q \in Workers \ {p}, i \in Rows :
              /\ holder'[i] = q <=> holder[i] = q
              /\ holder[i] = q => draft'[i] = draft[i] /\ draftNet'[i] = draftNet[i]
              /\ i \notin Changed(p) => Visible(q, i)' = Visible(q, i)
      BY <1>8, NoOneAssumption DEF Commit, TypeOK, Unlock, Visible, Changed, Held
    <2>4. LedgerBalanced'
      <3> SUFFICES ASSUME NEW i \in Rows \ spoiled', NEW c \in Cols
                   PROVE  db'[i][c] = Opening[i][c] + net'[i][c]
        BY DEF LedgerBalanced
      <3>1. i \notin spoiled /\ ~(holder[i] = p /\ i \in touched[p])
        BY <1>8 DEF Commit, Held
      <3>2. CASE holder[i] = p
        BY <1>8, <3>1, <3>2 DEF Commit, DraftsBalanced
      <3>3. CASE holder[i] # p
        BY <1>8, <3>1, <3>3 DEF Commit, LedgerBalanced
      <3> QED
        BY <3>2, <3>3
    <2>5. DraftsBalanced'
      <3> SUFFICES ASSUME NEW q \in Workers, NEW i \in Rows \ spoiled', NEW c \in Cols,
                          holder'[i] = q, i \notin touched'[q]
                   PROVE  draft'[i][c] = Opening[i][c] + draftNet'[i][c]
        BY DEF DraftsBalanced
      <3>1. q # p /\ holder[i] = q /\ i \notin spoiled
        BY <1>8, <2>1, <2>3 DEF Commit
      <3>2. pc[q] # "idle" /\ i \notin touched[q]
        BY <2>2, <3>1 DEF IdleIsClean
      <3> QED
        BY <2>3, <3>1, <3>2 DEF DraftsBalanced
    <2>6. SnapshotsFresh' /\ MergedWritten'
      BY <1>0, <2>1, <2>2, <2>3 DEF SnapshotsFresh, MergedWritten
    <2>7. PeeksFresh'
      BY <2>1, <2>2, <2>3 DEF PeeksFresh, IdleIsClean
    <2>8. IdleIsClean'
      BY <2>1, <2>2, <2>3 DEF IdleIsClean
    <2> QED
      BY <2>4, <2>5, <2>6, <2>7, <2>8
  <1>9. ASSUME NEW p \in Workers, Crash(p) PROVE LedgerInv'
    BY <1>9, RollbackLedger DEF Crash
  <1>10. ASSUME NEW p \in Workers, DeadlockVictim(p) PROVE LedgerInv'
    BY <1>10, RollbackLedger DEF DeadlockVictim
  <1>11. CASE Done \/ UNCHANGED vars
    <2>1. UNCHANGED vars
      BY <1>11 DEF Done
    <2> QED
      BY <2>1 DEF vars, data, drafts, request, LedgerBalanced, DraftsBalanced, SnapshotsFresh,
                  PeeksFresh, MergedWritten, IdleIsClean, Op, Target, Visible, Held
  <1> QED
    BY <1>1, <1>2, <1>3, <1>4, <1>5, <1>6, <1>7, <1>8, <1>9, <1>10, <1>11 DEF Next, Proceed

LEMMA LedgerInit == Init => LedgerInv
  <1> SUFFICES ASSUME Init PROVE LedgerInv
    OBVIOUS
  <1>1. LedgerBalanced
    BY OpeningAssumption DEF Init, LedgerBalanced, ZeroRow
  <1>2. \A p \in Workers : pc[p] = "idle" /\ peeked[p] = {} /\ \A i \in Rows : holder[i] # p
    BY NoOneAssumption DEF Init
  <1> QED
    BY <1>1, <1>2 DEF LedgerInv, DraftsBalanced, SnapshotsFresh, PeeksFresh, MergedWritten,
                      IdleIsClean

\* The movements of a row add up to its stock, however requests interleave,
\* wait, fail or roll back, until one commits over a change it had not read.
THEOREM LedgerIsBalanced == Spec => []LedgerBalanced
  <1>1. LedgerInv => LedgerBalanced
    BY DEF LedgerInv
  <1> QED
    BY <1>1, TypeInit, TypeStep, LedgerInit, LedgerStep, PTL DEF Spec

-----------------------------------------------------------------------------
(* Running a script over a book.  FoldLeft is a function on the subsets of *)
(* the script's indices, defined by recursion: it exists and is unique by  *)
(* induction on subsets, in the form "of the bad ones, take a least".      *)

\* Induction up to n, for the members of a set P rather than a formula.
LEMMA UpTo ==
    ASSUME NEW n \in Nat, NEW P, 0 \in P, \A k \in 0..(n - 1) : k \in P => k + 1 \in P
    PROVE  \A k \in 0..n : k \in P
  <1> DEFINE Bad == {k \in 0..n : k \notin P}
  <1> SUFFICES ASSUME Bad # {} PROVE FALSE
    OBVIOUS
  <1>1. Bad \subseteq Nat
    OBVIOUS
  <1> HIDE DEF Bad
  <1>2. PICK k \in Bad : \A j \in Bad : ~(<<j, k>> \in OpToRel(<, Nat))
    BY <1>1, NatLessThanWellFounded, WFMin
  <1>3. k \in 0..n /\ k \notin P /\ k # 0
    BY DEF Bad
  <1>4. k - 1 \in 0..(n - 1) /\ k - 1 \in Nat /\ k - 1 < k
    BY <1>3
  <1>5. <<k - 1, k>> \in OpToRel(<, Nat)
    BY <1>3, <1>4 DEF OpToRel
  <1>6. k - 1 \notin Bad
    BY <1>2, <1>5
  <1>7. k - 1 \in P
    BY <1>3, <1>4, <1>6 DEF Bad
  <1>8. (k - 1) + 1 \in P
    BY <1>4, <1>7
  <1> QED
    BY <1>3, <1>8

LEMMA LeastSubset ==
    ASSUME NEW S, IsFiniteSet(S), NEW Bad \in SUBSET SUBSET S, Bad # {}
    PROVE  \E T \in Bad : \A U \in SUBSET T : U # T => U \notin Bad
  <1>1. IsWellFoundedOn(StrictSubsetOrdering(S), FiniteSubsetsOf(S))
    BY FS_StrictSubsetOrderingWellFounded
  <1>2. Bad \subseteq FiniteSubsetsOf(S)
    BY FS_FiniteSubsetsOfFinite
  <1>3. \E T \in Bad : \A U \in Bad : ~(<<U, T>> \in StrictSubsetOrdering(S))
    BY <1>1, <1>2, WFMin
  <1> QED
    BY <1>3 DEF StrictSubsetOrdering

\* Induction on finite sets, for the members of a set P rather than a formula.
LEMMA SubsetInduction ==
    ASSUME NEW S, IsFiniteSet(S), NEW P, {} \in P,
           \A T \in SUBSET S : \A x \in T : T \ {x} \in P => T \in P
    PROVE  S \in P
  <1> DEFINE Bad == {T \in SUBSET S : T \notin P}
  <1> SUFFICES ASSUME Bad # {} PROVE FALSE
    OBVIOUS
  <1>1. PICK T \in Bad : \A U \in SUBSET T : U # T => U \notin Bad
    <2>1. Bad \in SUBSET SUBSET S
      OBVIOUS
    <2> HIDE DEF Bad
    <2> QED
      BY <2>1, LeastSubset
  <1>2. PICK x \in T : TRUE
    BY <1>1
  <1>3. T \ {x} \in P
    BY <1>1, <1>2
  <1> QED
    BY <1>1, <1>2, <1>3

\* What FoldLeft computes: g[S] is book b after the operations of s at S, in order.
Replays(g, b, s, S) ==
    g = [T \in SUBSET S |->
            IF T = {} THEN b ELSE Atomic!Perform(g[T \ {Atomic!Max(T)}], s[Atomic!Max(T)])]

LEMMA MaxIsIn ==
    ASSUME NEW S, IsFiniteSet(S), S \subseteq Nat, S # {}
    PROVE  Atomic!Max(S) \in S /\ \A x \in S : x <= Atomic!Max(S)
  <1> DEFINE P == {T \in SUBSET S : T # {} => \E x \in T : \A y \in T : x >= y}
  <1>1. {} \in P
    OBVIOUS
  <1>2. ASSUME NEW T \in SUBSET S, NEW x \in T, T \ {x} \in P PROVE T \in P
    <2>1. CASE T \ {x} = {}
      <3>1. \A y \in T : y = x /\ x \in Nat
        BY <2>1
      <3> QED
        BY <3>1
    <2>2. CASE T \ {x} # {}
      <3>1. PICK z \in T \ {x} : \A y \in T \ {x} : z >= y
        BY <1>2, <2>2
      <3>2. x \in Nat /\ z \in Nat
        OBVIOUS
      <3>3. CASE z >= x
        BY <3>1, <3>3
      <3>4. CASE ~(z >= x)
        <4>1. \A y \in T : y \in Nat /\ x >= y
          BY <3>1, <3>2, <3>4
        <4> QED
          BY <4>1
      <3> QED
        BY <3>3, <3>4
    <2> QED
      BY <2>1, <2>2
  <1> HIDE DEF P
  <1>3. S \in P
    BY <1>1, <1>2, SubsetInduction
  <1>4. \E x \in S : \A y \in S : x >= y
    BY <1>3 DEF P
  <1>5. Atomic!Max(S) \in S /\ \A y \in S : Atomic!Max(S) >= y
    BY <1>4 DEF Atomic!Max
  <1> QED
    BY <1>5

LEMMA ReplaysAgree ==
    ASSUME NEW S \in SUBSET Nat, IsFiniteSet(S), NEW U \in SUBSET S, NEW b, NEW s,
           NEW g, NEW h, Replays(g, b, s, S), Replays(h, b, s, U)
    PROVE  g[U] = h[U]
  <1> DEFINE Bad == {r \in SUBSET U : g[r] # h[r]}
  <1> SUFFICES ASSUME Bad # {} PROVE FALSE
    OBVIOUS
  <1>1. PICK r \in Bad : \A q \in SUBSET r : q # r => q \notin Bad
    <2>1. IsFiniteSet(U) /\ Bad \in SUBSET SUBSET U
      BY FS_Subset
    <2> HIDE DEF Bad
    <2> QED
      BY <2>1, LeastSubset
  <1> DEFINE m == Atomic!Max(r)
  <1>2. /\ g[r] = IF r = {} THEN b ELSE Atomic!Perform(g[r \ {m}], s[m])
        /\ h[r] = IF r = {} THEN b ELSE Atomic!Perform(h[r \ {m}], s[m])
    BY <1>1 DEF Replays
  <1>3. r # {} => m \in r
    <2>1. IsFiniteSet(r) /\ r \subseteq Nat
      BY <1>1, FS_Subset
    <2> QED
      BY <2>1, MaxIsIn
  <1>4. r # {} => g[r \ {m}] = h[r \ {m}]
    BY <1>1, <1>3
  <1> QED
    BY <1>1, <1>2, <1>4

LEMMA ReplayExists ==
    ASSUME NEW S, IsFiniteSet(S), S \subseteq Nat, NEW b, NEW s
    PROVE  Replays(CHOOSE g : Replays(g, b, s, S), b, s, S)
  <1> DEFINE G(T) == CHOOSE g : Replays(g, b, s, T)
             V(T) == G(T)[T]
             m(T) == Atomic!Max(T)
             Bad == {T \in SUBSET S : ~Replays(G(T), b, s, T)}
  <1> SUFFICES ASSUME Bad # {} PROVE FALSE
    OBVIOUS
  <1>1. PICK T \in Bad : \A q \in SUBSET T : q # T => q \notin Bad
    <2>1. Bad \in SUBSET SUBSET S
      OBVIOUS
    <2> HIDE DEF Bad
    <2> QED
      BY <2>1, LeastSubset
  <1>2. \A r \in SUBSET T : IsFiniteSet(r) /\ r \subseteq Nat /\ (r # {} => m(r) \in r)
    BY <1>1, FS_Subset, MaxIsIn
  <1>3. \A r \in SUBSET T : r # T => Replays(G(r), b, s, r)
    BY <1>1
  <1> DEFINE h == [r \in SUBSET T |-> IF r = {} THEN b ELSE Atomic!Perform(V(r \ {m(r)}), s[m(r)])]
  <1> HIDE DEF m
  <1>4. ASSUME NEW r \in SUBSET T, r # T PROVE V(r) = h[r]
    <2>0. Replays(G(r), b, s, r)
      BY <1>3, <1>4
    <2>1. V(r) = IF r = {} THEN b ELSE Atomic!Perform(G(r)[r \ {m(r)}], s[m(r)])
      BY <2>0 DEF Replays, m
    <2>2. CASE r # {}
      <3> DEFINE q == r \ {m(r)}
      <3>1. q \in SUBSET T /\ q # T /\ q \subseteq r
        BY <1>2, <1>4, <2>2
      <3> HIDE DEF G, q, h, V, Bad
      <3>2. Replays(G(q), b, s, q)
        BY <1>3, <3>1
      <3>3. G(r)[q] = G(q)[q]
        <4>1. IsFiniteSet(r) /\ r \subseteq Nat
          BY <1>2
        <4>2. PICK g1, g2, u : g1 = G(r) /\ g2 = G(q) /\ u = q
          OBVIOUS
        <4>3. Replays(g1, b, s, r) /\ Replays(g2, b, s, u) /\ u \in SUBSET r
          BY <2>0, <3>1, <3>2, <4>2
        <4>5. IsFiniteSet(r) /\ r \in SUBSET Nat
          BY <4>1
        <4>6. \A g \in {g1}, k \in {g2}, w \in SUBSET r : Replays(g, b, s, r) /\ Replays(k, b, s, w) => g[w] = k[w]
          BY <4>5, ReplaysAgree
        <4>4. g1[u] = g2[u]
          BY <4>3, <4>6
        <4> QED
          BY <4>2, <4>4
      <3> QED
        BY <2>1, <2>2, <3>3 DEF q, h, V
    <2> QED
      BY <2>1, <2>2
  <1>5. \A r \in SUBSET T : r # {} => r \ {m(r)} \in SUBSET T /\ r \ {m(r)} # T
    BY <1>2
  <1>6. h = [r \in SUBSET T |-> IF r = {} THEN b ELSE Atomic!Perform(h[r \ {m(r)}], s[m(r)])]
    <2> HIDE DEF V
    <2>1. \A r \in SUBSET T : h[r] = IF r = {} THEN b ELSE Atomic!Perform(h[r \ {m(r)}], s[m(r)])
      <3>1. \A r \in SUBSET T : h[r] = IF r = {} THEN b ELSE Atomic!Perform(V(r \ {m(r)}), s[m(r)])
        OBVIOUS
      <3> HIDE DEF h
      <3> QED
        BY <1>4, <1>5, <3>1
    <2>2. h = [r \in SUBSET T |-> h[r]]
      OBVIOUS
    <2> HIDE DEF h
    <2> QED
      BY <2>1, <2>2
  <1>7. Replays(G(T), b, s, T)
    <2> HIDE DEF h
    <2>1. Replays(h, b, s, T)
      BY <1>6 DEF Replays, m
    <2> QED
      BY <2>1
  <1> QED
    BY <1>1, <1>7

\* Book b after the first k operations of script s.
Book(b, s, k) == (CHOOSE g : Replays(g, b, s, 1..Len(s)))[1..k]

LEMMA BookSteps ==
    ASSUME NEW s \in Seq(RowOp), NEW b
    PROVE  /\ Book(b, s, 0) = b
           /\ \A k \in 1..Len(s) : Book(b, s, k) = Atomic!Perform(Book(b, s, k - 1), s[k])
  <1> DEFINE G == CHOOSE g : Replays(g, b, s, 1..Len(s))
  <1>1. Len(s) \in Nat /\ DOMAIN s = 1..Len(s) /\ IsFiniteSet(1..Len(s)) /\ 1..Len(s) \subseteq Nat
    BY FS_Interval
  <1>2. Replays(G, b, s, 1..Len(s))
    BY <1>1, ReplayExists
  <1> HIDE DEF G
  <1>4. ASSUME NEW k \in 1..Len(s)
        PROVE  G[1..k] = Atomic!Perform(G[1..(k - 1)], s[k])
    <2>1. 1..k \in SUBSET (1..Len(s)) /\ 1..k # {} /\ IsFiniteSet(1..k) /\ 1..k \subseteq Nat
      <3>1. k \in Nat /\ k >= 1 /\ k <= Len(s)
        BY <1>1
      <3>2. IsFiniteSet(1..k)
        BY <3>1, FS_Interval
      <3> QED
        BY <1>1, <3>1, <3>2
    <2>2. Atomic!Max(1..k) = k
      <3>1. Atomic!Max(1..k) \in 1..k /\ \A x \in 1..k : x <= Atomic!Max(1..k)
        BY <2>1, MaxIsIn
      <3>2. k \in 1..k
        BY <1>1
      <3> QED
        BY <3>1, <3>2
    <2>3. (1..k) \ {k} = 1..(k - 1)
      BY <1>1
    <2> QED
      BY <1>2, <2>1, <2>2, <2>3 DEF Replays
  <1>5. G[1..0] = b
    <2>1. 1..0 = {}
      OBVIOUS
    <2> QED
      BY <1>2, <2>1 DEF Replays
  <1> QED
    BY <1>4, <1>5 DEF Book, G

\* The abstract ledger's outcome of a script is the last book.
LEMMA BookOutcome ==
    ASSUME NEW s \in Seq(RowOp), NEW b
    PROVE  Atomic!FoldLeft(Atomic!Perform, b, s) = Book(b, s, Len(s))
  <1>1. Len(s) \in Nat /\ DOMAIN s = 1..Len(s)
    OBVIOUS
  <1> QED
    BY <1>1 DEF Atomic!FoldLeft, Atomic!MapThenFoldSet, Book, Replays

-----------------------------------------------------------------------------
(* What a script does to a book, row by row.                               *)

BookType == [ok : BOOLEAN, rows : [Rows -> [Cols -> Int]], moved : [Rows -> [Cols -> Int]]]

\* The movement total m of a row r after operation op.
Moved(m, op, r) == [c \in Cols |-> m[c] + Entity(op, r)[c] - r[c]]

LEMMA Performed ==
    ASSUME NEW k \in BookType, NEW op \in RowOp
    PROVE  /\ Atomic!Perform(k, op) \in BookType
           /\ Atomic!Perform(k, op).ok = (k.ok /\ Guard(op, k.rows[op.row]))
           /\ Atomic!Perform(k, op).rows = [k.rows EXCEPT ![op.row] = Entity(op, k.rows[op.row])]
           /\ Atomic!Perform(k, op).moved =
                 [k.moved EXCEPT ![op.row] = Moved(k.moved[op.row], op, k.rows[op.row])]
  <1> DEFINE r == k.rows[op.row]
             e == Entity(op, r)
             d == [c \in Cols |-> k.moved[op.row][c] + e[c] - r[c]]
  <1>1. /\ op.row \in Rows /\ r \in [Cols -> Int] /\ k.moved[op.row] \in [Cols -> Int]
        /\ k.rows \in [Rows -> [Cols -> Int]] /\ k.moved \in [Rows -> [Cols -> Int]]
        /\ k.ok \in BOOLEAN
    BY DEF BookType, RowOp
  <1>2. e \in [Cols -> Int]
    BY <1>1, EntityType
  <1>3. d \in [Cols -> Int]
    <2> HIDE DEF e, r
    <2> QED
      BY <1>1, <1>2
  <1>4. Atomic!Entity(op, r) = e
    BY DEF Atomic!Entity, Entity
  <1>5. Atomic!Guard(op, r) = Guard(op, r)
    BY DEF Atomic!Guard, Guard
  <1>6. (k.ok /\ Guard(op, r)) \in BOOLEAN
    BY Zenon
  <1>7. Atomic!Cols = Cols
    BY DEF Atomic!Cols, Cols
  <1> DEFINE P == [ok |-> k.ok /\ Guard(op, r), rows |-> [k.rows EXCEPT ![op.row] = e],
                   moved |-> [k.moved EXCEPT ![op.row] = d]]
  <1>8. Atomic!Perform(k, op) = P
    <2> HIDE DEF e
    <2> QED
      BY <1>1, <1>4, <1>5, <1>7 DEF Atomic!Perform
  <1>9. P \in BookType
    <2> HIDE DEF e, d, r
    <2> QED
      BY <1>1, <1>2, <1>3, <1>6 DEF BookType
  <1> QED
    BY <1>8, <1>9 DEF Moved

\* The book after each operation, from the book before it.
LEMMA BookTyped ==
    ASSUME NEW s \in Seq(RowOp), NEW b \in BookType
    PROVE  \A k \in 0..Len(s) : Book(b, s, k) \in BookType
  <1> DEFINE P == {k \in 0..Len(s) : Book(b, s, k) \in BookType}
  <1>1. 0 \in P /\ Len(s) \in Nat
    BY BookSteps
  <1>2. ASSUME NEW k \in 0..(Len(s) - 1), k \in P PROVE k + 1 \in P
    <2>1. PICK n : n = k + 1 /\ n \in 1..Len(s) /\ n \in 0..Len(s) /\ n - 1 = k
      BY <1>1
    <2>2. PICK o, op : o = Book(b, s, k) /\ op = s[n] /\ o \in BookType /\ op \in RowOp
      BY <1>2, <2>1
    <2>3. Book(b, s, n) = Atomic!Perform(Book(b, s, n - 1), s[n])
      BY <2>1, BookSteps
    <2>4. Atomic!Perform(o, op) \in BookType
      BY <2>2, Performed
    <2> QED
      BY <2>1, <2>2, <2>3, <2>4
  <1> HIDE DEF P
  <1>3. \A k \in 0..Len(s) : k \in P
    BY <1>1, <1>2, UpTo
  <1> QED
    BY <1>3 DEF P

LEMMA BookNext ==
    ASSUME NEW s \in Seq(RowOp), NEW b \in BookType, NEW k \in 1..Len(s), NEW i \in Rows
    PROVE  /\ s[k].row = i =>
                 /\ Book(b, s, k).ok = (Book(b, s, k - 1).ok /\ Guard(s[k], Book(b, s, k - 1).rows[i]))
                 /\ Book(b, s, k).rows[i] = Entity(s[k], Book(b, s, k - 1).rows[i])
                 /\ Book(b, s, k).moved[i] =
                      Moved(Book(b, s, k - 1).moved[i], s[k], Book(b, s, k - 1).rows[i])
           /\ s[k].row # i => /\ Book(b, s, k).rows[i] = Book(b, s, k - 1).rows[i]
                              /\ Book(b, s, k).moved[i] = Book(b, s, k - 1).moved[i]
  <1>1. PICK o, n : o = Book(b, s, k - 1) /\ n = Book(b, s, k)
    OBVIOUS
  <1>2. o \in BookType /\ s[k] \in RowOp
    <2>1. k - 1 \in 0..Len(s) /\ s[k] \in RowOp
      OBVIOUS
    <2> QED
      BY <1>1, <2>1, BookTyped
  <1>3. n = Atomic!Perform(o, s[k])
    BY <1>1, BookSteps
  <1>4. PICK op, j : op = s[k] /\ op \in RowOp /\ j = op.row
    BY <1>2
  <1>5. j \in Rows /\ o.rows \in [Rows -> [Cols -> Int]] /\ o.moved \in [Rows -> [Cols -> Int]]
    BY <1>2, <1>4 DEF RowOp, BookType
  <1>6. /\ n.ok = (o.ok /\ Guard(op, o.rows[op.row]))
        /\ n.rows = [o.rows EXCEPT ![op.row] = Entity(op, o.rows[op.row])]
        /\ n.moved = [o.moved EXCEPT ![op.row] = Moved(o.moved[op.row], op, o.rows[op.row])]
    <2>1. n = Atomic!Perform(o, op)
      BY <1>3, <1>4
    <2> QED
      BY <1>2, <1>4, <2>1, Performed
  <1>7. PICK e, d : e = Entity(op, o.rows[j]) /\ d = Moved(o.moved[j], op, o.rows[j])
    OBVIOUS
  <1>9. n.rows = [o.rows EXCEPT ![j] = e] /\ n.moved = [o.moved EXCEPT ![j] = d]
    BY <1>4, <1>6, <1>7
  <1>10. n.rows[j] = e /\ n.moved[j] = d
    BY <1>5, <1>9
  <1>11. \A l \in Rows \ {j} : n.rows[l] = o.rows[l] /\ n.moved[l] = o.moved[l]
    BY <1>5, <1>9
  <1>8. n.ok = (o.ok /\ Guard(op, o.rows[j]))
    BY <1>4, <1>6
  <1> QED
    BY <1>1, <1>4, <1>7, <1>8, <1>10, <1>11

\* A read leaves the book as it is.
LEMMA PeekBook ==
    ASSUME NEW s \in Seq(RowOp), NEW b \in BookType, NEW k \in 1..Len(s), s[k].kind = "peek",
           NEW i \in Rows
    PROVE  /\ Book(b, s, k).rows[i] = Book(b, s, k - 1).rows[i]
           /\ Book(b, s, k).moved[i] = Book(b, s, k - 1).moved[i]
  <1>1. PICK o, n : o = Book(b, s, k - 1) /\ n = Book(b, s, k)
    OBVIOUS
  <1>2. CASE i = s[k].row
    <2>1. o \in BookType
      <3>1. k - 1 \in 0..Len(s)
        OBVIOUS
      <3> QED
        BY <1>1, <3>1, BookTyped
    <2>2. o.rows[i] \in [Cols -> Int] /\ o.moved[i] \in [Cols -> Int]
      BY <2>1 DEF BookType
    <2>3. /\ n.rows[i] = Entity(s[k], o.rows[i])
          /\ n.moved[i] = Moved(o.moved[i], s[k], o.rows[i])
      BY <1>1, <1>2, BookNext
    <2>4. /\ n.rows[i] = o.rows[i]
          /\ n.moved[i] = [c \in Cols |-> o.moved[i][c] + o.rows[i][c] - o.rows[i][c]]
      BY <2>3 DEF Entity, Moved
    <2>5. \A c \in Cols : o.moved[i][c] + o.rows[i][c] - o.rows[i][c] = o.moved[i][c]
      BY <2>2
    <2>6. n.moved[i] = o.moved[i]
      BY <2>2, <2>4, <2>5
    <2> QED
      BY <1>1, <2>4, <2>6
  <1>3. CASE i # s[k].row
    BY <1>3, BookNext
  <1> QED
    BY <1>2, <1>3

\* Rows are independent: a row's entry depends on that row's opening entry alone.
LEMMA RowLocal ==
    ASSUME NEW s \in Seq(RowOp), NEW b \in BookType, NEW d \in BookType, NEW i \in Rows,
           b.rows[i] = d.rows[i]
    PROVE  \A k \in 0..Len(s) :
              /\ Book(b, s, k).rows[i] = Book(d, s, k).rows[i]
              /\ b.moved[i] = d.moved[i] => Book(b, s, k).moved[i] = Book(d, s, k).moved[i]
  <1> DEFINE P == {k \in 0..Len(s) :
                     /\ Book(b, s, k).rows[i] = Book(d, s, k).rows[i]
                     /\ b.moved[i] = d.moved[i] => Book(b, s, k).moved[i] = Book(d, s, k).moved[i]}
  <1>1. 0 \in P /\ Len(s) \in Nat
    BY BookSteps
  <1>2. ASSUME NEW k \in 0..(Len(s) - 1), k \in P PROVE k + 1 \in P
    <2>1. PICK n : n = k + 1 /\ n \in 1..Len(s) /\ n \in 0..Len(s) /\ n - 1 = k
      BY <1>1
    <2>2. PICK b0, b1, d0, d1 : /\ b0 = Book(b, s, n - 1) /\ b1 = Book(b, s, n)
                                /\ d0 = Book(d, s, n - 1) /\ d1 = Book(d, s, n)
      OBVIOUS
    <2>3. b0.rows[i] = d0.rows[i] /\ (b.moved[i] = d.moved[i] => b0.moved[i] = d0.moved[i])
      BY <1>2, <2>1, <2>2
    <2>4. b1.rows[i] = d1.rows[i] /\ (b.moved[i] = d.moved[i] => b1.moved[i] = d1.moved[i])
      <3>1. CASE i = s[n].row
        <4>1. /\ b1.rows[i] = Entity(s[n], b0.rows[i])
              /\ b1.moved[i] = Moved(b0.moved[i], s[n], b0.rows[i])
          BY <2>1, <2>2, <3>1, BookNext
        <4>2. /\ d1.rows[i] = Entity(s[n], d0.rows[i])
              /\ d1.moved[i] = Moved(d0.moved[i], s[n], d0.rows[i])
          BY <2>1, <2>2, <3>1, BookNext
        <4> QED
          BY <2>3, <4>1, <4>2
      <3>2. CASE i # s[n].row
        <4>1. b1.rows[i] = b0.rows[i] /\ b1.moved[i] = b0.moved[i]
          BY <2>1, <2>2, <3>2, BookNext
        <4>2. d1.rows[i] = d0.rows[i] /\ d1.moved[i] = d0.moved[i]
          BY <2>1, <2>2, <3>2, BookNext
        <4> QED
          BY <2>3, <4>1, <4>2
      <3> QED
        BY <3>1, <3>2
    <2> QED
      BY <2>1, <2>2, <2>4
  <1> HIDE DEF P
  <1>3. \A k \in 0..Len(s) : k \in P
    BY <1>1, <1>2, UpTo
  <1> QED
    BY <1>3 DEF P

\* A row that the first n operations only read is as it was.
LEMMA OnlyRead ==
    ASSUME NEW s \in Seq(RowOp), NEW b \in BookType, NEW i \in Rows, NEW n \in 0..Len(s),
           \A m \in 1..n : s[m].row = i => s[m].kind = "peek"
    PROVE  Book(b, s, n).rows[i] = b.rows[i] /\ Book(b, s, n).moved[i] = b.moved[i]
  <1> DEFINE P == {k \in 0..n : Book(b, s, k).rows[i] = b.rows[i] /\ Book(b, s, k).moved[i] = b.moved[i]}
  <1>1. 0 \in P /\ n \in Nat /\ Len(s) \in Nat
    BY BookSteps
  <1>2. ASSUME NEW k \in 0..(n - 1), k \in P PROVE k + 1 \in P
    <2>1. PICK m : m = k + 1 /\ m \in 1..Len(s) /\ m \in 1..n /\ m \in 0..n /\ m - 1 = k
      BY <1>1
    <2>2. /\ Book(b, s, m).rows[i] = Book(b, s, m - 1).rows[i]
          /\ Book(b, s, m).moved[i] = Book(b, s, m - 1).moved[i]
      <3>1. CASE s[m].row = i
        <4>1. s[m].kind = "peek"
          BY <2>1, <3>1
        <4> QED
          BY <2>1, <4>1, PeekBook
      <3>2. CASE s[m].row # i
        BY <2>1, <3>2, BookNext
      <3> QED
        BY <3>1, <3>2
    <2> QED
      BY <1>2, <2>1, <2>2
  <1> HIDE DEF P
  <1>3. \A k \in 0..n : k \in P
    BY <1>1, <1>2, UpTo
  <1>4. n \in 0..n
    BY <1>1
  <1>5. n \in P
    BY <1>3, <1>4
  <1> QED
    BY <1>5 DEF P

\* A script whose guards hold one by one holds as a whole.
LEMMA GuardsHold ==
    ASSUME NEW s \in Seq(RowOp), NEW b \in BookType, b.ok,
           \A m \in 1..Len(s) : Guard(s[m], Book(b, s, m - 1).rows[s[m].row])
    PROVE  Book(b, s, Len(s)).ok
  <1> DEFINE P == {k \in 0..Len(s) : Book(b, s, k).ok}
  <1>1. 0 \in P /\ Len(s) \in Nat
    BY BookSteps
  <1>2. ASSUME NEW k \in 0..(Len(s) - 1), k \in P PROVE k + 1 \in P
    <2>1. PICK n : n = k + 1 /\ n \in 1..Len(s) /\ n \in 0..Len(s) /\ n - 1 = k
      BY <1>1
    <2>2. Book(b, s, n).ok = (Book(b, s, n - 1).ok /\ Guard(s[n], Book(b, s, n - 1).rows[s[n].row]))
      <3>1. s[n] \in RowOp
        BY <2>1
      <3>2. PICK i \in Rows : i = s[n].row
        BY <3>1 DEF RowOp
      <3>3. Book(b, s, n).ok = (Book(b, s, n - 1).ok /\ Guard(s[n], Book(b, s, n - 1).rows[i]))
        BY <2>1, <3>2, BookNext
      <3> QED
        BY <3>2, <3>3
    <2>3. Guard(s[n], Book(b, s, n - 1).rows[s[n].row])
      BY <2>1
    <2> QED
      BY <1>2, <2>1, <2>2, <2>3
  <1> HIDE DEF P
  <1>3. \A k \in 0..Len(s) : k \in P
    BY <1>1, <1>2, UpTo
  <1>4. Len(s) \in P
    BY <1>1, <1>3
  <1> QED
    BY <1>4 DEF P

-----------------------------------------------------------------------------
(* A commit on fresh reads is the script in one step.                      *)

Committed == [ok |-> TRUE, rows |-> db, moved |-> net]

\* The operations of its script that request p has made.
Made(p) == IF pc[p] \in {"read", "diff", "write"} THEN pos[p] - 1 ELSE pos[p]

\* The rows p has used and does not hold are rows it has only read.
UnheldOnlyRead(p) ==
    \A m \in 1..Made(p) : holder[script[p][m].row] # p
        => script[p][m].kind = "peek" /\ script[p][m].row \in peeked[p]

\* An untouched draft is the row after the operations made so far.
DraftsFollow(p) ==
    \A i \in Rows : holder[i] = p /\ i \notin touched[p] =>
        /\ draft[i] = Book(Committed, script[p], Made(p)).rows[i]
        /\ draftNet[i] = Book(Committed, script[p], Made(p)).moved[i]

\* The guards that let those operations pass hold along the script.
GuardsFollow(p) ==
    \A m \in 1..Made(p) : script[p][m].row \notin touched[p] =>
        Guard(script[p][m], Book(Committed, script[p], m - 1).rows[script[p][m].row])

\* A column that save will not write has its new value already.
CleanFresh(p) ==
    pc[p] = "write" /\ Target(p) \notin touched[p] =>
        \A c \in Cols \ dirty[p] : Entity(Op(p), snap[p])[c] = Visible(p, Target(p))[c]

\* A row read ahead has not been used since.
PeeksLast(p) ==
    \A i \in peeked[p] : \E m \in 1..Made(p) :
        /\ script[p][m].row = i /\ script[p][m].kind = "peek"
        /\ \A j \in (m + 1)..Made(p) : script[p][j].row # i

Follows(p) ==
    /\ UnheldOnlyRead(p) /\ DraftsFollow(p) /\ GuardsFollow(p)
    /\ CleanFresh(p) /\ PeeksLast(p)
    /\ pc[p] = "commit" => pos[p] = Len(script[p])

\* Inductive: every request in progress is part-way through its script.
RequestsFollow == \A p \in Workers : pc[p] # "idle" => Follows(p)

LEMMA CommittedType == TypeOK => Committed \in BookType
  BY DEF TypeOK, Committed, BookType

LEMMA MadeType ==
    ASSUME TypeOK, NEW p \in Workers, pc[p] # "idle"
    PROVE  /\ script[p] \in Seq(RowOp) /\ Len(script[p]) \in Nat
           /\ pos[p] \in 1..Len(script[p]) /\ Made(p) \in 0..Len(script[p])
           /\ \A m \in 1..Len(script[p]) : script[p][m] \in RowOp /\ script[p][m].row \in Rows
           /\ PeeksFollowed(script[p])
  <1>1. script[p] \in Seq(RowOp) /\ pos[p] \in 1..Len(script[p])
    BY OpType
  <1>2. Len(script[p]) \in Nat /\ pos[p] - 1 \in 0..Len(script[p]) /\ pos[p] \in 0..Len(script[p])
    BY <1>1
  <1>3. \A m \in 1..Len(script[p]) : script[p][m] \in RowOp
    BY <1>1
  <1>4. PeeksFollowed(script[p])
    BY RequestsAssumption DEF TypeOK
  <1> QED
    BY <1>1, <1>2, <1>3, <1>4 DEF Made, RowOp

\* What a request sees of an untouched row is the row after what it has done.
LEMMA VisibleFollows ==
    ASSUME TypeOK, NEW p \in Workers, pc[p] # "idle", Follows(p),
           NEW i \in Rows, i \notin touched[p]
    PROVE  /\ Visible(p, i) = Book(Committed, script[p], Made(p)).rows[i]
           /\ VisibleNet(p, i) = Book(Committed, script[p], Made(p)).moved[i]
  <1>1. CASE holder[i] = p
    BY <1>1 DEF Follows, DraftsFollow, Visible, VisibleNet
  <1>2. CASE holder[i] # p
    <2>1. PICK s, n, b : s = script[p] /\ n = Made(p) /\ b = Committed
      OBVIOUS
    <2>2. s \in Seq(RowOp) /\ n \in 0..Len(s) /\ b \in BookType
      BY <2>1, MadeType, CommittedType
    <2>3. \A m \in 1..n : s[m].row = i => s[m].kind = "peek"
      BY <1>2, <2>1 DEF Follows, UnheldOnlyRead
    <2>4. Book(b, s, n).rows[i] = b.rows[i] /\ Book(b, s, n).moved[i] = b.moved[i]
      BY <2>2, <2>3, OnlyRead
    <2>5. b.rows = db /\ b.moved = net
      BY <2>1 DEF Committed
    <2> QED
      BY <1>2, <2>1, <2>4, <2>5 DEF Visible, VisibleNet
  <1> QED
    BY <1>1, <1>2

\* A request goes on after an operation: it has made one more.
LEMMA AdvanceMade ==
    ASSUME TypeOK, NEW p \in Workers, pc[p] # "idle", Advance(p), UNCHANGED script
    PROVE  /\ Made(p)' = pos[p]
           /\ pc'[p] \in {"read", "commit"}
           /\ pc'[p] = "commit" => pos'[p] = Len(script'[p])
           /\ \A q \in Workers \ {p} : pc'[q] = pc[q] /\ pos'[q] = pos[q]
  <1>1. pos[p] \in Nat /\ pc \in [Workers -> {"idle", "read", "diff", "write", "log", "commit"}]
        /\ pos \in [Workers -> Nat \ {0}]
    BY DEF TypeOK
  <1>2. CASE pos[p] = Len(script[p])
    BY <1>1, <1>2 DEF Advance, Made
  <1>3. CASE pos[p] # Len(script[p])
    <2>1. pc'[p] = "read" /\ pos'[p] = pos[p] + 1
      BY <1>1, <1>3 DEF Advance
    <2>2. Made(p)' = pos[p]
      BY <1>1, <2>1 DEF Made
    <2> QED
      BY <1>1, <1>3, <2>1, <2>2 DEF Advance
  <1> QED
    BY <1>2, <1>3

\* A request is not disturbed by a step that leaves its own state alone and
\* changes no row it holds, nor any other row without marking it as touched.
LEMMA FollowsFrame ==
    ASSUME TypeOK, TypeOK', NEW q \in Workers, pc[q] # "idle", Follows(q),
           pc'[q] = pc[q], pos'[q] = pos[q], script'[q] = script[q], snap'[q] = snap[q],
           peeked'[q] = peeked[q], dirty'[q] = dirty[q], touched[q] \subseteq touched'[q],
           \A i \in Rows : holder'[i] = q <=> holder[i] = q,
           \A i \in Rows : holder[i] = q => /\ draft'[i] = draft[i] /\ draftNet'[i] = draftNet[i]
                                            /\ db'[i] = db[i] /\ net'[i] = net[i],
           \A i \in Rows : i \notin touched'[q] => db'[i] = db[i]
    PROVE  Follows(q)'
  <1>1. PICK s, n, b, d : s = script[q] /\ n = Made(q) /\ b = Committed /\ d = Committed'
    OBVIOUS
  <1>2. /\ s \in Seq(RowOp) /\ Len(s) \in Nat /\ n \in 0..Len(s) /\ b \in BookType /\ d \in BookType
        /\ \A m \in 1..Len(s) : s[m].row \in Rows
    <2>1. b \in BookType
      BY <1>1, CommittedType
    <2>2. d \in BookType
      BY <1>1 DEF TypeOK, Committed, BookType
    <2> QED
      BY <1>1, <2>1, <2>2, MadeType
  <1>3. /\ b.rows = db /\ b.moved = net /\ d.rows = db' /\ d.moved = net'
    BY <1>1 DEF Committed
  <1>4. script'[q] = s /\ Made(q)' = n
    BY <1>1 DEF Made
  <1>5. \A m \in 1..n : s[m].row \in Rows /\ m - 1 \in 0..Len(s)
    BY <1>2
  <1>6. \A i \in Rows, k \in 0..Len(s) : db'[i] = db[i] =>
            /\ Book(b, s, k).rows[i] = Book(d, s, k).rows[i]
            /\ net'[i] = net[i] => Book(b, s, k).moved[i] = Book(d, s, k).moved[i]
    <2> SUFFICES ASSUME NEW i \in Rows, db'[i] = db[i]
                 PROVE  \A k \in 0..Len(s) :
                           /\ Book(b, s, k).rows[i] = Book(d, s, k).rows[i]
                           /\ net'[i] = net[i] => Book(b, s, k).moved[i] = Book(d, s, k).moved[i]
      OBVIOUS
    <2>1. b.rows[i] = d.rows[i] /\ b.moved[i] = net[i] /\ d.moved[i] = net'[i]
      BY <1>3
    <2> QED
      BY <1>2, <2>1, RowLocal
  <1>7. UnheldOnlyRead(q)'
    BY <1>1, <1>4, <1>5 DEF Follows, UnheldOnlyRead
  <1>8. DraftsFollow(q)'
    <2>1. ASSUME NEW i \in Rows, holder'[i] = q, i \notin touched'[q]
          PROVE  draft'[i] = Book(d, s, n).rows[i] /\ draftNet'[i] = Book(d, s, n).moved[i]
      <3>1. holder[i] = q /\ i \notin touched[q]
        BY <2>1
      <3>2. draft[i] = Book(b, s, n).rows[i] /\ draftNet[i] = Book(b, s, n).moved[i]
        BY <1>1, <3>1 DEF Follows, DraftsFollow
      <3> QED
        BY <1>2, <1>6, <3>1, <3>2
    <2> QED
      BY <1>1, <1>4, <2>1 DEF DraftsFollow
  <1>9. GuardsFollow(q)'
    <2>1. ASSUME NEW m \in 1..n, s[m].row \notin touched'[q]
          PROVE  Guard(s[m], Book(d, s, m - 1).rows[s[m].row])
      <3>1. PICK i \in Rows : i = s[m].row
        BY <1>5
      <3>2. Guard(s[m], Book(b, s, m - 1).rows[i])
        BY <1>1, <2>1, <3>1 DEF Follows, GuardsFollow
      <3>3. Book(b, s, m - 1).rows[i] = Book(d, s, m - 1).rows[i]
        BY <1>5, <1>6, <2>1, <3>1
      <3> QED
        BY <3>1, <3>2, <3>3
    <2> QED
      BY <1>1, <1>4, <2>1 DEF GuardsFollow
  <1>10. CleanFresh(q)'
    <2>1. Op(q)' = Op(q) /\ Target(q)' = Target(q) /\ Target(q) \in Rows
      BY OpType DEF Op, Target
    <2>2. Target(q) \notin touched'[q] => Visible(q, Target(q))' = Visible(q, Target(q))
      BY <2>1 DEF Visible
    <2> QED
      BY <2>1, <2>2 DEF Follows, CleanFresh
  <1>11. PeeksLast(q)'
    BY <1>1, <1>4 DEF Follows, PeeksLast
  <1>12. pc'[q] = "commit" => pos'[q] = Len(script'[q])
    BY DEF Follows
  <1> QED
    BY <1>7, <1>8, <1>9, <1>10, <1>11, <1>12 DEF Follows

\* A row that a request reads ahead, and does not hold, it has not used before.
LEMMA PeekIsFirst ==
    ASSUME TypeOK, NEW p \in Workers, Follows(p), pc[p] = "read", Op(p).kind = "peek",
           holder[Target(p)] # p
    PROVE  \A m \in 1..(pos[p] - 1) : script[p][m].row # Target(p)
  <1>1. PICK s, n, i : s = script[p] /\ n = pos[p] /\ i = Target(p)
    OBVIOUS
  <1>2. /\ s[n].row = i /\ s[n].kind = "peek" /\ Made(p) = n - 1
        /\ n \in 1..Len(s) /\ Len(s) \in Nat /\ PeeksFollowed(s) /\ DOMAIN s = 1..Len(s)
    BY <1>1, MadeType DEF Op, Target, Made
  <1> SUFFICES ASSUME NEW m \in 1..(n - 1), s[m].row = i PROVE FALSE
    BY <1>1
  <1>3. i \in peeked[p]
    BY <1>1, <1>2 DEF Follows, UnheldOnlyRead
  <1>4. PICK k \in 1..(n - 1) : /\ s[k].row = i /\ s[k].kind = "peek"
                                /\ \A j \in (k + 1)..(n - 1) : s[j].row # i
    BY <1>1, <1>2, <1>3 DEF Follows, PeeksLast
  <1>5. k \in 1..Len(s) /\ k < n
    BY <1>2
  <1>6. PICK l \in (k + 1)..Len(s) : /\ s[l].row = i /\ s[l].kind # "peek"
                                     /\ \A j \in (k + 1)..(l - 1) : s[j].row # i
    <2>1. k \in DOMAIN s /\ s[k].kind = "peek"
      BY <1>2, <1>4, <1>5
    <2>2. \E h \in (k + 1)..Len(s) :
            /\ s[h].row = s[k].row /\ s[h].kind # "peek"
            /\ \A j \in (k + 1)..(h - 1) : s[j].row # s[k].row
      BY <1>2, <2>1 DEF PeeksFollowed
    <2>3. s[k].row = i
      BY <1>4
    <2> QED
      BY <2>2, <2>3
  <1>7. l # n /\ l \notin (k + 1)..(n - 1)
    BY <1>2, <1>4, <1>6
  <1>8. n \in (k + 1)..(l - 1)
    BY <1>2, <1>5, <1>6, <1>7
  <1> QED
    BY <1>2, <1>6, <1>8

LEMMA PeekFollows ==
    ASSUME TypeOK, NEW p \in Workers, Follows(p), PeekRow(p)
    PROVE  Follows(p)'
  <1>1. PICK s, n, i, b : s = script[p] /\ n = pos[p] /\ i = Target(p) /\ b = Committed
    OBVIOUS
  <1>2. pc[p] = "read" /\ Op(p).kind = "peek" /\ Op(p) = s[n] /\ s[n].row = i
    BY <1>1 DEF PeekRow, Op, Target
  <1>3. /\ s \in Seq(RowOp) /\ Len(s) \in Nat /\ n \in 1..Len(s) /\ b \in BookType /\ i \in Rows
        /\ Made(p) = n - 1 /\ n - 1 \in 0..Len(s) /\ \A m \in 1..n : s[m].row \in Rows
    BY <1>1, <1>2, MadeType, CommittedType DEF Made
  <1>4. Made(p)' = n /\ script'[p] = s /\ Committed' = b
    BY <1>1, <1>2, AdvanceMade DEF PeekRow, Committed, data
  <1>5. /\ pc'[p] \in {"read", "commit"} /\ (pc'[p] = "commit" => pos'[p] = Len(script'[p]))
    BY <1>2, AdvanceMade DEF PeekRow
  <1>6. /\ holder' = holder /\ draft' = draft /\ draftNet' = draftNet
        /\ peeked'[p] = peeked[p] \cup {i} /\ touched'[p] = Refreshed(p, i)
    BY <1>1 DEF PeekRow, TypeOK, drafts
  <1>7. holder[i] # p => \A m \in 1..(n - 1) : s[m].row # i
    BY <1>1, <1>2, PeekIsFirst
  <1>8. \A j \in Rows : j \notin touched'[p] => j \notin touched[p] \/ (j = i /\ holder[i] # p)
    BY <1>6 DEF Refreshed
  <1>9. \A m \in 1..n : m # n => m \in 1..(n - 1)
    BY <1>3
  <1>10. UnheldOnlyRead(p)'
    <2>1. \A m \in 1..n : holder[s[m].row] # p => s[m].kind = "peek" /\ s[m].row \in peeked'[p]
      BY <1>1, <1>2, <1>3, <1>6, <1>9 DEF Follows, UnheldOnlyRead
    <2> QED
      BY <1>4, <1>6, <2>1 DEF UnheldOnlyRead
  <1>11. DraftsFollow(p)'
    <2>1. ASSUME NEW j \in Rows, holder[j] = p, j \notin touched'[p]
          PROVE  draft[j] = Book(b, s, n).rows[j] /\ draftNet[j] = Book(b, s, n).moved[j]
      <3>1. j \notin touched[p]
        BY <1>8, <2>1
      <3>2. draft[j] = Book(b, s, n - 1).rows[j] /\ draftNet[j] = Book(b, s, n - 1).moved[j]
        BY <1>1, <1>3, <2>1, <3>1 DEF Follows, DraftsFollow
      <3> QED
        BY <1>2, <1>3, <3>2, PeekBook
    <2> QED
      BY <1>4, <1>6, <2>1 DEF DraftsFollow
  <1>12. GuardsFollow(p)'
    <2>1. ASSUME NEW m \in 1..n, s[m].row \notin touched'[p]
          PROVE  Guard(s[m], Book(b, s, m - 1).rows[s[m].row])
      <3>1. CASE m # n
        <4>1. m \in 1..(n - 1) /\ s[m].row \notin touched[p]
          BY <1>3, <1>7, <1>8, <1>9, <2>1, <3>1
        <4> QED
          BY <1>1, <1>3, <4>1 DEF Follows, GuardsFollow
      <3>2. CASE m = n
        <4>1. Guard(s[n], Visible(p, i))
          BY <1>1, <1>2 DEF PeekRow
        <4>2. Visible(p, i) = Book(b, s, n - 1).rows[i]
          <5>1. CASE holder[i] = p
            <6>1. i \notin touched[p]
              BY <1>2, <1>3, <1>8, <2>1, <3>2, <5>1
            <6> QED
              BY <1>1, <1>2, <1>3, <6>1, VisibleFollows
          <5>2. CASE holder[i] # p
            <6>1. \A l \in 1..(n - 1) : s[l].row = i => s[l].kind = "peek"
              BY <1>7, <5>2
            <6>2. Book(b, s, n - 1).rows[i] = b.rows[i]
              BY <1>3, <6>1, OnlyRead
            <6> QED
              BY <1>1, <5>2, <6>2 DEF Visible, Committed
          <5> QED
            BY <5>1, <5>2
        <4> QED
          BY <1>2, <3>2, <4>1, <4>2
      <3> QED
        BY <3>1, <3>2
    <2> QED
      BY <1>4, <2>1 DEF GuardsFollow
  <1>13. CleanFresh(p)'
    BY <1>5 DEF CleanFresh
  <1>14. PeeksLast(p)'
    <2>1. ASSUME NEW j \in peeked'[p]
          PROVE  \E m \in 1..n : /\ s[m].row = j /\ s[m].kind = "peek"
                                 /\ \A l \in (m + 1)..n : s[l].row # j
      <3>1. CASE j = i
        <4>1. n \in 1..n /\ (n + 1)..n = {}
          BY <1>3
        <4> QED
          BY <1>2, <3>1, <4>1
      <3>2. CASE j # i
        <4>1. j \in peeked[p]
          BY <1>6, <2>1, <3>2
        <4>2. PICK m \in 1..(n - 1) : /\ s[m].row = j /\ s[m].kind = "peek"
                                      /\ \A l \in (m + 1)..(n - 1) : s[l].row # j
          BY <1>1, <1>3, <4>1 DEF Follows, PeeksLast
        <4>3. \A l \in (m + 1)..n : l = n \/ l \in (m + 1)..(n - 1)
          BY <1>3
        <4>4. \A l \in (m + 1)..n : s[l].row # j
          BY <1>2, <3>2, <4>2, <4>3
        <4>5. m \in 1..n
          BY <1>3
        <4> QED
          BY <4>2, <4>4, <4>5
      <3> QED
        BY <3>1, <3>2
    <2> QED
      BY <1>4, <2>1 DEF PeeksLast
  <1> QED
    BY <1>5, <1>10, <1>11, <1>12, <1>13, <1>14 DEF Follows

LEMMA ReadFollows ==
    ASSUME TypeOK, NEW p \in Workers, Follows(p), ReadRow(p)
    PROVE  Follows(p)'
  <1>1. /\ pc[p] = "read" /\ pc'[p] = "diff" /\ Made(p)' = Made(p)
        /\ script' = script /\ pos' = pos /\ holder' = holder /\ draft' = draft
        /\ draftNet' = draftNet /\ peeked' = peeked /\ Committed' = Committed
        /\ touched'[p] = IF Target(p) \in peeked[p] THEN touched[p] ELSE Refreshed(p, Target(p))
    BY DEF ReadRow, TypeOK, Made, Committed, data, drafts
  <1>2. \A j : j \notin touched'[p] =>
            j \notin touched[p] \/ (j = Target(p) /\ j \notin peeked[p] /\ holder[j] # p)
    BY <1>1 DEF Refreshed
  <1>3. UnheldOnlyRead(p)' /\ PeeksLast(p)'
    BY <1>1 DEF Follows, UnheldOnlyRead, PeeksLast
  <1>4. DraftsFollow(p)'
    BY <1>1, <1>2 DEF Follows, DraftsFollow
  <1>5. GuardsFollow(p)'
    <2> QED
      BY <1>1, <1>2 DEF Follows, GuardsFollow, UnheldOnlyRead
  <1> QED
    BY <1>1, <1>3, <1>4, <1>5 DEF Follows, CleanFresh

LEMMA DiffFollows ==
    ASSUME TypeOK, NEW p \in Workers, Follows(p), DiffRow(p)
    PROVE  Follows(p)'
  <1>1. /\ pc[p] = "diff" /\ pc'[p] = "write" /\ Made(p)' = Made(p)
        /\ script' = script /\ pos' = pos /\ holder' = holder /\ draft' = draft
        /\ draftNet' = draftNet /\ peeked' = peeked /\ Committed' = Committed
        /\ snap' = snap /\ db' = db /\ touched' = touched
        /\ dirty'[p] = Merged(Op(p).kind) \cup
              {c \in Cols : Entity(Op(p), snap[p])[c] # Visible(p, Target(p))[c]}
    BY DEF DiffRow, TypeOK, Made, Committed, data, drafts
  <1>2. UnheldOnlyRead(p)' /\ PeeksLast(p)' /\ DraftsFollow(p)' /\ GuardsFollow(p)'
    BY <1>1 DEF Follows, UnheldOnlyRead, PeeksLast, DraftsFollow, GuardsFollow
  <1>3. CleanFresh(p)'
    <2>1. /\ Op(p)' = Op(p) /\ Target(p)' = Target(p)
          /\ Visible(p, Target(p))' = Visible(p, Target(p))
      BY <1>1 DEF Op, Target, Visible
    <2> QED
      BY <1>1, <2>1 DEF CleanFresh
  <1> QED
    BY <1>1, <1>2, <1>3 DEF Follows

LEMMA LogFollows ==
    ASSUME TypeOK, NEW p \in Workers, Follows(p), Log(p)
    PROVE  Follows(p)'
  <1>1. /\ script' = script /\ holder' = holder /\ draft' = draft /\ draftNet' = draftNet
        /\ peeked' = peeked /\ Committed' = Committed /\ touched' = touched
    BY DEF Log, Committed, data, drafts
  <1>2. /\ Made(p)' = Made(p) /\ pc'[p] \in {"read", "commit"}
        /\ pc'[p] = "commit" => pos'[p] = Len(script'[p])
    BY AdvanceMade DEF Log, Made
  <1>3. UnheldOnlyRead(p)' /\ PeeksLast(p)' /\ DraftsFollow(p)' /\ GuardsFollow(p)'
    BY <1>1, <1>2 DEF Follows, UnheldOnlyRead, PeeksLast, DraftsFollow, GuardsFollow
  <1> QED
    BY <1>2, <1>3 DEF Follows, CleanFresh

LEMMA BeginFollows ==
    ASSUME TypeOK, TypeOK', LedgerInv, NEW p \in Workers, Begin(p)
    PROVE  Follows(p)'
  <1>1. /\ pc'[p] = "read" /\ Made(p)' = 0 /\ peeked'[p] = {} /\ \A i \in Rows : holder'[i] # p
    BY DEF Begin, TypeOK, Made, LedgerInv, IdleIsClean, drafts
  <1> QED
    BY <1>1 DEF Follows, UnheldOnlyRead, PeeksLast, DraftsFollow, GuardsFollow, CleanFresh

LEMMA WriteFollows ==
    ASSUME TypeOK, TypeOK', GuardedSnapshots, LedgerInv, NEW p \in Workers, Follows(p), WriteRow(p)
    PROVE  Follows(p)'
  <1>1. PICK s, n, i, b : s = script[p] /\ n = pos[p] /\ i = Target(p) /\ b = Committed
    OBVIOUS
  <1>2. pc[p] = "write" /\ Op(p) = s[n] /\ s[n].row = i
    BY <1>1 DEF WriteRow, Op, Target
  <1>3. /\ s \in Seq(RowOp) /\ Len(s) \in Nat /\ n \in 1..Len(s) /\ b \in BookType /\ i \in Rows
        /\ Made(p) = n - 1 /\ n - 1 \in 0..Len(s) /\ \A m \in 1..n : s[m].row \in Rows
    BY <1>1, <1>2, MadeType, CommittedType DEF Made
  <1>4. script'[p] = s /\ Committed' = b /\ touched' = touched
    BY <1>1 DEF WriteRow, Committed, data
  <1>5. /\ Made(p)' = n /\ pc'[p] \in {"read", "log", "commit"}
        /\ (pc'[p] = "commit" => pos'[p] = Len(script'[p]))
    <2>1. CASE Op(p).log
      BY <1>1, <2>1 DEF WriteRow, TypeOK, Made
    <2>2. CASE ~Op(p).log
      BY <1>1, <1>2, <2>2, AdvanceMade DEF WriteRow
    <2> QED
      BY <2>1, <2>2
  <1>6. /\ holder'[i] = p /\ peeked'[p] = peeked[p] \ {i}
        /\ \A j \in Rows \ {i} : /\ holder'[j] = holder[j]
                                 /\ draft'[j] = draft[j] /\ draftNet'[j] = draftNet[j]
    BY <1>1, <1>3 DEF WriteRow, TypeOK
  <1>7. /\ draft'[i] = [c \in Cols |-> IF c \in dirty[p] THEN Entity(Op(p), snap[p])[c]
                                                         ELSE Visible(p, i)[c]]
        /\ draftNet'[i] = [c \in Cols |-> VisibleNet(p, i)[c] + MovementDelta(p, c)]
    BY <1>1, <1>3 DEF WriteRow, TypeOK
  <1>8. \A m \in 1..n : m # n => m \in 1..(n - 1)
    BY <1>3
  <1>9. UnheldOnlyRead(p)'
    <2>1. ASSUME NEW m \in 1..n, holder'[s[m].row] # p
          PROVE  s[m].kind = "peek" /\ s[m].row \in peeked'[p]
      <3>1. s[m].row # i /\ m \in 1..(n - 1)
        BY <1>2, <1>6, <1>8, <2>1
      <3>2. holder[s[m].row] # p
        BY <1>3, <1>6, <2>1, <3>1
      <3> QED
        BY <1>1, <1>3, <1>6, <3>1, <3>2 DEF Follows, UnheldOnlyRead
    <2> QED
      BY <1>4, <1>5, <2>1 DEF UnheldOnlyRead
  <1>10. i \notin touched[p] =>
            /\ snap[p] = Visible(p, i)
            /\ Visible(p, i) = Book(b, s, n - 1).rows[i]
            /\ VisibleNet(p, i) = Book(b, s, n - 1).moved[i]
    <2>1. i \notin touched[p] => snap[p] = Visible(p, i)
      BY <1>1, <1>2 DEF LedgerInv, SnapshotsFresh
    <2> QED
      BY <1>1, <1>2, <1>3, <2>1, VisibleFollows
  <1>11. DraftsFollow(p)'
    <2>1. ASSUME i \notin touched[p]
          PROVE  draft'[i] = Book(b, s, n).rows[i] /\ draftNet'[i] = Book(b, s, n).moved[i]
      <3>1. PICK r, m, e, op : r = Visible(p, i) /\ m = VisibleNet(p, i) /\ op = Op(p) /\ e = Entity(op, r)
        OBVIOUS
      <3>2. r \in [Cols -> Int] /\ m \in [Cols -> Int]
        BY <1>3, <3>1, VisibleType
      <3>3. op \in RowOp
        BY <1>2, <3>1, OpType
      <3>4. e \in [Cols -> Int]
        BY <3>1, <3>2, <3>3, EntityType
      <3>5. \A c \in Cols : c \notin Merged(op.kind) => e[c] = r[c]
        BY <3>1, <3>2, <3>3, EntityUnmerged
      <3>6. snap[p] = r /\ Entity(Op(p), snap[p]) = e
        BY <1>10, <2>1, <3>1
      <3>7. /\ Book(b, s, n).rows[i] = e
            /\ Book(b, s, n).moved[i] = Moved(m, op, r)
        BY <1>2, <1>3, <1>10, <2>1, <3>1, BookNext
      <3>8. Moved(m, op, r) = [c \in Cols |-> m[c] + e[c] - r[c]]
        BY <3>1 DEF Moved
      <3>9. draft'[i] = e
        <4>1. \A c \in Cols \ dirty[p] : e[c] = r[c]
          BY <1>1, <1>2, <2>1, <3>1, <3>6 DEF Follows, CleanFresh
        <4>2. draft'[i] = [c \in Cols |-> IF c \in dirty[p] THEN e[c] ELSE r[c]]
          BY <1>7, <3>1, <3>6
        <4>3. \A c \in Cols : (IF c \in dirty[p] THEN e[c] ELSE r[c]) = e[c]
          BY <4>1
        <4> QED
          BY <3>4, <4>2, <4>3
      <3>10. \A c \in Cols : m[c] + MovementDelta(p, c) = m[c] + e[c] - r[c]
        <4> SUFFICES ASSUME NEW c \in Cols
                     PROVE  m[c] + MovementDelta(p, c) = m[c] + e[c] - r[c]
          OBVIOUS
        <4>1. m[c] \in Int /\ e[c] \in Int /\ r[c] \in Int
          BY <3>2, <3>4
        <4>2. CASE c \in Merged(op.kind)
          <5>1. Before(p, c) = r[c]
            <6>1. CASE i \in peeked[p] /\ c = "onHand"
              <7>1. seen[p][i] = Visible(p, i)["onHand"]
                BY <1>3, <2>1, <6>1 DEF LedgerInv, PeeksFresh
              <7> QED
                BY <1>1, <3>1, <6>1, <7>1 DEF Before
            <6>2. CASE ~(i \in peeked[p] /\ c = "onHand")
              BY <1>1, <3>6, <6>2 DEF Before
            <6> QED
              BY <6>1, <6>2
          <5>2. MovementDelta(p, c) = e[c] - r[c]
            BY <3>1, <3>6, <4>2, <5>1 DEF MovementDelta
          <5> QED
            BY <4>1, <5>2
        <4>3. CASE c \notin Merged(op.kind)
          <5>1. MovementDelta(p, c) = 0 /\ e[c] = r[c]
            BY <3>1, <3>5, <4>3 DEF MovementDelta
          <5> QED
            BY <4>1, <5>1
        <4> QED
          BY <4>2, <4>3
      <3>11. draftNet'[i] = [c \in Cols |-> m[c] + e[c] - r[c]]
        <4>1. draftNet'[i] = [c \in Cols |-> m[c] + MovementDelta(p, c)]
          BY <1>7, <3>1
        <4> QED
          BY <3>10, <4>1
      <3> QED
        BY <3>7, <3>8, <3>9, <3>11
    <2>2. ASSUME NEW j \in Rows, j # i, holder[j] = p, j \notin touched[p]
          PROVE  draft[j] = Book(b, s, n).rows[j] /\ draftNet[j] = Book(b, s, n).moved[j]
      <3>1. draft[j] = Book(b, s, n - 1).rows[j] /\ draftNet[j] = Book(b, s, n - 1).moved[j]
        BY <1>1, <1>3, <2>2 DEF Follows, DraftsFollow
      <3> QED
        BY <1>2, <1>3, <2>2, <3>1, BookNext
    <2>3. ASSUME NEW j \in Rows, holder'[j] = p, j \notin touched'[p]
          PROVE  draft'[j] = Book(b, s, n).rows[j] /\ draftNet'[j] = Book(b, s, n).moved[j]
      BY <1>4, <1>6, <2>1, <2>2, <2>3
    <2> QED
      BY <1>4, <1>5, <2>3 DEF DraftsFollow
  <1>12. GuardsFollow(p)'
    <2>1. ASSUME NEW m \in 1..n, s[m].row \notin touched'[p]
          PROVE  Guard(s[m], Book(b, s, m - 1).rows[s[m].row])
      <3>1. CASE m # n
        <4>1. m \in 1..(n - 1) /\ s[m].row \notin touched[p]
          BY <1>4, <1>8, <2>1, <3>1
        <4> QED
          BY <1>1, <1>3, <4>1 DEF Follows, GuardsFollow
      <3>2. CASE m = n
        <4>1. Guard(s[n], snap[p])
          BY <1>2 DEF GuardedSnapshots
        <4>2. snap[p] = Book(b, s, n - 1).rows[i]
          BY <1>2, <1>4, <1>10, <2>1, <3>2
        <4> QED
          BY <1>2, <3>2, <4>1, <4>2
      <3> QED
        BY <3>1, <3>2
    <2> QED
      BY <1>4, <1>5, <2>1 DEF GuardsFollow
  <1>13. CleanFresh(p)'
    BY <1>5 DEF CleanFresh
  <1>14. PeeksLast(p)'
    <2>1. ASSUME NEW j \in peeked'[p]
          PROVE  \E m \in 1..n : /\ s[m].row = j /\ s[m].kind = "peek"
                                 /\ \A l \in (m + 1)..n : s[l].row # j
      <3>1. j \in peeked[p] /\ j # i
        BY <1>6, <2>1
      <3>2. PICK m \in 1..(n - 1) : /\ s[m].row = j /\ s[m].kind = "peek"
                                    /\ \A l \in (m + 1)..(n - 1) : s[l].row # j
        BY <1>1, <1>3, <3>1 DEF Follows, PeeksLast
      <3>3. \A l \in (m + 1)..n : l = n \/ l \in (m + 1)..(n - 1)
        BY <1>3
      <3>4. \A l \in (m + 1)..n : s[l].row # j
        BY <1>2, <3>1, <3>2, <3>3
      <3>5. m \in 1..n
        BY <1>3
      <3> QED
        BY <3>2, <3>4, <3>5
    <2> QED
      BY <1>4, <1>5, <2>1 DEF PeeksLast
  <1> QED
    BY <1>5, <1>9, <1>11, <1>12, <1>13, <1>14 DEF Follows

\* What one request does to its rows leaves the others part-way where they were.
LEMMA OthersFollow ==
    ASSUME TypeOK, TypeOK', NEW p \in Workers, NEW q \in Workers \ {p},
           Begin(p) \/ Proceed(p) \/ Crash(p) \/ DeadlockVictim(p),
           pc[q] # "idle", Follows(q)
    PROVE  Follows(q)'
  <1>1. CASE Begin(p) \/ PeekRow(p) \/ ReadRow(p) \/ DiffRow(p) \/ Log(p)
    <2>1. /\ pc'[q] = pc[q] /\ pos'[q] = pos[q] /\ script'[q] = script[q] /\ snap'[q] = snap[q]
          /\ peeked'[q] = peeked[q] /\ dirty'[q] = dirty[q] /\ touched'[q] = touched[q]
      BY <1>1 DEF Begin, PeekRow, ReadRow, DiffRow, Log, Advance, TypeOK
    <2>2. holder' = holder /\ draft' = draft /\ draftNet' = draftNet /\ db' = db /\ net' = net
      BY <1>1 DEF Begin, PeekRow, ReadRow, DiffRow, Log, data, drafts
    <2> QED
      BY <2>1, <2>2, FollowsFrame
  <1>2. CASE WriteRow(p)
    <2>1. /\ pc'[q] = pc[q] /\ pos'[q] = pos[q] /\ script'[q] = script[q] /\ snap'[q] = snap[q]
          /\ peeked'[q] = peeked[q] /\ dirty'[q] = dirty[q] /\ touched'[q] = touched[q]
      BY <1>2 DEF WriteRow, Advance, TypeOK
    <2>2. db' = db /\ net' = net
      BY <1>2 DEF WriteRow, data
    <2>3. \A i \in Rows : /\ holder'[i] = q <=> holder[i] = q
                          /\ holder[i] = q => draft'[i] = draft[i] /\ draftNet'[i] = draftNet[i]
      BY <1>2, NoOneAssumption DEF WriteRow, TypeOK
    <2> QED
      BY <2>1, <2>2, <2>3, FollowsFrame
  <1>3. CASE Rollback(p)
    <2>1. /\ pc'[q] = pc[q] /\ pos'[q] = pos[q] /\ script'[q] = script[q] /\ snap'[q] = snap[q]
          /\ peeked'[q] = peeked[q] /\ dirty'[q] = dirty[q] /\ touched'[q] = touched[q]
      BY <1>3 DEF Rollback, Finish, TypeOK
    <2>2. db' = db /\ net' = net
      BY <1>3 DEF Rollback, data
    <2>3. \A i \in Rows : /\ holder'[i] = q <=> holder[i] = q
                          /\ holder[i] = q => draft'[i] = draft[i] /\ draftNet'[i] = draftNet[i]
      BY <1>3, NoOneAssumption DEF Rollback, Unlock, TypeOK
    <2> QED
      BY <2>1, <2>2, <2>3, FollowsFrame
  <1>4. CASE Commit(p)
    <2>1. /\ pc'[q] = pc[q] /\ pos'[q] = pos[q] /\ script'[q] = script[q] /\ snap'[q] = snap[q]
          /\ peeked'[q] = peeked[q] /\ dirty'[q] = dirty[q]
          /\ touched'[q] = touched[q] \cup Changed(p)
      BY <1>4 DEF Commit, Finish, TypeOK
    <2>2. \A i \in Rows : /\ holder'[i] = q <=> holder[i] = q
                          /\ holder[i] = q => /\ draft'[i] = draft[i] /\ draftNet'[i] = draftNet[i]
                                              /\ db'[i] = db[i] /\ net'[i] = net[i]
      BY <1>4, NoOneAssumption DEF Commit, Unlock, TypeOK
    <2>3. \A i \in Rows : i \notin touched'[q] => db'[i] = db[i]
      BY <1>4, <2>1 DEF Commit, Changed, Held
    <2> QED
      BY <2>1, <2>2, <2>3, FollowsFrame
  <1> QED
    BY <1>1, <1>2, <1>3, <1>4 DEF Proceed, Reject, Crash, DeadlockVictim

LEMMA FollowStep ==
    TypeOK /\ TypeOK' /\ NaturalRows /\ LedgerInv /\ RequestsFollow /\ [Next]_vars => RequestsFollow'
  <1> SUFFICES ASSUME TypeOK, TypeOK', NaturalRows, LedgerInv, RequestsFollow, [Next]_vars
               PROVE  RequestsFollow'
    OBVIOUS
  <1>1. ASSUME NEW p \in Workers, Begin(p) \/ Proceed(p) \/ Crash(p) \/ DeadlockVictim(p)
        PROVE  RequestsFollow'
    <2>1. pc'[p] # "idle" => Follows(p)'
      <3>1. CASE Begin(p)
        BY <3>1, BeginFollows
      <3>2. CASE PeekRow(p) \/ ReadRow(p) \/ DiffRow(p) \/ WriteRow(p) \/ Log(p)
        <4>1. Follows(p)
          BY <3>2 DEF RequestsFollow, PeekRow, ReadRow, DiffRow, WriteRow, Log
        <4> QED
          BY <3>2, <4>1, PeekFollows, ReadFollows, DiffFollows, WriteFollows, LogFollows DEF NaturalRows
      <3>3. CASE Commit(p) \/ Rollback(p)
        BY <3>3 DEF Commit, Rollback, Finish, TypeOK
      <3> QED
        BY <1>1, <3>1, <3>2, <3>3 DEF Proceed, Reject, Crash, DeadlockVictim
    <2>2. \A q \in Workers \ {p} : pc'[q] = pc[q]
      <3>1. CASE Begin(p) \/ PeekRow(p) \/ ReadRow(p) \/ DiffRow(p)
        BY <3>1 DEF Begin, PeekRow, ReadRow, DiffRow, Advance, TypeOK
      <3>2. CASE WriteRow(p) \/ Log(p)
        BY <3>2 DEF WriteRow, Log, Advance, TypeOK
      <3>3. CASE Commit(p) \/ Rollback(p)
        BY <3>3 DEF Commit, Rollback, Finish, TypeOK
      <3> QED
        BY <1>1, <3>1, <3>2, <3>3 DEF Proceed, Reject, Crash, DeadlockVictim
    <2>3. ASSUME NEW q \in Workers \ {p}, pc'[q] # "idle" PROVE Follows(q)'
      BY <1>1, <2>2, <2>3, OthersFollow DEF RequestsFollow
    <2> QED
      BY <2>1, <2>3 DEF RequestsFollow
  <1>2. CASE Done \/ UNCHANGED vars
    <2>1. UNCHANGED vars
      BY <1>2 DEF Done
    <2>2. ASSUME NEW q \in Workers, pc'[q] # "idle" PROVE Follows(q)'
      <3>1. /\ pc'[q] = pc[q] /\ pos'[q] = pos[q] /\ script'[q] = script[q] /\ snap'[q] = snap[q]
            /\ peeked'[q] = peeked[q] /\ dirty'[q] = dirty[q] /\ touched'[q] = touched[q]
            /\ holder' = holder /\ draft' = draft /\ draftNet' = draftNet /\ db' = db /\ net' = net
        BY <2>1 DEF vars, data, drafts, request
      <3>2. Follows(q)
        BY <2>2, <3>1 DEF RequestsFollow
      <3> QED
        BY <2>2, <3>1, <3>2, FollowsFrame
    <2> QED
      BY <2>2 DEF RequestsFollow
  <1> QED
    BY <1>1, <1>2 DEF Next

LEMMA FollowInit == Init => RequestsFollow
  BY DEF Init, RequestsFollow

\* A commit of rows nobody else changed meanwhile leaves the book its script makes.
LEMMA UnstaleBook ==
    ASSUME TypeOK, RequestsFollow, NEW p \in Workers, Commit(p), Held(p) \cap touched[p] = {}
    PROVE  /\ Book(Committed, script[p], Len(script[p])).ok
           /\ db' = Book(Committed, script[p], Len(script[p])).rows
           /\ net' = Book(Committed, script[p], Len(script[p])).moved
  <1>1. PICK s, b, o : s = script[p] /\ b = Committed /\ o = Book(b, s, Len(s))
    OBVIOUS
  <1>2. /\ pc[p] = "commit" /\ Follows(p)
    BY DEF Commit, RequestsFollow
  <1>3. /\ s \in Seq(RowOp) /\ Len(s) \in Nat /\ Len(s) \in 0..Len(s) /\ b \in BookType
        /\ Made(p) = Len(s) /\ PeeksFollowed(s) /\ DOMAIN s = 1..Len(s)
        /\ \A m \in 1..Len(s) : s[m].row \in Rows
    BY <1>1, <1>2, MadeType, CommittedType DEF Made, Follows
  <1>4. o \in BookType
    BY <1>1, <1>3, BookTyped
  <1>5. peeked[p] = {}
    <2> SUFFICES ASSUME NEW i \in peeked[p] PROVE FALSE
      OBVIOUS
    <2>1. PICK k \in 1..Len(s) : /\ s[k].row = i /\ s[k].kind = "peek"
                                 /\ \A j \in (k + 1)..Len(s) : s[j].row # i
      BY <1>1, <1>2, <1>3 DEF Follows, PeeksLast
    <2>2. k \in DOMAIN s /\ s[k].kind = "peek"
      BY <1>3, <2>1
    <2>3. \E m \in (k + 1)..Len(s) : s[m].row = s[k].row
      BY <1>3, <2>2 DEF PeeksFollowed
    <2> QED
      BY <2>1, <2>3
  <1>6. \A m \in 1..Len(s) : holder[s[m].row] = p /\ s[m].row \notin touched[p]
    BY <1>1, <1>2, <1>3, <1>5 DEF Follows, UnheldOnlyRead, Held
  <1>7. o.ok
    <2>1. b.ok
      BY <1>1 DEF Committed
    <2>2. \A m \in 1..Len(s) : Guard(s[m], Book(b, s, m - 1).rows[s[m].row])
      BY <1>1, <1>2, <1>3, <1>6 DEF Follows, GuardsFollow
    <2> QED
      BY <1>1, <1>3, <2>1, <2>2, GuardsHold
  <1>8. ASSUME NEW i \in Rows PROVE db'[i] = o.rows[i] /\ net'[i] = o.moved[i]
    <2>1. CASE holder[i] = p
      <3>1. i \notin touched[p]
        BY <2>1 DEF Held
      <3>2. draft[i] = o.rows[i] /\ draftNet[i] = o.moved[i]
        BY <1>1, <1>2, <1>3, <2>1, <3>1 DEF Follows, DraftsFollow
      <3> QED
        BY <2>1, <3>2 DEF Commit
    <2>2. CASE holder[i] # p
      <3>1. \A m \in 1..Len(s) : s[m].row = i => s[m].kind = "peek"
        BY <1>6, <2>2
      <3>2. o.rows[i] = b.rows[i] /\ o.moved[i] = b.moved[i]
        BY <1>1, <1>3, <3>1, OnlyRead
      <3> QED
        BY <1>1, <2>2, <3>2 DEF Commit, Committed
    <2> QED
      BY <2>1, <2>2
  <1>9. db' = o.rows /\ net' = o.moved
    <2>1. db' = [i \in Rows |-> db'[i]] /\ net' = [i \in Rows |-> net'[i]]
      BY DEF Commit
    <2>2. o.rows = [i \in Rows |-> o.rows[i]] /\ o.moved = [i \in Rows |-> o.moved[i]]
      BY <1>4 DEF BookType
    <2> QED
      BY <1>8, <2>1, <2>2
  <1> QED
    BY <1>1, <1>7, <1>9

LEMMA UnstaleServes ==
    ASSUME TypeOK, RequestsFollow, NEW p \in Workers, Commit(p), Held(p) \cap touched[p] = {}
    PROVE  Atomic!Serve(script[p])
  <1>1. PICK s, b, o : s = script[p] /\ b = Committed /\ o = Book(b, s, Len(s))
    OBVIOUS
  <1>2. s \in Seq(RowOp)
    BY <1>1, MadeType DEF Commit
  <1>3. o.ok /\ db' = o.rows /\ net' = o.moved
    BY <1>1, UnstaleBook
  <1>4. Atomic!Outcome(s) = o
    <2>1. Atomic!Outcome(s) = Atomic!FoldLeft(Atomic!Perform, b, s)
      BY <1>1 DEF Atomic!Outcome, Committed
    <2>2. Atomic!FoldLeft(Atomic!Perform, b, s) = Book(b, s, Len(s))
      BY <1>2, BookOutcome
    <2> QED
      BY <1>1, <2>1, <2>2, Zenon
  <1> QED
    BY <1>1, <1>3, <1>4 DEF Atomic!Serve

\* Whatever runs at the same time, a request that commits without having missed
\* a change to one of its rows leaves the rows and the movements exactly as if
\* its whole script had run at that moment, all its checks holding on the way.
THEOREM CommitsAreAtomic == Spec => UnstaleCommitIsAtomic
  <1>1. TypeOK /\ RequestsFollow /\ [Next]_vars =>
            [\A p \in Workers :
                Commit(p) /\ Held(p) \cap touched[p] = {} => Atomic!Serve(script[p])]_vars
    BY UnstaleServes
  <1> QED
    BY <1>1, TypeInit, TypeStep, NaturalInit, NaturalStep, LedgerInit, LedgerStep,
       FollowInit, FollowStep, PTL DEF Spec, UnstaleCommitIsAtomic

-----------------------------------------------------------------------------
(* The ledger implements the atomic one.                                   *)

LEMMA AtomicInit == Init => Atomic!Init
  BY DEF Init, Atomic!Init, ZeroRow, Atomic!Cols, Cols

\* Only COMMIT changes what the abstract ledger sees, and it serves a script
\* when it spoils no row.
LEMMA AtomicStep ==
    TypeOK /\ RequestsFollow /\ [Next]_vars /\ spoiled' = {} => [Atomic!Next]_<<db, net>>
  <1> SUFFICES ASSUME TypeOK, RequestsFollow, [Next]_vars, spoiled' = {}
               PROVE  Atomic!Next \/ (db' = db /\ net' = net)
    OBVIOUS
  <1>1. ASSUME NEW p \in Workers, Commit(p) PROVE Atomic!Next
    <2>1. Held(p) \cap touched[p] = {}
      BY <1>1 DEF Commit
    <2>2. Atomic!Serve(script[p])
      BY <1>1, <2>1, UnstaleServes
    <2>3. script[p] \in Requests
      BY <1>1 DEF Commit, TypeOK
    <2> QED
      BY <2>2, <2>3 DEF Atomic!Next
  <1>2. ASSUME NEW p \in Workers,
               Begin(p) \/ PeekRow(p) \/ ReadRow(p) \/ DiffRow(p) \/ WriteRow(p) \/ Log(p) \/ Rollback(p)
        PROVE  db' = db /\ net' = net
    BY <1>2 DEF Begin, PeekRow, ReadRow, DiffRow, WriteRow, Log, Rollback, data
  <1>3. CASE Done \/ UNCHANGED vars
    BY <1>3 DEF Done, vars, data
  <1> QED
    BY <1>1, <1>2, <1>3 DEF Next, Proceed, Reject, Crash, DeadlockVictim

\* However many requests run, and whichever of them fail, crash or deadlock, a
\* history in which no update was lost is one of the atomic ledger: each
\* request took effect at one moment, entirely or not at all.
THEOREM LossFreeIsAtomic == Spec /\ [](spoiled = {}) => AtomicSpec
  <1>1. TypeOK /\ RequestsFollow /\ [Next]_vars /\ (spoiled = {})' => [Atomic!Next]_<<db, net>>
    BY AtomicStep
  <1> QED
    BY <1>1, AtomicInit, TypeInit, TypeStep, NaturalInit, NaturalStep, LedgerInit, LedgerStep,
       FollowInit, FollowStep, PTL DEF Spec, AtomicSpec, Atomic!Spec

\* Only another request can touch the rows that a request has read.
Sole == \A p, q \in Workers : p = q
Unshared == spoiled = {} /\ \A p \in Workers : touched[p] = {}

LEMMA UnsharedStep == Sole /\ TypeOK /\ Unshared /\ [Next]_vars => Unshared'
  <1> SUFFICES ASSUME Sole, TypeOK, Unshared, [Next]_vars PROVE Unshared'
    OBVIOUS
  <1>1. ASSUME NEW p \in Workers,
               Begin(p) \/ PeekRow(p) \/ ReadRow(p) \/ DiffRow(p) \/ WriteRow(p) \/ Log(p) \/ Rollback(p)
        PROVE  Unshared'
    <2>1. spoiled' = spoiled
      BY <1>1 DEF Begin, PeekRow, ReadRow, DiffRow, WriteRow, Log, Rollback, data
    <2>2. \A q \in Workers : touched'[q] = {}
      <3>1. touched \in [Workers -> SUBSET Rows] /\ \A q \in Workers : touched[q] = {}
        BY DEF TypeOK, Unshared
      <3>2. Refreshed(p, Target(p)) = {}
        BY <3>1 DEF Refreshed
      <3>3. CASE PeekRow(p) \/ ReadRow(p)
        BY <3>1, <3>2, <3>3 DEF PeekRow, ReadRow
      <3>4. CASE Begin(p) \/ DiffRow(p) \/ WriteRow(p) \/ Log(p) \/ Rollback(p)
        BY <3>1, <3>4 DEF Begin, DiffRow, WriteRow, Log, Rollback
      <3> QED
        BY <1>1, <3>3, <3>4
    <2> QED
      BY <2>1, <2>2 DEF Unshared
  <1>2. ASSUME NEW p \in Workers, Commit(p) PROVE Unshared'
    BY <1>2 DEF Commit, Unshared, Sole
  <1>3. CASE Done \/ UNCHANGED vars
    BY <1>3 DEF Done, vars, data, Unshared
  <1> QED
    BY <1>1, <1>2, <1>3 DEF Next, Proceed, Reject, Crash, DeadlockVictim

\* One request at a time: no update can be lost, so the ledger implements the
\* atomic one without a condition.
THEOREM SerialIsAtomic == Sole => (Spec => AtomicSpec)
  <1>1. Init => Unshared
    BY DEF Init, Unshared
  <1>2. Unshared => spoiled = {}
    BY DEF Unshared
  <1>3. Sole => Sole'
    BY DEF Sole
  <1>4. Sole /\ Spec => [](spoiled = {})
    BY <1>1, <1>2, <1>3, TypeInit, TypeStep, UnsharedStep, PTL DEF Spec
  <1> QED
    BY <1>4, LossFreeIsAtomic

-----------------------------------------------------------------------------
(* Sums over a finite set, which are functions on its subsets, defined by  *)
(* recursion: they exist and do not depend on the order of the elements.   *)

SumOver(S, f) == SumFunctionOnSet(f, S)

Pick(s) == CHOOSE x \in s : TRUE

Unfolds(g, f, S) ==
    g = [s \in SUBSET S |-> IF s = {} THEN 0 ELSE f[Pick(s)] + g[s \ {Pick(s)}]]

\* Only the values on the set count.
LEMMA SumUnique ==
    ASSUME NEW S, IsFiniteSet(S), NEW T, NEW f, NEW e, NEW g, NEW h,
           Unfolds(g, f, S), Unfolds(h, e, T),
           NEW U, U \subseteq S, U \subseteq T, \A x \in U : f[x] = e[x]
    PROVE  g[U] = h[U]
  <1> DEFINE Bad == {s \in SUBSET U : g[s] # h[s]}
  <1> SUFFICES ASSUME Bad # {} PROVE FALSE
    OBVIOUS
  <1>1. PICK s \in Bad : \A r \in SUBSET s : r # s => r \notin Bad
    <2>1. IsFiniteSet(U) /\ Bad \in SUBSET SUBSET U
      BY FS_Subset
    <2> HIDE DEF Bad
    <2> QED
      BY <2>1, LeastSubset
  <1>2. /\ g[s] = IF s = {} THEN 0 ELSE f[Pick(s)] + g[s \ {Pick(s)}]
        /\ h[s] = IF s = {} THEN 0 ELSE e[Pick(s)] + h[s \ {Pick(s)}]
    BY <1>1 DEF Unfolds
  <1>3. s # {} => Pick(s) \in s
    BY DEF Pick
  <1> QED
    BY <1>1, <1>2, <1>3

LEMMA SumUnfolds ==
    ASSUME NEW S, IsFiniteSet(S), NEW f
    PROVE  Unfolds(CHOOSE g : Unfolds(g, f, S), f, S)
  <1> DEFINE G(s) == CHOOSE g : Unfolds(g, f, s)
             V(s) == G(s)[s]
             Bad == {s \in SUBSET S : ~Unfolds(G(s), f, s)}
  <1> SUFFICES ASSUME Bad # {} PROVE FALSE
    OBVIOUS
  <1>1. PICK s \in Bad : \A r \in SUBSET s : r # s => r \notin Bad
    <2>1. Bad \in SUBSET SUBSET S
      OBVIOUS
    <2> HIDE DEF Bad
    <2> QED
      BY <2>1, LeastSubset
  <1> DEFINE h == [r \in SUBSET s |-> IF r = {} THEN 0 ELSE f[Pick(r)] + V(r \ {Pick(r)})]
  <1>2. ASSUME NEW r \in SUBSET s, r # s PROVE V(r) = h[r]
    <2>0. Unfolds(G(r), f, r) /\ IsFiniteSet(r)
      BY <1>1, <1>2, FS_Subset
    <2>1. V(r) = IF r = {} THEN 0 ELSE f[Pick(r)] + G(r)[r \ {Pick(r)}]
      BY <2>0 DEF Unfolds
    <2>2. CASE r # {}
      <3> DEFINE q == r \ {Pick(r)}
      <3>1. Unfolds(G(q), f, q) /\ q \subseteq r
        BY <1>1, <1>2, <2>2 DEF Pick
      <3> HIDE DEF G
      <3>2. G(r)[q] = G(q)[q]
        BY <2>0, <3>1, SumUnique
      <3> QED
        BY <2>1, <2>2, <3>2
    <2> QED
      BY <2>1, <2>2
  <1>3. \A r \in SUBSET s : r # {} => r \ {Pick(r)} \in SUBSET s /\ r \ {Pick(r)} # s
    BY DEF Pick
  <1>4. h = [r \in SUBSET s |-> IF r = {} THEN 0 ELSE f[Pick(r)] + h[r \ {Pick(r)}]]
    <2> HIDE DEF V
    <2>1. \A r \in SUBSET s : h[r] = IF r = {} THEN 0 ELSE f[Pick(r)] + h[r \ {Pick(r)}]
      <3>1. \A r \in SUBSET s : h[r] = IF r = {} THEN 0 ELSE f[Pick(r)] + V(r \ {Pick(r)})
        OBVIOUS
      <3> HIDE DEF h
      <3> QED
        BY <1>2, <1>3, <3>1
    <2>2. h = [r \in SUBSET s |-> h[r]]
      OBVIOUS
    <2> HIDE DEF h
    <2> QED
      BY <2>1, <2>2
  <1>5. Unfolds(G(s), f, s)
    <2> HIDE DEF h
    <2> QED
      BY <1>4 DEF Unfolds
  <1> QED
    BY <1>1, <1>5

LEMMA SumSame ==
    ASSUME NEW S, IsFiniteSet(S), NEW f, NEW e, \A x \in S : f[x] = e[x]
    PROVE  /\ SumOver(S, f) = SumOver(S, e)
           /\ SumOver(S, f) = IF S = {} THEN 0 ELSE f[Pick(S)] + SumOver(S \ {Pick(S)}, f)
  <1> DEFINE G(s, d) == CHOOSE g : Unfolds(g, d, s)
             q == S \ {Pick(S)}
  <1>1. IsFiniteSet(q) /\ q \subseteq S
    BY FS_Subset
  <1>2. \A s, d : SumOver(s, d) = G(s, d)[s]
    BY DEF SumOver, SumFunctionOnSet, FoldFunctionOnSet, MapThenFoldSet, Unfolds, Pick
  <1>3. Unfolds(G(S, f), f, S) /\ Unfolds(G(S, e), e, S) /\ Unfolds(G(q, f), f, q)
    BY <1>1, SumUnfolds
  <1> HIDE DEF G
  <1>4. G(S, f)[S] = IF S = {} THEN 0 ELSE f[Pick(S)] + G(S, f)[q]
    BY <1>3 DEF Unfolds
  <1> HIDE DEF q
  <1>5. G(S, f)[q] = G(q, f)[q] /\ G(S, f)[S] = G(S, e)[S]
    BY <1>1, <1>3, SumUnique
  <1> QED
    BY <1>2, <1>4, <1>5 DEF q

\* A sum of integers is one, and may be unfolded at any element.
LEMMA SumRemove ==
    ASSUME NEW S, IsFiniteSet(S), NEW f, \A x \in S : f[x] \in Int
    PROVE  /\ SumOver(S, f) \in Int
           /\ \A x \in S : SumOver(S, f) = f[x] + SumOver(S \ {x}, f)
  <1> DEFINE Good(s) == /\ SumOver(s, f) \in Int
                        /\ \A x \in s : SumOver(s, f) = f[x] + SumOver(s \ {x}, f)
             Bad == {s \in SUBSET S : ~Good(s)}
  <1> SUFFICES ASSUME Bad # {} PROVE FALSE
    OBVIOUS
  <1>1. PICK s \in Bad : \A r \in SUBSET s : r # s => r \notin Bad
    <2>1. Bad \in SUBSET SUBSET S
      OBVIOUS
    <2> HIDE DEF Bad
    <2> QED
      BY <2>1, LeastSubset
  <1>2. s \subseteq S /\ ~Good(s) /\ \A r \in SUBSET s : r # s => Good(r)
    BY <1>1
  <1> DEFINE p == Pick(s)
  <1>3. SumOver(s, f) = IF s = {} THEN 0 ELSE f[p] + SumOver(s \ {p}, f)
    BY <1>2, FS_Subset, SumSame
  <1> HIDE DEF Bad
  <1>4. CASE s # {}
    <2>1. p \in s
      BY <1>4 DEF Pick
    <2> HIDE DEF p
    <2>2. Good(s \ {p})
      BY <1>2, <2>1
    <2>3. ASSUME NEW x \in s, x # p PROVE SumOver(s, f) = f[x] + SumOver(s \ {x}, f)
      <3>1. /\ SumOver(s \ {p}, f) = f[x] + SumOver((s \ {p}) \ {x}, f)
            /\ SumOver(s \ {x}, f) = f[p] + SumOver((s \ {x}) \ {p}, f)
            /\ SumOver((s \ {p}) \ {x}, f) \in Int
        BY <1>2, <2>1, <2>3
      <3>2. (s \ {p}) \ {x} = (s \ {x}) \ {p} /\ f[x] \in Int /\ f[p] \in Int
        BY <1>2, <2>1
      <3> HIDE DEF Good
      <3> QED
        BY <1>3, <1>4, <3>1, <3>2
    <2>4. \A x \in s : SumOver(s, f) = f[x] + SumOver(s \ {x}, f)
      BY <1>3, <1>4, <2>3
    <2> QED
      BY <1>2, <1>3, <1>4, <2>1, <2>2, <2>4
  <1> QED
    BY <1>2, <1>3, <1>4

\* Changing one term changes the sum by as much.
LEMMA SumChange ==
    ASSUME NEW S, IsFiniteSet(S), NEW f, NEW g, NEW x \in S, g[x] \in Int,
           \A y \in S : f[y] \in Int, \A y \in S \ {x} : g[y] = f[y]
    PROVE  SumOver(S, g) = SumOver(S, f) + g[x] - f[x]
  <1>1. IsFiniteSet(S \ {x})
    BY FS_Subset
  <1>2. /\ SumOver(S, g) = g[x] + SumOver(S \ {x}, g)
        /\ SumOver(S, f) = f[x] + SumOver(S \ {x}, f)
        /\ SumOver(S \ {x}, f) \in Int
    BY <1>1, SumRemove
  <1>3. SumOver(S \ {x}, g) = SumOver(S \ {x}, f)
    BY <1>1, SumSame
  <1> QED
    BY <1>2, <1>3

-----------------------------------------------------------------------------
(* Moving stock conserves it.                                              *)

\* The operations of a script change the stock on hand by what they add less
\* what they take.
LEMMA BookTotal ==
    ASSUME NEW s \in Seq(RowOp), NEW b \in BookType, OnlyMoves(s)
    PROVE  TotalOnHand(Book(b, s, Len(s)).rows) = TotalOnHand(b.rows)
  <1>1. PICK F : F = [k \in DOMAIN s |-> StockMoved(s[k])]
    OBVIOUS
  <1>2. /\ Len(s) \in Nat /\ DOMAIN s = 1..Len(s) /\ IsFiniteSet(1..Len(s))
        /\ \A k \in 1..Len(s) : s[k] \in RowOp /\ IsFiniteSet(1..k)
    BY FS_Interval
  <1>3. \A k \in 1..Len(s) : F[k] = StockMoved(s[k]) /\ F[k] \in Int
    <2> SUFFICES ASSUME NEW k \in 1..Len(s) PROVE StockMoved(s[k]) \in Int
      BY <1>1, <1>2
    <2>1. PICK op \in RowOp : op = s[k]
      BY <1>2
    <2>2. StockMoved(op) \in Int
      BY DEF StockMoved, RowOp
    <2> QED
      BY <2>1, <2>2
  <1> DEFINE P == {k \in 0..Len(s) :
                     TotalOnHand(Book(b, s, k).rows) = TotalOnHand(b.rows) + SumOver(1..k, F)}
  <1>4. TotalOnHand(b.rows) \in Int
    <2>1. PICK f : f = [i \in Rows |-> b.rows[i]["onHand"]]
      OBVIOUS
    <2>2. \A i \in Rows : f[i] \in Int
      BY <2>1 DEF BookType, Cols
    <2>3. SumOver(Rows, f) \in Int
      BY <2>2, FiniteAssumption, SumRemove
    <2> QED
      BY <2>1, <2>3 DEF TotalOnHand, SumOver
  <1>5. 0 \in P
    <2>1. SumOver(1..0, F) = 0
      <3>1. 1..0 = {} /\ IsFiniteSet({})
        BY FS_EmptySet
      <3>2. \A x \in {} : F[x] = F[x]
        OBVIOUS
      <3>3. SumOver({}, F) = 0
        BY <3>1, <3>2, SumSame
      <3> QED
        BY <3>1, <3>3
    <2>2. Book(b, s, 0) = b
      BY BookSteps
    <2> QED
      BY <1>2, <1>4, <2>1, <2>2
  <1>6. ASSUME NEW k \in 0..(Len(s) - 1), k \in P PROVE k + 1 \in P
    <2>1. PICK n : n = k + 1 /\ n \in 1..Len(s) /\ n \in 0..Len(s) /\ n - 1 = k /\ k \in 0..Len(s)
      BY <1>2
    <2>2. PICK o, e, op, i : /\ o = Book(b, s, n - 1).rows /\ e = Book(b, s, n).rows
                             /\ op = s[n] /\ i = op.row
      OBVIOUS
    <2>3. /\ o \in [Rows -> [Cols -> Int]] /\ e \in [Rows -> [Cols -> Int]]
          /\ op \in RowOp /\ op.kind # "adjust" /\ i \in Rows
      <3>1. Book(b, s, n - 1) \in BookType /\ Book(b, s, n) \in BookType
        BY <2>1, BookTyped
      <3>2. op \in RowOp /\ op.kind # "adjust"
        BY <1>2, <2>1, <2>2 DEF OnlyMoves
      <3>3. i \in Rows
        BY <2>2, <3>2 DEF RowOp
      <3> QED
        BY <2>2, <3>1, <3>2, <3>3 DEF BookType
    <2>4. e[i] = Entity(op, o[i]) /\ \A j \in Rows \ {i} : e[j] = o[j]
      BY <2>1, <2>2, <2>3, BookNext
    <2>5. e[i]["onHand"] = o[i]["onHand"] + StockMoved(op)
      <3>1. PICK r \in [Cols -> Int] : r = o[i]
        BY <2>3
      <3>2. Entity(op, r)["onHand"] = r["onHand"] + StockMoved(op)
        <4>1. op.kind \in Kinds /\ op.kind # "adjust" /\ op.qty \in Nat /\ r["onHand"] \in Int
          BY <2>3 DEF RowOp, Cols
        <4>2. CASE op.kind = "add"
          <5>1. Entity(op, r) = [r EXCEPT !["onHand"] = @ + op.qty] /\ StockMoved(op) = op.qty
            BY <4>2 DEF Entity, StockMoved
          <5> QED
            BY <4>1, <5>1 DEF Cols
        <4>3. CASE op.kind \in {"remove", "deduct"}
          <5>1. Entity(op, r) = [r EXCEPT !["onHand"] = @ - op.qty] /\ StockMoved(op) = -op.qty
            BY <4>3 DEF Entity, StockMoved
          <5> QED
            BY <4>1, <5>1 DEF Cols
        <4>4. CASE op.kind \notin {"add", "remove", "deduct"}
          <5>1. Entity(op, r)["onHand"] = r["onHand"]
            BY <4>1, <4>4 DEF Entity, Kinds, Cols
          <5>2. StockMoved(op) = 0
            BY <4>4 DEF StockMoved
          <5> QED
            BY <4>1, <5>1, <5>2
        <4> QED
          BY <4>2, <4>3, <4>4
      <3> QED
        BY <2>4, <3>1, <3>2
    <2>6. PICK f, g : f = [j \in Rows |-> o[j]["onHand"]] /\ g = [j \in Rows |-> e[j]["onHand"]]
      OBVIOUS
    <2>7. \A j \in Rows : f[j] \in Int /\ g[j] \in Int /\ (j # i => g[j] = f[j])
      BY <2>3, <2>4, <2>6 DEF Cols
    <2>8. SumOver(Rows, g) = SumOver(Rows, f) + g[i] - f[i]
      <3>1. IsFiniteSet(Rows) /\ i \in Rows /\ g[i] \in Int
        BY <2>3, <2>7, FiniteAssumption
      <3>2. (\A y \in Rows : f[y] \in Int) /\ (\A y \in Rows \ {i} : g[y] = f[y])
        BY <2>7
      <3> HIDE DEF P
      <3> QED
        BY <3>1, <3>2, SumChange
    <2>9. g[i] - f[i] = F[n]
      <3>1. F[n] = StockMoved(op) /\ F[n] \in Int
        BY <1>3, <2>1, <2>2
      <3>2. f[i] = o[i]["onHand"] /\ g[i] = e[i]["onHand"] /\ f[i] \in Int
        BY <2>3, <2>6, <2>7
      <3> QED
        BY <2>5, <3>1, <3>2
    <2>10. SumOver(1..n, F) = F[n] + SumOver(1..k, F) /\ SumOver(1..k, F) \in Int
      <3>1. n \in 1..n /\ IsFiniteSet(1..n) /\ \A x \in 1..n : F[x] \in Int
        BY <1>2, <1>3, <2>1
      <3>2. (1..n) \ {n} = 1..k
        BY <2>1
      <3>3. SumOver(1..n, F) = F[n] + SumOver((1..n) \ {n}, F)
        BY <3>1, SumRemove
      <3>4. IsFiniteSet(1..k) /\ \A x \in 1..k : F[x] \in Int
        BY <1>3, <2>1, FS_Interval
      <3>5. SumOver(1..k, F) \in Int
        BY <3>4, SumRemove
      <3> QED
        BY <3>2, <3>3, <3>5
    <2>11. SumOver(Rows, f) = TotalOnHand(b.rows) + SumOver(1..k, F)
      <3>1. SumOver(Rows, f) = TotalOnHand(o)
        BY <2>6 DEF TotalOnHand, SumOver
      <3>2. TotalOnHand(Book(b, s, k).rows) = TotalOnHand(b.rows) + SumOver(1..k, F)
        BY <1>6
      <3> QED
        BY <2>1, <2>2, <3>1, <3>2
    <2>12. SumOver(Rows, g) = TotalOnHand(e)
      BY <2>6 DEF TotalOnHand, SumOver
    <2>13. PICK A, B, C, d \in Int : A = TotalOnHand(b.rows) /\ B = SumOver(1..k, F)
                                   /\ d = F[n] /\ C = g[i]
      BY <1>3, <1>4, <2>1, <2>3, <2>7, <2>10
    <2>14. TotalOnHand(e) = A + B + d
      BY <2>3, <2>7, <2>8, <2>9, <2>11, <2>12, <2>13
    <2>15. TotalOnHand(e) = A + SumOver(1..n, F)
      BY <2>10, <2>13, <2>14
    <2> QED
      BY <2>1, <2>2, <2>13, <2>15
  <1> HIDE DEF P
  <1>7. \A k \in 0..Len(s) : k \in P
    BY <1>2, <1>5, <1>6, UpTo
  <1>8. Len(s) \in P
    BY <1>2, <1>7
  <1>9. SumOver(1..Len(s), F) = 0
    BY <1>1, <1>2 DEF OnlyMoves, SumOver
  <1> QED
    BY <1>4, <1>8, <1>9 DEF P

LEMMA ConserveStep ==
    (\A s \in Requests : OnlyMoves(s)) /\ TypeOK /\ RequestsFollow /\ TransfersConserveStock
      /\ [Next]_vars => TransfersConserveStock'
  <1> SUFFICES ASSUME \A s \in Requests : OnlyMoves(s), TypeOK, RequestsFollow,
                      TransfersConserveStock, [Next]_vars, spoiled' = {}
               PROVE  TotalOnHand(db') = TotalOnHand(Opening)
    BY DEF TransfersConserveStock, TotalOnHand
  <1>1. ASSUME NEW p \in Workers, Commit(p) PROVE TotalOnHand(db') = TotalOnHand(db) /\ spoiled = {}
    <2>1. Held(p) \cap touched[p] = {} /\ spoiled = {}
      BY <1>1 DEF Commit
    <2>2. PICK s, b : s = script[p] /\ b = Committed
      OBVIOUS
    <2>3. s \in Seq(RowOp) /\ OnlyMoves(s) /\ b \in BookType /\ b.rows = db
      BY <1>1, <2>2, MadeType, CommittedType DEF Commit, TypeOK, Committed
    <2>4. db' = Book(b, s, Len(s)).rows
      BY <1>1, <2>1, <2>2, UnstaleBook
    <2>5. TotalOnHand(Book(b, s, Len(s)).rows) = TotalOnHand(b.rows)
      BY <2>3, BookTotal
    <2> QED
      BY <2>1, <2>3, <2>4, <2>5
  <1>2. ASSUME NEW p \in Workers,
               Begin(p) \/ PeekRow(p) \/ ReadRow(p) \/ DiffRow(p) \/ WriteRow(p) \/ Log(p) \/ Rollback(p)
        PROVE  db' = db /\ spoiled' = spoiled
    BY <1>2 DEF Begin, PeekRow, ReadRow, DiffRow, WriteRow, Log, Rollback, data
  <1>3. CASE Done \/ UNCHANGED vars
    BY <1>3 DEF Done, vars, data, TransfersConserveStock
  <1> QED
    BY <1>1, <1>2, <1>3 DEF TransfersConserveStock, Next, Proceed, Reject, Crash, DeadlockVictim

\* When requests only move stock, the stock on hand over all rows is what it was
\* at the start, whatever fails or crashes half-way through a transfer, as long
\* as no request wrote over a change it had not read.
THEOREM MovesConserveStock ==
    (\A s \in Requests : OnlyMoves(s)) => (Spec => []TransfersConserveStock)
  <1>1. Init => TransfersConserveStock
    BY DEF Init, TransfersConserveStock
  <1>2. (\A s \in Requests : OnlyMoves(s)) => (\A s \in Requests : OnlyMoves(s))'
    OBVIOUS
  <1> QED
    BY <1>1, <1>2, ConserveStep, TypeInit, TypeStep, NaturalInit, NaturalStep,
       LedgerInit, LedgerStep, FollowInit, FollowStep, PTL DEF Spec

-----------------------------------------------------------------------------
(* Transfers, batches of transfers and publishing only move stock.         *)

LEMMA NothingMoves == OnlyMoves(<<>>)
  <1>1. DOMAIN <<>> = {} /\ IsFiniteSet({})
    BY FS_EmptySet
  <1>2. PICK F : F = [k \in DOMAIN <<>> |-> StockMoved(<<>>[k])]
    OBVIOUS
  <1>3. \A x \in {} : F[x] = F[x]
    OBVIOUS
  <1>4. SumOver({}, F) = 0
    BY <1>1, <1>3, SumSame
  <1> QED
    BY <1>1, <1>2, <1>4 DEF OnlyMoves, SumOver

\* Two more operations, of which one takes what the other adds.
LEMMA TwoMore ==
    ASSUME NEW s \in Seq(RowOp), OnlyMoves(s), NEW a \in RowOp, NEW b \in RowOp,
           a.kind # "adjust", b.kind # "adjust", StockMoved(a) \in Int, StockMoved(b) = -StockMoved(a)
    PROVE  s \o <<a, b>> \in Seq(RowOp) /\ OnlyMoves(s \o <<a, b>>)
  <1>1. PICK t, n : t = s \o <<a, b>> /\ n = Len(s)
    OBVIOUS
  <1>2. /\ t \in Seq(RowOp) /\ n \in Nat /\ Len(t) = n + 2
        /\ DOMAIN s = 1..n /\ DOMAIN t = 1..(n + 2)
        /\ t[n + 1] = a /\ t[n + 2] = b /\ \A k \in 1..n : t[k] = s[k]
    BY <1>1
  <1>3. PICK F, G : /\ F = [k \in DOMAIN s |-> StockMoved(s[k])]
                    /\ G = [k \in DOMAIN t |-> StockMoved(t[k])]
    OBVIOUS
  <1>4. \A k \in 1..n : F[k] = StockMoved(s[k]) /\ F[k] \in Int /\ G[k] = F[k]
    <2> SUFFICES ASSUME NEW k \in 1..n
                 PROVE  F[k] = StockMoved(s[k]) /\ F[k] \in Int /\ G[k] = F[k]
      OBVIOUS
    <2>1. PICK op \in RowOp : op = s[k]
      BY <1>1, <1>2
    <2>2. StockMoved(op) \in Int
      BY DEF StockMoved, RowOp
    <2>3. k \in 1..(n + 2) /\ t[k] = op
      BY <1>2, <2>1
    <2> QED
      BY <1>2, <1>3, <2>1, <2>2, <2>3
  <1>5. G[n + 1] = StockMoved(a) /\ G[n + 2] = StockMoved(b)
    <2>1. n + 1 \in DOMAIN t /\ n + 2 \in DOMAIN t
      BY <1>2
    <2> QED
      BY <1>2, <1>3, <2>1
  <1>6. PICK u, v : u = n + 1 /\ v = n + 2
    OBVIOUS
  <1>7. /\ IsFiniteSet(1..n) /\ IsFiniteSet(1..u) /\ IsFiniteSet(1..v)
        /\ (1..v) \ {v} = 1..u /\ (1..u) \ {u} = 1..n /\ v \in 1..v /\ u \in 1..u
    <2>1. n \in Int /\ u \in Int /\ v \in Int /\ 1 \in Int
      BY <1>2, <1>6
    <2>2. IsFiniteSet(1..n) /\ IsFiniteSet(1..u) /\ IsFiniteSet(1..v)
      BY ONLY <2>1, FS_Interval
    <2>3. (1..v) \ {v} = 1..u /\ (1..u) \ {u} = 1..n
      BY <1>2, <1>6
    <2>4. v \in 1..v /\ u \in 1..u
      BY <1>2, <1>6
    <2> QED
      BY <2>2, <2>3, <2>4
  <1>8. G[u] \in Int /\ G[v] = -G[u] /\ G[v] \in Int
    BY <1>5, <1>6
  <1>9. (\A x \in 1..v : G[x] \in Int) /\ (\A x \in 1..u : G[x] \in Int)
    <2>1. \A x \in 1..v : x \in 1..n \/ x = u \/ x = v
      BY <1>2, <1>6
    <2>2. \A x \in 1..u : x \in 1..n \/ x = u
      BY <1>2, <1>6
    <2> QED
      BY <1>4, <1>8, <2>1, <2>2
  <1>10. SumOver(1..n, G) = SumOver(1..n, F)
    BY <1>4, <1>7, SumSame
  <1>11. SumOver(1..n, F) = 0
    BY <1>2, <1>3 DEF OnlyMoves, SumOver
  <1>12. SumOver(1..v, G) = G[v] + SumOver((1..v) \ {v}, G)
    BY <1>7, <1>9, SumRemove
  <1>13. SumOver(1..u, G) = G[u] + SumOver((1..u) \ {u}, G)
    BY <1>7, <1>9, SumRemove
  <1>14. SumOver(1..v, G) = 0
    <2>1. SumOver(1..u, G) = G[u] + 0
      BY <1>7, <1>10, <1>11, <1>13
    <2>2. SumOver(1..u, G) = G[u]
      BY ONLY <1>8, <2>1
    <2>3. SumOver(1..v, G) = G[v] + G[u]
      BY ONLY <1>7, <1>12, <2>2
    <2> QED
      BY ONLY <1>8, <2>3
  <1>15. \A k \in 1..v : t[k].kind # "adjust"
    <2>1. \A x \in 1..v : x \in 1..n \/ x = u \/ x = v
      BY <1>2, <1>6
    <2>2. \A x \in 1..n : t[x].kind # "adjust"
      BY <1>2 DEF OnlyMoves
    <2> QED
      BY <1>2, <1>6, <2>1, <2>2
  <1> QED
    BY <1>1, <1>2, <1>3, <1>6, <1>14, <1>15 DEF OnlyMoves, SumOver

Item == [from : Rows, to : Rows, qty : Nat]

\* One transfer after whatever was moved before it.
LEMMA TransferMoves ==
    ASSUME NEW s \in Seq(RowOp), OnlyMoves(s), NEW item \in Item
    PROVE  s \o TransferStock(item) \in Seq(RowOp) /\ OnlyMoves(s \o TransferStock(item))
  <1>1. PICK a, b : /\ a = RowStep("deduct", item.from, item.qty, FALSE)
                    /\ b = RowStep("add", item.to, item.qty, TRUE)
    OBVIOUS
  <1>2. /\ a \in RowOp /\ a.kind = "deduct" /\ a.qty = item.qty
        /\ b \in RowOp /\ b.kind = "add" /\ b.qty = item.qty /\ item.qty \in Nat
    BY <1>1 DEF RowStep, RowOp, Kinds, Item
  <1>3. StockMoved(a) = -item.qty /\ StockMoved(b) = item.qty
    BY <1>2 DEF StockMoved
  <1>4. StockMoved(a) \in Int /\ StockMoved(b) = -StockMoved(a)
    BY <1>2, <1>3
  <1>5. TransferStock(item) = <<a, b>>
    BY <1>1 DEF TransferStock
  <1> QED
    BY <1>2, <1>4, <1>5, TwoMore

LEMMA BatchMoves ==
    ASSUME NEW items \in Seq(Item)
    PROVE  OnlyMoves(CompleteTransferBatch(items))
  <1>1. PICK n : n = Len(items) /\ n \in Nat /\ DOMAIN items = 1..n /\ \A k \in 1..n : items[k] \in Item
    OBVIOUS
  <1>2. PICK q : q = [k \in DOMAIN items |-> TransferStock(items[k])]
    OBVIOUS
  <1>3. Len(q) = n /\ \A k \in 1..n : q[k] = TransferStock(items[k])
    BY <1>1, <1>2
  <1> DEFINE Flat(f, m) == f = [i \in 1..m |-> IF i = 1 THEN q[i] ELSE f[i - 1] \o q[i]]
             P == {m \in 0..n : \E f : /\ Flat(f, m)
                                       /\ \A i \in 1..m : f[i] \in Seq(RowOp) /\ OnlyMoves(f[i])}
  <1>4. 0 \in P
    <2> DEFINE f == [i \in 1..0 |-> <<>>]
    <2>1. 1..0 = {} /\ 0 \in 0..n
      BY <1>1
    <2>2. Flat(f, 0)
      BY <2>1
    <2> QED
      BY <2>1, <2>2
  <1>5. ASSUME NEW m \in 0..(n - 1), m \in P PROVE m + 1 \in P
    <2>1. PICK f : Flat(f, m) /\ \A i \in 1..m : f[i] \in Seq(RowOp) /\ OnlyMoves(f[i])
      BY <1>5
    <2>2. PICK u : u = m + 1 /\ u \in 1..n /\ u \in 0..n /\ u - 1 = m /\ m \in Nat
      BY <1>1
    <2> DEFINE x == IF u = 1 THEN q[u] ELSE f[u - 1] \o q[u]
               g == [i \in 1..u |-> IF i = u THEN x ELSE f[i]]
    <2>3. items[u] \in Item /\ q[u] = TransferStock(items[u])
      BY <1>1, <1>3, <2>2
    <2>4. x \in Seq(RowOp) /\ OnlyMoves(x)
      <3>1. CASE u = 1
        <4>1. <<>> \in Seq(RowOp)
          OBVIOUS
        <4>2. <<>> \o TransferStock(items[u]) = TransferStock(items[u])
          BY DEF TransferStock
        <4> QED
          BY <2>3, <3>1, <4>1, <4>2, NothingMoves, TransferMoves
      <3>2. CASE u # 1
        <4>0. m \in 1..m
          BY <2>2, <3>2
        <4>1. PICK y : y = f[m] /\ y \in Seq(RowOp) /\ OnlyMoves(y)
          BY <2>1, <4>0
        <4>2. x = y \o TransferStock(items[u])
          BY <2>2, <2>3, <3>2, <4>1
        <4> QED
          BY <2>3, <4>1, <4>2, TransferMoves
      <3> QED
        BY <3>1, <3>2
    <2>5. \A i \in 1..u : i = u \/ i \in 1..m
      BY <2>2
    <2>6. \A i \in 1..m : i \in 1..u /\ i # u
      BY <2>2
    <2>7. Flat(g, u)
      <3>1. \A i \in 1..u : g[i] = IF i = 1 THEN q[i] ELSE g[i - 1] \o q[i]
        <4> SUFFICES ASSUME NEW i \in 1..u PROVE g[i] = IF i = 1 THEN q[i] ELSE g[i - 1] \o q[i]
          OBVIOUS
        <4>1. CASE i = u
          <5>1. u # 1 => g[u - 1] = f[u - 1]
            BY <2>2
          <5>2. g[u] = x
            BY <2>2
          <5> QED
            BY <4>1, <5>1, <5>2
        <4>2. CASE i # u
          <5>1. i \in 1..m
            BY <2>5, <4>2
          <5>2. f[i] = IF i = 1 THEN q[i] ELSE f[i - 1] \o q[i]
            BY <2>1, <5>1
          <5>3. i # 1 => i - 1 \in 1..m
            BY <2>2, <5>1
          <5>4. g[i] = f[i] /\ (i # 1 => g[i - 1] = f[i - 1])
            BY <2>6, <4>2, <5>1, <5>3
          <5> QED
            BY <5>2, <5>4
        <4> QED
          BY <4>1, <4>2
      <3>2. g = [i \in 1..u |-> g[i]]
        OBVIOUS
      <3> HIDE DEF g
      <3> QED
        BY <3>1, <3>2
    <2>8. \A i \in 1..u : g[i] \in Seq(RowOp) /\ OnlyMoves(g[i])
      <3>1. \A i \in 1..u : g[i] = IF i = u THEN x ELSE f[i]
        OBVIOUS
      <3> HIDE DEF g, x
      <3> QED
        BY <2>1, <2>4, <2>5, <3>1
    <2>9. u \in P
      <3> HIDE DEF g
      <3> QED
        BY <2>2, <2>7, <2>8
    <2> QED
      BY <2>2, <2>9
  <1>6. n \in P
    <2> HIDE DEF P
    <2>1. \A m \in 0..n : m \in P
      BY <1>1, <1>4, <1>5, UpTo
    <2> QED
      BY <1>1, <2>1
  <1>7. CASE n = 0
    <2>1. q = <<>>
      BY <1>1, <1>2, <1>7
    <2> QED
      BY <1>2, <2>1, NothingMoves DEF CompleteTransferBatch, FlattenSeq
  <1>8. CASE n # 0
    <2> DEFINE h == CHOOSE f : Flat(f, n)
    <2>1. PICK f : Flat(f, n) /\ \A i \in 1..n : f[i] \in Seq(RowOp) /\ OnlyMoves(f[i])
      BY <1>6
    <2>2. Flat(h, n)
      BY <2>1
    <2>3. h[n] = f[n]
      <3> DEFINE R == {m \in 0..n : m # 0 => h[m] = f[m]}
      <3>1. 0 \in R
        BY <1>1
      <3>2. ASSUME NEW m \in 0..(n - 1), m \in R PROVE m + 1 \in R
        <4>1. PICK u : u = m + 1 /\ u \in 1..n /\ u \in 0..n /\ u - 1 = m
          BY <1>1
        <4>2. /\ h[u] = IF u = 1 THEN q[u] ELSE h[u - 1] \o q[u]
              /\ f[u] = IF u = 1 THEN q[u] ELSE f[u - 1] \o q[u]
          <5> HIDE DEF h
          <5> QED
            BY <2>1, <2>2, <4>1
        <4>3. u # 1 => h[m] = f[m]
          BY <3>2, <4>1
        <4> HIDE DEF h
        <4>4. h[u] = f[u]
          BY <4>1, <4>2, <4>3
        <4> QED
          BY <4>1, <4>4
      <3> HIDE DEF R
      <3>3. \A m \in 0..n : m \in R
        BY <1>1, <3>1, <3>2, UpTo
      <3>4. n \in R
        BY <1>1, <3>3
      <3> QED
        BY <1>8, <3>4 DEF R
    <2>4. CompleteTransferBatch(items) = h[n]
      BY <1>2, <1>3, <1>8 DEF CompleteTransferBatch, FlattenSeq
    <2>5. n \in 1..n
      BY <1>1, <1>8
    <2> HIDE DEF h
    <2> QED
      BY <2>1, <2>3, <2>4, <2>5
  <1> QED
    BY <1>7, <1>8

LEMMA PublishMoves ==
    ASSUME NEW u \in Rows, NEW i \in Rows, NEW q \in Nat
    PROVE  OnlyMoves(PublishStock(u, i, q))
  <1>1. PICK a, b, c, d : /\ a = RowStep("peek", u, q, FALSE) /\ b = RowStep("peek", i, 0, FALSE)
                          /\ c = RowStep("deduct", u, q, FALSE) /\ d = RowStep("add", i, q, TRUE)
    OBVIOUS
  <1>2. /\ a \in RowOp /\ b \in RowOp /\ c \in RowOp /\ d \in RowOp
        /\ a.kind = "peek" /\ b.kind = "peek" /\ c.kind = "deduct" /\ d.kind = "add"
        /\ c.qty = q /\ d.qty = q
    BY <1>1 DEF RowStep, RowOp, Kinds
  <1>3. StockMoved(a) = 0 /\ StockMoved(b) = 0 /\ StockMoved(c) = -q /\ StockMoved(d) = q
    BY <1>2 DEF StockMoved
  <1>4. <<a, b>> \in Seq(RowOp) /\ OnlyMoves(<<a, b>>)
    <2>1. <<>> \in Seq(RowOp) /\ <<>> \o <<a, b>> = <<a, b>>
      BY <1>2
    <2>2. a.kind # "adjust" /\ b.kind # "adjust"
      BY <1>2
    <2>3. StockMoved(a) \in Int /\ StockMoved(b) = -StockMoved(a)
      <3>1. PICK v : v = 0 /\ v \in Int /\ v = -v
        OBVIOUS
      <3> QED
        BY <1>3, <3>1
    <2> QED
      BY <1>2, <2>1, <2>2, <2>3, NothingMoves, TwoMore
  <1>5. OnlyMoves(<<a, b>> \o <<c, d>>)
    <2>1. c.kind # "adjust" /\ d.kind # "adjust" /\ StockMoved(c) \in Int /\ StockMoved(d) = -StockMoved(c)
      BY <1>2, <1>3
    <2> QED
      BY <1>2, <1>4, <2>1, TwoMore
  <1>6. <<a, b>> \o <<c, d>> = <<a, b, c, d>>
    <2>1. PICK s, t, w : s = <<a, b>> /\ t = <<c, d>> /\ w = <<a, b, c, d>>
      OBVIOUS
    <2>2. s \in Seq(RowOp) /\ t \in Seq(RowOp) /\ w \in Seq(RowOp)
      BY <1>2, <2>1
    <2>3. Len(s) = 2 /\ Len(t) = 2 /\ Len(w) = 4
      BY <2>1
    <2>4. Len(s \o t) = 4 /\ s \o t \in Seq(RowOp)
      <3>1. Len(s \o t) = Len(s) + Len(t) /\ s \o t \in Seq(RowOp)
        BY <2>2
      <3> QED
        BY <2>3, <3>1
    <2>5. /\ (s \o t)[1] = s[1] /\ (s \o t)[2] = s[2]
          /\ (s \o t)[3] = t[1] /\ (s \o t)[4] = t[2]
      <3>1. /\ \A k \in 1..Len(s) : (s \o t)[k] = s[k]
            /\ \A k \in 1..Len(t) : (s \o t)[k + Len(s)] = t[k]
        BY <2>2
      <3>2. 1 \in 1..Len(s) /\ 2 \in 1..Len(s) /\ 1 \in 1..Len(t) /\ 2 \in 1..Len(t)
        BY <2>3
      <3>3. 1 + Len(s) = 3 /\ 2 + Len(s) = 4
        BY <2>3
      <3> QED
        BY <3>1, <3>2, <3>3
    <2>6. /\ s[1] = w[1] /\ s[2] = w[2] /\ t[1] = w[3] /\ t[2] = w[4]
      BY <2>1
    <2>7. \A k \in 1..4 : k = 1 \/ k = 2 \/ k = 3 \/ k = 4
      OBVIOUS
    <2>8. \A k \in 1..4 : (s \o t)[k] = w[k]
      BY <2>5, <2>6, <2>7
    <2>9. s \o t = w
      BY <2>2, <2>3, <2>4, <2>8
    <2> QED
      BY <2>1, <2>9
  <1>7. PublishStock(u, i, q) = <<a, b, c, d>>
    BY <1>1 DEF PublishStock
  <1> QED
    BY <1>5, <1>6, <1>7

\* Stock is only transferred, one item or a batch at a time, or published.
Transferring ==
    \A s \in Requests :
        \/ \E items \in Seq(Item) : s = CompleteTransferBatch(items)
        \/ \E item \in Item : s = TransferStock(item)
        \/ \E u, i \in Rows, q \in Nat : s = PublishStock(u, i, q)

\* While the service only transfers and publishes, at any quantities and in any
\* interleaving, what is on hand in all rows together changes only by an update
\* that is lost: the deductions and additions of completeTransferBatch and
\* publishStock, committed as one transaction, cancel each other.
THEOREM TransfersMakeNoStock == Transferring => (Spec => []TransfersConserveStock)
  <1>1. ASSUME NEW item \in Item PROVE OnlyMoves(TransferStock(item))
    <2>1. <<>> \in Seq(RowOp) /\ <<>> \o TransferStock(item) = TransferStock(item)
      BY DEF TransferStock
    <2> QED
      BY <2>1, NothingMoves, TransferMoves
  <1>2. Transferring => \A s \in Requests : OnlyMoves(s)
    BY <1>1, BatchMoves, PublishMoves DEF Transferring
  <1> QED
    BY <1>2, MovesConserveStock
=============================================================================
