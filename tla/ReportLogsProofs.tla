-------------------------- MODULE ReportLogsProofs --------------------------
(***************************************************************************)
(* Theorems about ReportLogs for any pool, requests, logs and rows: type   *)
(* correctness, that only stock transactions can stop the pool, and that a *)
(* report's log is true.  The first two rest on the account of the pool: a *)
(* connection that is held or waited for belongs to a running request and  *)
(* to the step it is at, but for the transaction that a stock operation    *)
(* keeps while it writes its log.                                          *)
(***************************************************************************)
EXTENDS ReportLogs, FiniteSetTheorems, TLAPS

-----------------------------------------------------------------------------
(* The pool.                                                               *)

Tasks == Workers \X {"transaction", "log", "runner", "short"}

Using == held \cup Range(queue)

Pool == PoolOK /\ held \subseteq Tasks /\ queue \in Seq(Tasks)

LEMMA EmptyPool == Empty => Pool /\ Using = {}
  BY FS_EmptySet, SizeAssumption DEF Empty, Pool, PoolOK, Using, Range

LEMMA UsingTasks == Pool => Using \subseteq Tasks
  BY DEF Pool, Using, Range

LEMMA AskPool ==
    ASSUME Pool, NEW t \in Tasks, ~Asked(t), Ask(t)
    PROVE  Pool' /\ Using' = Using \cup {t}
  <1>1. CASE Cardinality(held) < Size /\ held' = held \cup {t} /\ queue' = queue
    <2>1. IsFiniteSet(held') /\ Cardinality(held') = Cardinality(held) + 1
      BY <1>1, FS_AddElement DEF Pool, PoolOK, Asked
    <2>2. Cardinality(held) \in Nat /\ queue = <<>>
      BY <1>1, FS_CardinalityType, SizeAssumption DEF Pool, PoolOK
    <2> QED
      BY <1>1, <2>1, <2>2, SizeAssumption DEF Pool, PoolOK, Using, Range
  <1>2. CASE Cardinality(held) >= Size /\ queue' = Append(queue, t) /\ held' = held
    <2>1. Cardinality(held) = Size
      BY <1>2, FS_CardinalityType, SizeAssumption DEF Pool, PoolOK
    <2>2. /\ queue' \in Seq(Tasks) /\ Len(queue') = Len(queue) + 1 /\ queue' # <<>>
          /\ \A i \in 1..Len(queue) : queue'[i] = queue[i]
          /\ queue'[Len(queue) + 1] = t
      BY <1>2 DEF Pool
    <2>3. Range(queue') = Range(queue) \cup {t}
      BY <2>2 DEF Range, Pool
    <2>4. t \notin held /\ \A i \in 1..Len(queue) : queue[i] # t
      BY DEF Asked, Range, Pool
    <2>5. PoolOK'
      BY <1>2, <2>1, <2>2, <2>4 DEF Pool, PoolOK
    <2> QED
      BY <1>2, <2>2, <2>3, <2>5 DEF Pool, Using
  <1> QED
    BY <1>1, <1>2 DEF Ask

LEMMA ReleasePool ==
    ASSUME Pool, NEW t \in held, Release(t)
    PROVE  Pool' /\ Using' = Using \ {t}
  <1>0. /\ IsFiniteSet(held \ {t}) /\ Cardinality(held \ {t}) = Cardinality(held) - 1
        /\ Cardinality(held) \in Nat
    BY FS_RemoveElement, FS_CardinalityType DEF Pool, PoolOK
  <1>1. CASE queue = <<>> /\ held' = held \ {t} /\ queue' = queue
    BY <1>0, <1>1, SizeAssumption DEF Pool, PoolOK, Using, Range
  <1>2. CASE /\ queue # <<>> /\ held' = (held \ {t}) \cup {Head(queue)}
             /\ queue' = Tail(queue)
    <2>1. /\ queue' \in Seq(Tasks) /\ Len(queue') = Len(queue) - 1 /\ Len(queue) \in Nat \ {0}
          /\ \A i \in 1..Len(queue') : queue'[i] = queue[i + 1]
          /\ Head(queue) = queue[1] /\ queue[1] \in Tasks
      BY <1>2 DEF Pool
    <2>2. queue[1] \notin held /\ \A i \in 2..Len(queue) : queue[i] # queue[1]
      BY <2>1 DEF Pool, PoolOK
    <2>3. IsFiniteSet(held') /\ Cardinality(held') = Cardinality(held)
      <3>1. queue[1] \notin held \ {t}
        BY <2>2
      <3>2. /\ IsFiniteSet((held \ {t}) \cup {queue[1]})
            /\ Cardinality((held \ {t}) \cup {queue[1]}) = Cardinality(held \ {t}) + 1
        BY <1>0, <3>1, FS_AddElement
      <3> QED
        BY <1>0, <1>2, <2>1, <3>2
    <2>4. PoolOK'
      <3>1. \A i \in 1..Len(queue') : i + 1 \in 2..Len(queue)
        BY <2>1
      <3>2. \A i \in 1..Len(queue') : queue'[i] \notin held'
        BY <1>2, <2>1, <2>2, <3>1 DEF Pool, PoolOK
      <3>3. \A i, j \in 1..Len(queue') : queue'[i] = queue'[j] => i = j
        <4> SUFFICES ASSUME NEW i \in 1..Len(queue'), NEW j \in 1..Len(queue'),
                            queue'[i] = queue'[j]
                     PROVE  i = j
          OBVIOUS
        <4>1. i + 1 \in 1..Len(queue) /\ j + 1 \in 1..Len(queue) /\ queue[i + 1] = queue[j + 1]
          BY <2>1
        <4> QED
          BY <4>1 DEF Pool, PoolOK
      <3> QED
        BY <1>2, <2>3, <3>2, <3>3 DEF Pool, PoolOK
    <2>5. Range(queue') = Range(queue) \ {queue[1]}
      <3>1. DOMAIN queue = 1..Len(queue) /\ DOMAIN queue' = 1..Len(queue')
        BY <2>1 DEF Pool
      <3>2. ASSUME NEW x \in Range(queue), x # queue[1] PROVE x \in Range(queue')
        <4>1. PICK i \in 1..Len(queue) : x = queue[i]
          BY <3>1 DEF Range
        <4>2. i - 1 \in 1..Len(queue') /\ queue'[i - 1] = x
          BY <2>1, <3>2, <4>1
        <4> QED
          BY <3>1, <4>2 DEF Range
      <3>3. ASSUME NEW x \in Range(queue') PROVE x \in Range(queue) /\ x # queue[1]
        <4>1. PICK i \in 1..Len(queue') : x = queue'[i]
          BY <3>1, <3>3 DEF Range
        <4> QED
          BY <2>1, <2>2, <3>1, <4>1 DEF Range
      <3> QED
        BY <3>2, <3>3
    <2>6. queue[1] \in Range(queue) /\ t \notin Range(queue)
      BY <2>1 DEF Range, Pool, PoolOK
    <2> QED
      BY <1>2, <2>1, <2>4, <2>5, <2>6 DEF Pool, Using
  <1> QED
    BY <1>1, <1>2 DEF Release

-----------------------------------------------------------------------------
(* Who uses it.                                                            *)

Steps == {"idle", "snapshot", "change", "log", "commit", "insert", "aggregate", "read",
          "select", "write", "delete"}

UsedBy(t) ==
    /\ step[t[1]] # "idle"
    /\ t[2] = "transaction" => step[t[1]] \in {"change", "log", "commit"}
    /\ t[2] # "transaction" => t = Connection(t[1])

StepType == step \in [Workers -> Steps]

Account == Pool /\ StepType /\ \A t \in Using : UsedBy(t)

LEMMA ConnectionTask ==
    ASSUME NEW c \in Workers
    PROVE  Connection(c) \in Tasks /\ Connection(c)[1] = c
  BY DEF Connection, Tasks

LEMMA InitAccount == Init => Account
  BY EmptyPool DEF Init, Account, StepType, Steps

LEMMA BeginAccount ==
    ASSUME Account, NEW c \in Workers, step[c] = "idle", UNCHANGED pool,
           NEW s \in Steps, step' = [step EXCEPT ![c] = s]
    PROVE  Account'
  <1>1. Using' = Using /\ Pool' /\ StepType'
    BY DEF Account, pool, Using, Pool, PoolOK, StepType
  <1>2. \A t \in Using : t[1] # c /\ t[1] \in Workers
    BY UsingTasks DEF Account, UsedBy, Tasks
  <1>3. \A t \in Using : UsedBy(t)'
    BY <1>2 DEF Account, UsedBy, Connection, StepType
  <1> QED
    BY <1>1, <1>3 DEF Account

LEMMA ConnectAccount ==
    ASSUME Account, NEW c \in Workers, Connect(c)
    PROVE  Account'
  <1>1. Pool' /\ Using' = Using \cup {Connection(c)} /\ step' = step
    BY AskPool, ConnectionTask DEF Account, Connect, worker
  <1>2. StepType' /\ \A t \in Tasks : UsedBy(t)' = UsedBy(t)
    BY <1>1 DEF Account, StepType, UsedBy, Connection
  <1>3. UsedBy(Connection(c))
    BY DEF UsedBy, Connection, Connect
  <1> QED
    BY <1>1, <1>2, <1>3, UsingTasks, ConnectionTask DEF Account

\* A step that gives its connection back, to whatever step the worker goes.
LEMMA DoneAccount ==
    ASSUME Account, NEW c \in Workers, Connection(c) \in held, Done(c),
           NEW s \in Steps, step' = [step EXCEPT ![c] = s],
           step[c] = "log" => s = "commit"
    PROVE  Account'
  <1>1. Pool' /\ Using' = Using \ {Connection(c)}
    BY ReleasePool DEF Account, Done
  <1>2. StepType'
    BY DEF Account, StepType
  <1>3. ASSUME NEW t \in Using, t # Connection(c) PROVE UsedBy(t)'
    <2>1. t[1] \in Workers /\ t = <<t[1], t[2]>> /\ UsedBy(t)
      BY UsingTasks DEF Account, Tasks
    <2>2. CASE t[1] = c
      <3>1. t[2] = "transaction" /\ step[c] \in {"change", "log", "commit"}
        BY <1>3, <2>1, <2>2 DEF UsedBy
      <3>2. step[c] = "log"
        BY <1>3, <2>1, <2>2, <3>1 DEF Connection
      <3> QED
        BY <2>2, <3>1, <3>2 DEF UsedBy, Account, StepType
    <2>3. CASE t[1] # c
      BY <2>1, <2>3 DEF UsedBy, Connection, Account, StepType
    <2> QED
      BY <2>2, <2>3
  <1> QED
    BY <1>1, <1>2, <1>3 DEF Account

\* A step that keeps its connection for the next one.
LEMMA KeepAccount ==
    ASSUME Account, NEW c \in Workers, UNCHANGED pool, NEW s \in Steps,
           step' = [step EXCEPT ![c] = s],
           \/ step[c] = "change" /\ s = "log"
           \/ step[c] = "select" /\ s = "write"
    PROVE  Account'
  <1>1. Using' = Using /\ Pool' /\ StepType'
    BY DEF Account, pool, Using, Pool, PoolOK, StepType
  <1>2. ASSUME NEW t \in Using PROVE UsedBy(t)'
    <2>1. t[1] \in Workers /\ t = <<t[1], t[2]>> /\ UsedBy(t)
      BY UsingTasks DEF Account, Tasks
    <2>2. CASE t[1] = c
      BY <2>1, <2>2 DEF UsedBy, Connection, Account, StepType
    <2>3. CASE t[1] # c
      BY <2>1, <2>3 DEF UsedBy, Connection, Account, StepType
    <2> QED
      BY <2>2, <2>3
  <1> QED
    BY <1>1, <1>2 DEF Account

LEMMA DieAccount == ASSUME Account, Die PROVE Account'
  <1>1. (Pool /\ Using = {})'
    BY EmptyPool, FS_EmptySet, SizeAssumption DEF Die, Pool, PoolOK, Using, Range
  <1> QED
    BY <1>1 DEF Die, Account, StepType, Steps

LEMMA NextAccount == ASSUME Account, [Next]_vars PROVE Account'
  <1>1. ASSUME NEW c \in Workers, Request(c) PROVE Account'
    <2>1. ASSUME NEW r \in Rows, StockOperation(c, r) PROVE Account'
      BY <2>1, BeginAccount DEF StockOperation, Begin, Steps
    <2>2. ASSUME NEW l \in Logs, NEW h, NEW s, NewLog(c, l, h, s) PROVE Account'
      BY <2>2, BeginAccount DEF NewLog, Begin, Steps
    <2>3. ASSUME NEW l \in Logs, NEW s, UpdateReportLog(c, l, s) PROVE Account'
      BY <2>3, BeginAccount DEF UpdateReportLog, Begin, Steps
    <2>4. ASSUME NEW l \in Logs, DeleteReportLog(c, l) PROVE Account'
      BY <2>4, BeginAccount DEF DeleteReportLog, Begin, Steps
    <2> QED
      BY <1>1, <2>1, <2>2, <2>3, <2>4 DEF Request, GenerateReport, CreateReportLog
  <1>2. ASSUME NEW c \in Workers, Step(c) PROVE Account'
    <2>1. CASE Connect(c)
      BY <2>1, ConnectAccount
    <2>2. CASE Snapshot(c)
      BY <2>2, DoneAccount DEF Snapshot, At, Goto, Steps
    <2>3. CASE Change(c)
      BY <2>3, KeepAccount DEF Change, At, Goto, Steps
    <2>4. CASE WriteLog(c)
      BY <2>4, DoneAccount DEF WriteLog, At, Goto, Steps
    <2>5. CASE Commit(c)
      BY <2>5, DoneAccount DEF Commit, At, Return, Steps
    <2>6. CASE Insert(c)
      BY <2>6, DoneAccount DEF Insert, At, Goto, Return, Steps
    <2>7. CASE Aggregate(c)
      BY <2>7, DoneAccount DEF Aggregate, At, Goto, Steps
    <2>8. CASE Read(c)
      BY <2>8, DoneAccount DEF Read, At, Goto, Return, Steps
    <2>9. CASE Select(c)
      BY <2>9, DoneAccount, KeepAccount DEF Select, At, Goto, Return, Steps
    <2>10. CASE Write(c)
      BY <2>10, DoneAccount DEF Write, At, Return, Steps
    <2>11. CASE Delete(c)
      BY <2>11, DoneAccount DEF Delete, At, Return, Steps
    <2>12. CASE Fail(c)
      BY <2>12, DoneAccount DEF Fail, Return, Steps
    <2> QED
      BY <1>2, <2>1, <2>2, <2>3, <2>4, <2>5, <2>6, <2>7, <2>8, <2>9, <2>10, <2>11, <2>12
      DEF Step
  <1>3. CASE UNCHANGED vars
    <2>1. held' = held /\ queue' = queue /\ step' = step
      BY <1>3 DEF vars, pool, worker
    <2> QED
      BY <2>1 DEF Account, Pool, PoolOK, Using, StepType, UsedBy, Connection
  <1> QED
    BY <1>1, <1>2, <1>3, DieAccount DEF Next

LEMMA AccountMoves == Account => PoolMoves
  <1> SUFFICES ASSUME Account, queue # <<>>, Cardinality(Open) < Size
               PROVE  \E t \in held : t[2] # "transaction" /\ Connection(t[1]) = t
    BY DEF PoolMoves
  <1>1. Open # held
    BY SizeAssumption DEF Account, Pool, PoolOK
  <1>2. PICK t \in held : t[2] # "transaction"
    BY <1>1 DEF Open
  <1> QED
    BY <1>2 DEF Account, Using, UsedBy

\* Whatever the size of the pool and the number of requests, as long as fewer
\* stock transactions are open than there are connections, somebody holds one
\* who needs no other: only transactions that write their product log through the
\* pool can stop it (StockOrchestrationService, ProductActivityLogger.log).
THEOREM OnlyTransactionsStall == Spec => []PoolMoves
  <1>1. Spec => []Account
    BY InitAccount, NextAccount, PTL DEF Spec
  <1> QED
    BY <1>1, AccountMoves, PTL

-----------------------------------------------------------------------------
(* Types.                                                                  *)

OfLog == {"insert", "aggregate", "read", "select", "write", "delete"}
Filled == {"insert", "select", "write"}

Memory(c) ==
    /\ IsRow(kept[c])
    /\ step[c] = "idle" <=> subject[c] = None
    /\ step[c] \in OfLog => subject[c] \in Logs
    /\ step[c] \in Filled => kept[c]["status"] \in Status

Domains ==
    /\ DOMAIN logs = Logs
    /\ subject = [c \in Workers |-> subject[c]]
    /\ kept = [c \in Workers |-> kept[c]]

Data == /\ Domains
        /\ \A l \in Logs : IsRow(logs[l])
        /\ \A c \in Workers : Memory(c)

TypeInv == Account /\ Data

LEMMA NoRowIsRow == IsRow(NoRow) /\ NoRow["status"] = "None"
  BY DEF IsRow, NoRow, Status

LEMMA InitType == Init => TypeInv
  BY InitAccount, NoRowIsRow DEF Init, TypeInv, Data, Domains, Memory, OfLog, Filled

LEMMA ReturnMemory ==
    ASSUME TypeInv, NEW c \in Workers, Return(c)
    PROVE  (\A d \in Workers : Memory(d))' /\ (DOMAIN logs' = Logs => Domains')
  BY NoRowIsRow
  DEF TypeInv, Account, StepType, Data, Domains, Memory, Return, OfLog, Filled

LEMMA BeginMemory ==
    ASSUME TypeInv, NEW c \in Workers, NEW h, NEW s \in Steps \ {"idle"},
           NEW x \in Logs \cup Rows, NEW k, Begin(c, h, s, x, k), IsRow(k),
           s \in OfLog => x \in Logs,
           s \in Filled => k["status"] \in Status
    PROVE  Data'
  <1>1. x # None
    BY NoneAssumption
  <1> QED
    BY <1>1 DEF TypeInv, Account, StepType, Data, Domains, Memory, Begin, table

LEMMA GotoMemory ==
    ASSUME TypeInv, NEW c \in Workers, step[c] # "idle", NEW s \in Steps \ {"idle"}, Goto(c, s),
           UNCHANGED subject, kept' = [kept EXCEPT ![c] = kept'[c]], IsRow(kept'[c]),
           s \in OfLog => step[c] \in OfLog,
           s \in Filled => kept'[c]["status"] \in Status
    PROVE  (\A d \in Workers : Memory(d))' /\ (DOMAIN logs' = Logs => Domains')
  BY DEF TypeInv, Account, StepType, Data, Domains, Memory, Goto

LEMMA RequestType == ASSUME TypeInv, NEW c \in Workers, Request(c) PROVE Data'
  <1>1. ASSUME NEW r \in Rows, StockOperation(c, r) PROVE Data'
    BY <1>1, BeginMemory, NoRowIsRow DEF StockOperation, Steps, OfLog, Filled
  <1>2. ASSUME NEW l \in Logs, NEW h, NEW s \in Status, NewLog(c, l, h, s) PROVE Data'
    <2>1. IsRow([status |-> s, data |-> FALSE])
      BY DEF IsRow, Status
    <2> QED
      BY <1>2, <2>1, BeginMemory DEF NewLog, Steps, OfLog, Filled
  <1>3. ASSUME NEW l \in Logs, NEW s \in Status \cup {"None"}, UpdateReportLog(c, l, s)
        PROVE  Data'
    <2>1. IsRow([status |-> s, data |-> FALSE])
      BY DEF IsRow, Status
    <2> QED
      BY <1>3, <2>1, BeginMemory DEF UpdateReportLog, Steps, OfLog, Filled
  <1>4. ASSUME NEW l \in Logs, DeleteReportLog(c, l) PROVE Data'
    BY <1>4, BeginMemory, NoRowIsRow DEF DeleteReportLog, Steps, OfLog, Filled
  <1>5. "PROCESSING" \in Status /\ Chosen \cup {"PENDING"} \subseteq Status
    BY ChosenAssumption DEF Status
  <1> QED
    BY <1>1, <1>2, <1>3, <1>4, <1>5 DEF Request, GenerateReport, CreateReportLog

LEMMA WriteRow ==
    ASSUME NEW r, NEW k, NEW S, IsRow(r), IsRow(k), r["status"] # "None", k["status"] # "None"
    PROVE  IsRow([x \in Columns |-> IF x \in S THEN k[x] ELSE r[x]])
  BY DEF IsRow, Columns

LEMMA StepData == ASSUME TypeInv, NEW c \in Workers, Step(c) PROVE Data'
  <1> USE DEF Steps, OfLog, Filled
  <1>0. Memory(c) /\ DOMAIN logs = Logs /\ \A l \in Logs : IsRow(logs[l])
    BY DEF TypeInv, Data, Domains
  <1>1. CASE Connect(c)
    BY <1>1 DEF Connect, TypeInv, Data, Domains, Memory, table, worker
  <1>2. CASE Snapshot(c) \/ Change(c) \/ WriteLog(c)
    <2>1. step[c] # "idle" /\ UNCHANGED <<logs, subject, kept>>
            /\ \E s \in {"change", "log", "commit"} : Goto(c, s)
      BY <1>2 DEF Snapshot, Change, WriteLog, At, table
    <2>2. kept' = [kept EXCEPT ![c] = kept'[c]] /\ IsRow(kept'[c])
      BY <1>0, <2>1 DEF TypeInv, Data, Domains, Memory
    <2> QED
      BY <2>1, <2>2, GotoMemory DEF TypeInv, Data, Domains
  <1>3. CASE Commit(c) \/ Fail(c)
    <2>1. Return(c) /\ UNCHANGED logs
      BY <1>3 DEF Commit, Fail
    <2> QED
      BY <2>1, ReturnMemory DEF TypeInv, Data, Domains
  <1>4. CASE Insert(c)
    <2>1. (\A l \in Logs : IsRow(logs[l]))' /\ DOMAIN logs' = Logs
      BY <1>0, <1>4 DEF Insert, Memory, At
    <2>2. CASE handler[c] = "generate"
      <3>1. kept' = [kept EXCEPT ![c] = kept'[c]] /\ IsRow(kept'[c])
        BY <1>0, <1>4, <2>2 DEF Insert, TypeInv, Data, Domains, Memory
      <3> QED
        BY <1>4, <2>1, <2>2, <3>1, GotoMemory DEF Insert, At, Data
    <2>3. CASE handler[c] # "generate"
      BY <1>4, <2>1, <2>3, ReturnMemory DEF Insert, Data
    <2> QED
      BY <2>2, <2>3
  <1>5. CASE Aggregate(c)
    <2>1. \A o \in Outcomes : IsRow(o) /\ o["status"] \in Status
      <3> DEFINE good == [status |-> "COMPLETED", data |-> TRUE]
                 bad == [status |-> "FAILED", data |-> FALSE]
      <3>1. IsRow(good) /\ good["status"] \in Status
        BY DEF IsRow, Status
      <3>2. IsRow(bad) /\ bad["status"] \in Status
        BY DEF IsRow, Status
      <3>3. Outcomes = {good, bad}
        BY DEF Outcomes
      <3> HIDE DEF good, bad
      <3> QED
        BY <3>1, <3>2, <3>3
    <2>2. PICK o \in Outcomes : kept' = [kept EXCEPT ![c] = o]
      BY <1>5 DEF Aggregate
    <2>3. kept'[c] = o
      BY <2>2 DEF TypeInv, Data, Domains
    <2> QED
      BY <1>5, <2>1, <2>2, <2>3, GotoMemory DEF Aggregate, At, table, TypeInv, Data, Domains
  <1>6. CASE Read(c)
    <2>1. UNCHANGED logs
      BY <1>6 DEF Read, table
    <2>2. CASE Missing(subject[c])
      BY <1>6, <2>1, <2>2, ReturnMemory DEF Read, TypeInv, Data, Domains
    <2>3. CASE ~Missing(subject[c])
      <3> DEFINE given == kept[c]["status"]
                 row == logs[subject[c]]
                 k == IF given = "None" THEN row ELSE [row EXCEPT !["status"] = given]
      <3>1. subject[c] \in Logs /\ IsRow(row) /\ row["status"] \in Status
        BY <1>0, <1>6, <2>3 DEF Memory, Read, At, Missing, IsRow
      <3>2. kept' = [kept EXCEPT ![c] = k] /\ kept'[c] = k
        BY <1>6, <2>3 DEF Read, TypeInv, Data, Domains
      <3>3. IsRow(k) /\ k["status"] \in Status
        BY <1>0, <3>1 DEF IsRow, Memory
      <3> QED
        BY <1>6, <2>1, <2>3, <3>2, <3>3, GotoMemory DEF Read, At, TypeInv, Data, Domains
    <2> QED
      BY <2>2, <2>3
  <1>7. CASE Select(c)
    <2>1. UNCHANGED logs
      BY <1>7 DEF Select, table
    <2>2. CASE Missing(subject[c]) /\ handler[c] = "generate"
      BY <1>7, <2>1, <2>2, ReturnMemory DEF Select, TypeInv, Data, Domains
    <2>3. CASE ~(Missing(subject[c]) /\ handler[c] = "generate")
      <3>1. kept' = [kept EXCEPT ![c] = kept'[c]] /\ kept'[c] = kept[c]
        BY <1>7, <2>3 DEF Select, TypeInv, Data, Domains
      <3>2. IsRow(kept'[c]) /\ kept'[c]["status"] \in Status
        BY <1>0, <1>7, <3>1 DEF Memory, Select, At
      <3> QED
        BY <1>7, <2>1, <2>3, <3>1, <3>2, GotoMemory DEF Select, At, TypeInv, Data, Domains
    <2> QED
      BY <2>2, <2>3
  <1>8. CASE Write(c)
    <2>1. subject[c] \in Logs /\ IsRow(kept[c]) /\ kept[c]["status"] # "None"
      BY <1>0, <1>8 DEF Memory, Write, At, Status
    <2>2. DOMAIN logs' = Logs /\ \A l \in Logs : IsRow(logs'[l])
      <3>1. CASE "insert" \in dirty[c]
        BY <1>0, <1>8, <2>1, <3>1 DEF Write
      <3>2. CASE "insert" \notin dirty[c] /\ Missing(subject[c])
        BY <1>0, <1>8, <3>2 DEF Write
      <3>3. CASE "insert" \notin dirty[c] /\ ~Missing(subject[c])
        <4> DEFINE r == logs[subject[c]]
                   w == [x \in Columns |-> IF x \in dirty[c] THEN kept[c][x] ELSE r[x]]
        <4>1. IsRow(w)
          BY <1>0, <2>1, <3>3, WriteRow DEF Missing
        <4>2. logs' = [logs EXCEPT ![subject[c]] = w]
          BY <1>8, <3>3 DEF Write
        <4> QED
          BY <1>0, <2>1, <4>1, <4>2
      <3> QED
        BY <3>1, <3>2, <3>3
    <2> QED
      BY <1>8, <2>2, ReturnMemory DEF Write, Data
  <1>9. CASE Delete(c)
    <2>1. DOMAIN logs' = Logs /\ \A l \in Logs : IsRow(logs'[l])
      BY <1>0, <1>9, NoRowIsRow DEF Delete
    <2> QED
      BY <1>9, <2>1, ReturnMemory DEF Delete, Data
  <1> QED
    BY <1>1, <1>2, <1>3, <1>4, <1>5, <1>6, <1>7, <1>8, <1>9 DEF Step

LEMMA DieType == ASSUME TypeInv, Die PROVE Data'
  BY NoRowIsRow DEF Die, TypeInv, Data, Domains, Memory, OfLog, Filled

LEMMA NextType == ASSUME TypeInv, [Next]_vars PROVE TypeInv'
  <1>1. ASSUME UNCHANGED vars PROVE Data'
    BY <1>1 DEF vars, worker, table, TypeInv, Data, Domains, Memory
  <1>2. ASSUME Next PROVE Data'
    BY <1>2, RequestType, StepData, DieType DEF Next
  <1> QED
    BY <1>1, <1>2, NextAccount DEF TypeInv

\* The pool keeps its books, only running requests use it, and every row and memory
\* has the type of its columns (ReportGenerationLogEntity; pg's pool).
THEOREM TypeCorrect == Spec => []TypeOK
  <1>1. Spec => []TypeInv
    BY InitType, NextType, PTL DEF Spec
  <1>2. TypeInv => TypeOK
    BY DEF TypeInv, Account, Pool, Using, UsedBy, Data, Memory, TypeOK
  <1> QED
    BY <1>1, <1>2, PTL

-----------------------------------------------------------------------------
(* What a log tells.                                                       *)

AboutSteps == {"insert", "aggregate", "select", "write"}
Ends == {"COMPLETED", "FAILED"}

\* c has log l in memory.
About(c, l) == subject[c] = l /\ step[c] \in AboutSteps

Part(c) ==
    \/ handler[c] = "create" /\ step[c] = "insert"
    \/ /\ handler[c] = "generate" /\ step[c] \in {"insert", "aggregate"}
       /\ kept[c]["status"] = "PROCESSING" /\ ~kept[c]["data"]
    \/ handler[c] = "generate" /\ step[c] \in {"select", "write"} /\ kept[c]["status"] \in Ends
    \/ handler[c] = "update" /\ step[c] \in {"select", "write"}

Parts(l) ==
    /\ \A c \in Workers : About(c, l) =>
          /\ l \in born /\ Part(c)
          /\ handler[c] = "create" => l \in byHand
          /\ handler[c] = "generate" => l \notin answered
    /\ \A c, d \in Workers :
          About(c, l) /\ About(d, l) /\ handler[c] = "generate" /\ handler[d] = "generate"
              => c = d
    /\ l \notin born => Missing(l) /\ l \notin answered

\* A record with outcome e or before any has the data if it is completed.
Honest(r, e) ==
    /\ r["status"] \in {"PROCESSING", e}
    /\ r["data"] <=> r["status"] = "COMPLETED"

\* All copies are of one generation, whose outcome is e, and columns are written
\* together.
Tells(l, e) ==
    /\ Missing(l) \/ Honest(logs[l], e)
    /\ \A c \in Workers : About(c, l) =>
          /\ Honest(kept[c], e)
          /\ step[c] \in {"insert", "aggregate"} => e = "PROCESSING"
          /\ step[c] = "write" /\ "insert" \notin dirty[c] =>
                /\ "data" \in dirty[c] <=> "status" \in dirty[c] /\ e = "COMPLETED"
                /\ "status" \in dirty[c] => e # "PROCESSING"

\* No update has the log in memory while it is generated, nor an old one after.
Undisturbed(l) ==
    /\ \A c \in Workers : About(c, l) /\ handler[c] = "generate" =>
          /\ logs[l]["status"] \in {"None", "PROCESSING"}
          /\ \A d \in Workers : About(d, l) => d = c
          /\ step[c] = "write" =>
                /\ "insert" \notin dirty[c] /\ "status" \in dirty[c]
                /\ kept[c]["data"] => "data" \in dirty[c]
    /\ l \in answered =>
          /\ logs[l]["status"] # "PROCESSING"
          /\ \A c \in Workers : About(c, l) => kept[c]["status"] # "PROCESSING"

Truth(l) ==
    /\ Parts(l)
    /\ l \notin byHand => \E e \in Ends \cup {"PROCESSING"} : Tells(l, e)
    /\ l \notin byHand \cup overlapped => Undisturbed(l)

\* A handler that generates has its log in memory.
Rest ==
    /\ handler = [c \in Workers |-> handler[c]] /\ dirty = [c \in Workers |-> dirty[c]]
    /\ \A c \in Workers : /\ handler[c] = "generate" => step[c] \in AboutSteps
                          /\ step[c] = "read" => handler[c] = "update"
                          /\ step[c] = "idle" => handler[c] = "none"

TruthInv == TypeInv /\ Rest /\ \A l \in Logs : Truth(l)

Only(c) ==
    \A d \in Workers \ {c} :
        /\ step'[d] = step[d] /\ handler'[d] = handler[d] /\ subject'[d] = subject[d]
        /\ kept'[d] = kept[d] /\ dirty'[d] = dirty[d]

\* Whoever has the log in memory had it so before, and the row is as it was or gone.
LEMMA Frame ==
    ASSUME NEW l \in Logs, Truth(l), logs'[l] = logs[l] \/ Missing(l)',
           l \in born' <=> l \in born, l \in answered' <=> l \in answered,
           l \in byHand => l \in byHand', l \in overlapped => l \in overlapped',
           l \notin born => Missing(l)',
           \A d \in Workers : About(d, l)' =>
               /\ About(d, l) /\ step'[d] = step[d] /\ handler'[d] = handler[d]
               /\ kept'[d] = kept[d] /\ dirty'[d] = dirty[d]
    PROVE  Truth(l)'
  <1>1. Parts(l)'
    BY DEF Truth, Parts, Part
  <1>2. ASSUME l \notin byHand' PROVE (\E e \in Ends \cup {"PROCESSING"} : Tells(l, e))'
    <2>1. PICK e \in Ends \cup {"PROCESSING"} : Tells(l, e)
      BY <1>2 DEF Truth
    <2>2. Tells(l, e)'
      BY <2>1 DEF Tells, Honest, Missing
    <2> QED
      BY <2>2
  <1>3. ASSUME l \notin byHand' \cup overlapped' PROVE Undisturbed(l)'
    BY <1>3 DEF Truth, Undisturbed, Missing
  <1> QED
    BY <1>1, <1>2, <1>3 DEF Truth

\* A step of c that leaves c without the log in memory.
LEMMA Others ==
    ASSUME NEW l \in Logs, Truth(l), NEW c \in Workers, Only(c), ~About(c, l)',
           logs'[l] = logs[l] \/ Missing(l)',
           l \in born' <=> l \in born, l \in answered' <=> l \in answered,
           l \in byHand => l \in byHand', l \in overlapped => l \in overlapped',
           l \notin born => Missing(l)'
    PROVE  Truth(l)'
  BY Frame DEF Only, About

LEMMA ReturnOnly ==
    ASSUME TruthInv, NEW c \in Workers, Return(c)
    PROVE  Only(c) /\ Rest' /\ \A l \in Logs : ~About(c, l)'
  BY DEF TruthInv, TypeInv, Account, StepType, Data, Domains, Rest, Return, Only, About, AboutSteps

LEMMA BeginOnly ==
    ASSUME TruthInv, NEW c \in Workers, NEW h, NEW s \in Steps, NEW x, NEW k,
           Begin(c, h, s, x, k), s # "idle",
           h = "generate" => s \in AboutSteps, s = "read" => h = "update"
    PROVE  /\ Only(c) /\ Rest' /\ UNCHANGED <<logs, dirty>>
           /\ step'[c] = s /\ handler'[c] = h /\ subject'[c] = x /\ kept'[c] = k
  BY DEF TruthInv, TypeInv, Account, StepType, Data, Domains, Rest, Begin, Only, table

LEMMA RequestTruth ==
    ASSUME TruthInv, NEW c \in Workers, Request(c)
    PROVE  Rest' /\ \A l \in Logs : Truth(l)'
  <1> USE DEF Steps, AboutSteps
  <1>0. \A l \in Logs : Truth(l) /\ (l \notin born => Missing(l))
    BY DEF TruthInv, Truth, Parts
  <1>1. ASSUME NEW r \in Rows, StockOperation(c, r) PROVE Rest' /\ \A l \in Logs : Truth(l)'
    <2>1. PICK s \in {"snapshot", "change"} : Begin(c, "stock", s, r, NoRow)
      BY <1>1 DEF StockOperation
    <2>2. Only(c) /\ Rest' /\ step'[c] = s /\ logs' = logs
      BY <2>1, BeginOnly
    <2> QED
      BY <1>0, <1>1, <2>2, Others DEF StockOperation, About, history, Missing
  <1>2. ASSUME NEW m \in Logs, UpdateReportLog(c, m, "None") \/ DeleteReportLog(c, m)
               \/ \E s \in Status : UpdateReportLog(c, m, s)
        PROVE  Rest' /\ \A l \in Logs : Truth(l)'
    <2>1. \/ \E k : Begin(c, "update", "read", m, k)
          \/ Begin(c, "delete", "delete", m, NoRow)
      BY <1>2 DEF UpdateReportLog, DeleteReportLog
    <2>2. Only(c) /\ Rest' /\ step'[c] \in {"read", "delete"} /\ logs' = logs
      <3>1. ASSUME NEW k, Begin(c, "update", "read", m, k)
            PROVE  Only(c) /\ Rest' /\ step'[c] = "read" /\ logs' = logs
        BY <3>1, BeginOnly
      <3>2. ASSUME Begin(c, "delete", "delete", m, NoRow)
            PROVE  Only(c) /\ Rest' /\ step'[c] = "delete" /\ logs' = logs
        BY <3>2, BeginOnly
      <3> QED
        BY <2>1, <3>1, <3>2
    <2>3. UNCHANGED <<born, history>>
      BY <1>2 DEF UpdateReportLog, DeleteReportLog
    <2> QED
      BY <1>0, <2>2, <2>3, Others DEF About, history, Missing
  <1>3. ASSUME NEW m \in Logs, NEW h \in {"generate", "create"}, NEW s \in Status, NewLog(c, m, h, s),
               h = "generate" => s = "PROCESSING"
        PROVE  Rest' /\ \A l \in Logs : Truth(l)'
    <2> DEFINE k == [status |-> s, data |-> FALSE]
    <2>1. /\ Only(c) /\ Rest' /\ UNCHANGED <<logs, dirty>>
          /\ step'[c] = "insert" /\ handler'[c] = h /\ subject'[c] = m /\ kept'[c] = k
      BY <1>3, BeginOnly DEF NewLog
    <2>2. /\ m \notin born /\ born' = born \cup {m} /\ UNCHANGED <<answered, overlapped>>
          /\ byHand \subseteq byHand' /\ (h = "create" => m \in byHand') /\ byHand' \subseteq byHand \cup {m}
      BY <1>3 DEF NewLog
    <2>3. ASSUME NEW l \in Logs, l # m PROVE Truth(l)'
      BY <1>0, <2>1, <2>2, <2>3, Others DEF About, Missing
    <2>4. Truth(m)'
      <3>1. Missing(m)' /\ m \notin answered /\ \A d \in Workers : About(d, m)' => d = c
        BY <1>0, <2>1, <2>2 DEF TruthInv, Truth, Parts, Only, About, Missing
      <3>2. k["status"] = s /\ ~k["data"] /\ About(c, m)'
        BY <2>1 DEF About
      <3>3. Parts(m)'
        BY <1>3, <2>1, <2>2, <3>1, <3>2 DEF Parts, Part
      <3>4. m \notin byHand' => Tells(m, "PROCESSING")'
        BY <1>3, <2>1, <2>2, <3>1, <3>2 DEF Tells, Honest
      <3>5. m \notin byHand' => Undisturbed(m)'
        BY <1>3, <2>1, <2>2, <3>1, <3>2 DEF Undisturbed, Missing
      <3> QED
        BY <3>3, <3>4, <3>5 DEF Truth
    <2> QED
      BY <2>1, <2>3, <2>4
  <1>4. Chosen \cup {"PENDING"} \subseteq Status /\ "PROCESSING" \in Status
    BY ChosenAssumption DEF Status
  <1> QED
    BY <1>1, <1>2, <1>3, <1>4 DEF Request, GenerateReport, CreateReportLog

LEMMA InsertTruth == ASSUME TruthInv, NEW c \in Workers, Insert(c)
                     PROVE  Rest' /\ \A l \in Logs : Truth(l)'
  <1> USE DEF Steps, AboutSteps
  <1>m. PICK m \in Logs : m = subject[c]
    BY DEF Insert, At, TruthInv, TypeInv, Data, Memory, OfLog
  <1>0. /\ subject[c] = m /\ About(c, m) /\ step[c] = "insert" /\ kept[c]["status"] \in Status
        /\ IsRow(kept[c]) /\ DOMAIN logs = Logs /\ \A l \in Logs : Truth(l)
    BY <1>m DEF Insert, At, TruthInv, TypeInv, Data, Domains, Memory, OfLog, Filled, About
  <1>1. /\ logs'[m] = kept[c] /\ (\A l \in Logs \ {m} : logs'[l] = logs[l])
        /\ UNCHANGED <<born, byHand, answered, overlapped>>
    BY <1>0 DEF Insert, history
  <1>2. CASE handler[c] = "generate"
    <2>1. /\ Only(c) /\ Rest' /\ step'[c] = "aggregate" /\ handler'[c] = "generate"
          /\ subject'[c] = m /\ kept'[c] = kept[c]
      BY <1>0, <1>2 DEF Insert, Goto, TruthInv, TypeInv, Account, StepType, Data, Domains, Rest, Only
    <2>2. ASSUME NEW l \in Logs, l # m PROVE Truth(l)'
      BY <1>0, <1>1, <2>1, <2>2, Others DEF About, Truth, Parts, Missing
    <2>3. /\ m \in born /\ kept[c]["status"] = "PROCESSING" /\ ~kept[c]["data"] /\ m \notin answered
      BY <1>0, <1>2 DEF Truth, Parts, Part, IsRow
    <2>4. Parts(m)'
      BY <1>0, <1>1, <1>2, <2>1, <2>3 DEF Truth, Parts, Part, Only, About
    <2>5. ASSUME m \notin byHand' PROVE Tells(m, "PROCESSING")'
      <3>1. Tells(m, "PROCESSING")
        BY <1>0, <1>1, <2>5 DEF Truth, Tells
      <3> QED
        BY <1>0, <1>1, <2>1, <2>3, <3>1 DEF Tells, Honest, Only, About
    <2>6. ASSUME m \notin byHand' \cup overlapped' PROVE Undisturbed(m)'
      <3>1. Undisturbed(m)
        BY <1>0, <1>1, <2>6 DEF Truth
      <3> QED
        BY <1>0, <1>1, <1>2, <2>1, <2>3, <3>1 DEF Undisturbed, Only, About
    <2> QED
      BY <2>1, <2>2, <2>4, <2>5, <2>6 DEF Truth
  <1>3. CASE handler[c] # "generate"
    <2>1. Only(c) /\ Rest' /\ \A l \in Logs : ~About(c, l)'
      BY <1>3, ReturnOnly DEF Insert
    <2>2. ASSUME NEW l \in Logs, l # m PROVE Truth(l)'
      BY <1>0, <1>1, <2>1, <2>2, Others DEF Truth, Parts, Missing
    <2>3. m \in byHand' /\ m \in born'
      BY <1>0, <1>1, <1>3 DEF Truth, Parts, Part
    <2>4. Parts(m)'
      <3>1. Parts(m) /\ ~About(c, m)'
        BY <1>0, <2>1 DEF Truth
      <3> QED
        BY <1>1, <2>1, <2>3, <3>1 DEF Parts, Part, Only, About
    <2> QED
      BY <1>0, <2>1, <2>2, <2>3, <2>4 DEF Truth
  <1> QED
    BY <1>2, <1>3

LEMMA AggregateTruth == ASSUME TruthInv, NEW c \in Workers, Aggregate(c)
                        PROVE  Rest' /\ \A l \in Logs : Truth(l)'
  <1> USE DEF Steps, AboutSteps
  <1>m. PICK m \in Logs : m = subject[c]
    BY DEF Aggregate, At, TruthInv, TypeInv, Data, Memory, OfLog
  <1>0. /\ subject[c] = m /\ About(c, m) /\ step[c] = "aggregate" /\ \A l \in Logs : Truth(l)
    BY <1>m DEF Aggregate, At, TruthInv, TypeInv, Data, Domains, Memory, OfLog, About
  <1>1. PICK o \in Outcomes : kept' = [kept EXCEPT ![c] = o]
    BY DEF Aggregate
  <1>2. /\ Only(c) /\ Rest' /\ step'[c] = "select" /\ handler'[c] = handler[c]
        /\ subject'[c] = m /\ kept'[c] = o /\ logs' = logs
        /\ UNCHANGED <<born, byHand, answered, overlapped>>
    BY <1>0, <1>1
    DEF Aggregate, Goto, TruthInv, TypeInv, Account, StepType, Data, Domains, Rest, Only, table, history
  <1>3. o["status"] \in Ends /\ (o["data"] <=> o["status"] = "COMPLETED")
    <2> DEFINE good == [status |-> "COMPLETED", data |-> TRUE]
               bad == [status |-> "FAILED", data |-> FALSE]
    <2>1. good["status"] = "COMPLETED" /\ good["data"] /\ bad["status"] = "FAILED" /\ ~bad["data"]
      OBVIOUS
    <2>2. o \in {good, bad}
      BY DEF Outcomes
    <2> HIDE DEF good, bad
    <2> QED
      BY <2>1, <2>2 DEF Ends
  <1>4. ASSUME NEW l \in Logs, l # m PROVE Truth(l)'
    BY <1>0, <1>2, <1>4, Others DEF About, Truth, Parts, Missing
  <1>5. handler[c] = "generate" /\ m \in born /\ m \notin answered
    BY <1>0 DEF Truth, Parts, Part
  <1>6. Parts(m)'
    BY <1>0, <1>2, <1>3, <1>5 DEF Truth, Parts, Part, Only, About, Missing
  <1>7. ASSUME m \notin byHand' PROVE Tells(m, o["status"])'
    <2>1. Tells(m, "PROCESSING")
      BY <1>0, <1>2, <1>7 DEF Truth, Tells
    <2>2. \A d \in Workers : About(d, m) /\ step[d] \in {"insert", "aggregate"} => d = c
      BY <1>0, <1>2, <1>5, <1>7 DEF Truth, Parts, Part
    <2> QED
      BY <1>0, <1>2, <1>3, <2>1, <2>2 DEF Tells, Honest, Only, About, Missing
  <1>8. ASSUME m \notin byHand' \cup overlapped' PROVE Undisturbed(m)'
    <2>1. Undisturbed(m)
      BY <1>0, <1>2, <1>8 DEF Truth
    <2> QED
      BY <1>0, <1>2, <1>3, <1>5, <2>1 DEF Undisturbed, Only, About
  <1> QED
    BY <1>2, <1>3, <1>4, <1>6, <1>7, <1>8 DEF Truth

LEMMA ReadTruth == ASSUME TruthInv, NEW c \in Workers, Read(c)
                   PROVE  Rest' /\ \A l \in Logs : Truth(l)'
  <1> USE DEF Steps, AboutSteps
  <1>m. PICK m \in Logs : m = subject[c]
    BY DEF Read, At, TruthInv, TypeInv, Data, Memory, OfLog
  <1>0. /\ ~About(c, m) /\ step[c] = "read" /\ handler[c] = "update"
        /\ IsRow(logs[m]) /\ \A l \in Logs : Truth(l)
    BY <1>m DEF Read, At, TruthInv, TypeInv, Data, Rest, About
  <1>1. UNCHANGED <<logs, born, answered>>
    BY DEF Read, table
  <1>2. CASE Missing(m)
    <2>1. UNCHANGED <<byHand, overlapped>> /\ Only(c) /\ Rest' /\ \A l \in Logs : ~About(c, l)'
      BY <1>m, <1>2, ReturnOnly DEF Read
    <2> QED
      BY <1>0, <1>1, <2>1, Others DEF Truth, Parts, Missing
  <1>3. CASE ~Missing(m)
    <2> DEFINE given == kept[c]["status"]
               k == IF given = "None" THEN logs[m] ELSE [logs[m] EXCEPT !["status"] = given]
    <2>1. /\ Only(c) /\ Rest' /\ step'[c] = "select" /\ handler'[c] = "update"
          /\ subject'[c] = m /\ kept'[c] = k
      BY <1>m, <1>0, <1>3
      DEF Read, Goto, TruthInv, TypeInv, Account, StepType, Data, Domains, Rest, Only
    <2>2. /\ byHand \subseteq byHand' /\ byHand' \subseteq byHand \cup {m}
          /\ overlapped \subseteq overlapped' /\ overlapped' \subseteq overlapped \cup {m}
          /\ m \notin byHand' => k = logs[m]
          /\ m \notin overlapped' =>
                \A d \in Workers : ~(handler[d] = "generate" /\ subject[d] = m)
      BY <1>m, <1>3 DEF Read
    <2>3. ASSUME NEW l \in Logs, l # m PROVE Truth(l)'
      BY <1>0, <1>1, <2>1, <2>2, <2>3, Others DEF About, Truth, Parts, Missing
    <2>4. m \in born
      BY <1>0, <1>3 DEF Truth, Parts
    <2> HIDE DEF k
    <2>5. Parts(m)'
      BY <1>0, <1>1, <2>1, <2>2, <2>4 DEF Truth, Parts, Part, Only, About, Missing
    <2>6. ASSUME m \notin byHand' PROVE (\E e \in Ends \cup {"PROCESSING"} : Tells(m, e))'
      <3>1. PICK e \in Ends \cup {"PROCESSING"} : Tells(m, e)
        BY <1>0, <2>2, <2>6 DEF Truth
      <3>2. Tells(m, e)'
        BY <1>0, <1>1, <1>3, <2>1, <2>2, <2>6, <3>1 DEF Tells, Honest, Only, About, Missing
      <3> QED
        BY <3>2
    <2>7. ASSUME m \notin byHand' \cup overlapped' PROVE Undisturbed(m)'
      <3>1. Undisturbed(m) /\ k = logs[m]
        BY <1>0, <2>2, <2>7 DEF Truth
      <3>2. \A d \in Workers : About(d, m)' => handler'[d] # "generate"
        BY <2>1, <2>2, <2>7 DEF Only, About
      <3> QED
        BY <1>0, <1>1, <2>1, <3>1, <3>2 DEF Undisturbed, Only, About
    <2> QED
      BY <2>1, <2>3, <2>5, <2>6, <2>7 DEF Truth
  <1> QED
    BY <1>2, <1>3

LEMMA SelectTruth == ASSUME TruthInv, NEW c \in Workers, Select(c)
                     PROVE  Rest' /\ \A l \in Logs : Truth(l)'
  <1> USE DEF Steps, AboutSteps
  <1>m. PICK m \in Logs : m = subject[c]
    BY DEF Select, At, TruthInv, TypeInv, Data, Memory, OfLog
  <1>0. /\ About(c, m) /\ step[c] = "select" /\ IsRow(logs[m]) /\ IsRow(kept[c])
        /\ \A l \in Logs : Truth(l)
    BY <1>m DEF Select, At, TruthInv, TypeInv, Data, Memory, Rest, About
  <1>1. UNCHANGED <<logs, born, byHand, answered, overlapped>>
    BY DEF Select, table, history
  <1>2. CASE Missing(m) /\ handler[c] = "generate"
    <2>1. Only(c) /\ Rest' /\ \A l \in Logs : ~About(c, l)'
      BY <1>m, <1>2, ReturnOnly DEF Select
    <2> QED
      BY <1>0, <1>1, <2>1, Others DEF Truth, Parts, Missing
  <1>3. CASE ~(Missing(m) /\ handler[c] = "generate")
    <2> DEFINE D == IF Missing(m) THEN {"insert"} ELSE {x \in Given(c) : kept[c][x] # logs[m][x]}
    <2>1. /\ Only(c) /\ Rest' /\ step'[c] = "write" /\ handler'[c] = handler[c]
          /\ subject'[c] = m /\ kept'[c] = kept[c] /\ dirty'[c] = D
      BY <1>m, <1>0, <1>3
      DEF Select, Goto, TruthInv, TypeInv, Account, StepType, Data, Domains, Rest, Only
    <2>2. ASSUME NEW l \in Logs, l # m PROVE Truth(l)'
      BY <1>0, <1>1, <2>1, <2>2, Others DEF About, Truth, Parts, Missing
    <2>3. Parts(m)'
      BY <1>0, <1>1, <2>1 DEF Truth, Parts, Part, Only, About, Missing
    <2>4. "insert" \notin D =>
             /\ ~Missing(m)
             /\ "status" \in D <=> kept[c]["status"] # logs[m]["status"]
             /\ "data" \in D <=> kept[c]["data"] # logs[m]["data"]
                                 /\ (handler[c] = "generate" => kept[c]["data"])
      BY DEF Given, Columns
    <2> HIDE DEF D
    <2>5. ASSUME m \notin byHand PROVE (\E e \in Ends \cup {"PROCESSING"} : Tells(m, e))'
      <3>1. PICK e \in Ends \cup {"PROCESSING"} : Tells(m, e)
        BY <1>0, <2>5 DEF Truth
      <3>2. handler[c] = "generate" => kept[c]["status"] \in Ends
        BY <1>0 DEF Truth, Parts, Part
      <3>3. "insert" \notin D => /\ "data" \in D <=> "status" \in D /\ e = "COMPLETED"
                                 /\ "status" \in D => e # "PROCESSING"
        BY <1>0, <2>4, <3>1, <3>2 DEF Tells, Honest, Ends, IsRow, Missing
      <3>4. Tells(m, e)'
        BY <1>0, <1>1, <2>1, <3>1, <3>3 DEF Tells, Honest, Only, About, Missing
      <3> QED
        BY <3>4
    <2>6. ASSUME m \notin byHand \cup overlapped PROVE Undisturbed(m)'
      <3>1. Undisturbed(m) /\ Parts(m) /\ \E e \in Ends \cup {"PROCESSING"} : Tells(m, e)
        BY <1>0, <2>6 DEF Truth
      <3>2. handler[c] = "generate" =>
              /\ "insert" \notin D /\ "status" \in D
              /\ kept[c]["data"] => "data" \in D
        <4> SUFFICES ASSUME handler[c] = "generate" PROVE /\ "insert" \notin D /\ "status" \in D
                                                          /\ kept[c]["data"] => "data" \in D
          OBVIOUS
        <4>1. ~Missing(m) /\ logs[m]["status"] = "PROCESSING" /\ kept[c]["status"] \in Ends
          BY <1>0, <1>3, <3>1 DEF Undisturbed, Parts, Part, Missing
        <4>2. "insert" \notin D
          BY <4>1 DEF D, Given, Columns
        <4>3. ~logs[m]["data"]
          BY <3>1, <4>1 DEF Tells, Honest, Missing
        <4> QED
          BY <1>0, <2>4, <4>1, <4>2, <4>3 DEF Ends, IsRow
      <3> QED
        BY <1>0, <1>1, <2>1, <3>1, <3>2 DEF Undisturbed, Only, About
    <2> QED
      BY <1>1, <2>1, <2>2, <2>3, <2>5, <2>6 DEF Truth
  <1> QED
    BY <1>2, <1>3

LEMMA WriteTruth == ASSUME TruthInv, NEW c \in Workers, Write(c)
                    PROVE  Rest' /\ \A l \in Logs : Truth(l)'
  <1> USE DEF Steps, AboutSteps
  <1>m. PICK m \in Logs : m = subject[c]
    BY DEF Write, At, TruthInv, TypeInv, Data, Memory, OfLog
  <1>0. /\ About(c, m) /\ step[c] = "write" /\ IsRow(logs[m]) /\ IsRow(kept[c])
        /\ kept[c]["status"] \in Status /\ DOMAIN logs = Logs /\ \A l \in Logs : Truth(l)
    BY <1>m DEF Write, At, TruthInv, TypeInv, Data, Domains, Memory, Filled, About
  <1>1. /\ UNCHANGED <<born, byHand, overlapped>>
        /\ answered' = IF handler[c] = "generate" THEN answered \cup {m} ELSE answered
    BY <1>m DEF Write
  <1>2. Only(c) /\ Rest' /\ \A l \in Logs : ~About(c, l)'
    BY ReturnOnly DEF Write
  <1>3. /\ \A l \in Logs \ {m} : logs'[l] = logs[l]
        /\ "insert" \in dirty[c] => logs'[m] = kept[c]
        /\ "insert" \notin dirty[c] /\ Missing(m) => logs'[m] = logs[m]
        /\ "insert" \notin dirty[c] /\ ~Missing(m) =>
              /\ logs'[m]["status"] = (IF "status" \in dirty[c] THEN kept[c]["status"] ELSE logs[m]["status"])
              /\ logs'[m]["data"] = (IF "data" \in dirty[c] THEN kept[c]["data"] ELSE logs[m]["data"])
    <2>1. CASE "insert" \in dirty[c]
      BY <1>m, <1>0, <2>1 DEF Write
    <2>2. CASE "insert" \notin dirty[c] /\ Missing(m)
      BY <1>m, <1>0, <2>2 DEF Write
    <2>3. CASE "insert" \notin dirty[c] /\ ~Missing(m)
      <3> DEFINE w == [x \in Columns |-> IF x \in dirty[c] THEN kept[c][x] ELSE logs[m][x]]
      <3>1. logs' = [logs EXCEPT ![m] = w]
        BY <1>m, <2>3 DEF Write
      <3>2. /\ w["status"] = (IF "status" \in dirty[c] THEN kept[c]["status"] ELSE logs[m]["status"])
            /\ w["data"] = (IF "data" \in dirty[c] THEN kept[c]["data"] ELSE logs[m]["data"])
        BY DEF Columns
      <3> HIDE DEF w
      <3> QED
        BY <1>0, <2>3, <3>1, <3>2
    <2> QED
      BY <2>1, <2>2, <2>3
  <1>4. ASSUME NEW l \in Logs, l # m PROVE Truth(l)'
    BY <1>0, <1>1, <1>2, <1>3, <1>4, Others DEF Truth, Parts, Missing
  <1>5. m \in born
    BY <1>0 DEF Truth, Parts
  <1>6. Parts(m)'
    <2>1. Parts(m) /\ ~About(c, m)'
      BY <1>0, <1>2 DEF Truth
    <2> QED
      BY <1>0, <1>1, <1>2, <1>5, <2>1 DEF Parts, Part, Only, About
  <1>7. ASSUME m \notin byHand' PROVE (\E e \in Ends \cup {"PROCESSING"} : Tells(m, e))'
    <2>1. PICK e \in Ends \cup {"PROCESSING"} : Tells(m, e)
      BY <1>0, <1>1, <1>7 DEF Truth
    <2>2. Missing(m)' \/ Honest(logs'[m], e)
      BY <1>0, <1>3, <2>1 DEF Tells, Honest, Missing, IsRow
    <2>3. Tells(m, e)'
      <3>1. ~About(c, m)'
        BY <1>2
      <3>2. Honest(logs[m], e)' <=> Honest(logs'[m], e)
        BY DEF Honest
      <3> QED
        BY <1>2, <2>1, <2>2, <3>1, <3>2 DEF Tells, Honest, Only, About
    <2> QED
      BY <2>3
  <1>8. ASSUME m \notin byHand' \cup overlapped' PROVE Undisturbed(m)'
    <2>1. Undisturbed(m) /\ Parts(m)
      BY <1>0, <1>1, <1>8 DEF Truth
    <2>2. PICK e \in Ends \cup {"PROCESSING"} : Tells(m, e)
      BY <1>0, <1>1, <1>8 DEF Truth
    <2>3. ~About(c, m)'
      BY <1>2
    <2>4. CASE handler[c] = "generate"
      <3>1. \A d \in Workers : ~About(d, m)'
        BY <1>0, <1>2, <2>1, <2>3, <2>4 DEF Undisturbed, Only, About
      <3>2. kept[c]["status"] \in Ends
        BY <1>0, <2>1, <2>4 DEF Parts, Part
      <3>3. logs'[m]["status"] # "PROCESSING"
        BY <1>0, <1>3, <2>1, <2>4, <3>2 DEF Undisturbed, Ends, Missing
      <3> QED
        BY <3>1, <3>3 DEF Undisturbed
    <2>5. CASE handler[c] # "generate"
      <3>1. \A d \in Workers : About(d, m) => handler[d] # "generate"
        BY <1>0, <2>1, <2>5 DEF Undisturbed
      <3>2. m \in answered => logs'[m]["status"] # "PROCESSING"
        BY <1>0, <1>3, <2>1, <2>2 DEF Undisturbed, Tells, Missing
      <3> QED
        BY <1>1, <1>2, <2>1, <2>3, <2>5, <3>1, <3>2 DEF Undisturbed, Only, About
    <2> QED
      BY <2>4, <2>5
  <1> QED
    BY <1>2, <1>4, <1>6, <1>7, <1>8 DEF Truth

LEMMA StepTruth == ASSUME TruthInv, NEW c \in Workers, Step(c)
                   PROVE  Rest' /\ \A l \in Logs : Truth(l)'
  <1> USE DEF Steps, AboutSteps
  <1>0. \A l \in Logs : Truth(l) /\ (l \notin born => Missing(l))
    BY DEF TruthInv, Truth, Parts
  <1>1. CASE Connect(c)
    BY <1>0, <1>1, Frame
    DEF Connect, table, worker, history, TruthInv, Rest, About, Missing
  <1>2. CASE Snapshot(c) \/ Change(c) \/ WriteLog(c)
    <2>1. /\ UNCHANGED <<logs, born, byHand, answered, overlapped, handler, subject, kept, dirty>>
          /\ step[c] \in {"snapshot", "change", "log"}
          /\ \E s \in {"change", "log", "commit"} : Goto(c, s)
      BY <1>2 DEF Snapshot, Change, WriteLog, At, table, history
    <2>2. Only(c) /\ Rest' /\ step'[c] \in {"change", "log", "commit"}
      BY <2>1 DEF Goto, TruthInv, TypeInv, Account, StepType, Rest, Only
    <2> QED
      BY <1>0, <2>1, <2>2, Others DEF About, Missing
  <1>3. CASE Commit(c) \/ Fail(c)
    <2>1. Only(c) /\ Rest' /\ \A l \in Logs : ~About(c, l)'
      BY <1>3, ReturnOnly DEF Commit, Fail
    <2> QED
      BY <1>0, <1>3, <2>1, Others DEF Commit, Fail, history, Missing
  <1>4. CASE Delete(c)
    <2>1. Only(c) /\ Rest' /\ \A l \in Logs : ~About(c, l)'
      BY <1>4, ReturnOnly DEF Delete
    <2>2. \A l \in Logs : logs'[l] = logs[l] \/ Missing(l)'
      BY <1>4, NoRowIsRow DEF Delete, Missing, TruthInv, TypeInv, Data, Domains
    <2> QED
      BY <1>0, <1>4, <2>1, <2>2, Others DEF Delete, history, Missing
  <1> QED
    BY <1>1, <1>2, <1>3, <1>4, InsertTruth, AggregateTruth, ReadTruth, SelectTruth, WriteTruth
    DEF Step

LEMMA NextTruth == ASSUME TruthInv, [Next]_vars PROVE TruthInv'
  <1>0. \A l \in Logs : Truth(l) /\ (l \notin born => Missing(l))
    BY DEF TruthInv, Truth, Parts
  <1>1. ASSUME Die PROVE Rest' /\ \A l \in Logs : Truth(l)'
    <2>1. /\ UNCHANGED <<logs, born, byHand, answered, overlapped>>
          /\ \A l \in Logs, d \in Workers : ~About(d, l)'
      BY <1>1 DEF Die, About, AboutSteps, history
    <2>2. Rest'
      BY <1>1 DEF Die, Rest
    <2> QED
      BY <1>0, <2>1, <2>2, Frame DEF Missing
  <1>2. ASSUME UNCHANGED vars PROVE Rest' /\ \A l \in Logs : Truth(l)'
    BY <1>0, <1>2, Frame DEF vars, table, worker, history, TruthInv, Rest, About, Missing
  <1>3. TypeInv'
    BY NextType DEF TruthInv
  <1> QED
    BY <1>1, <1>2, <1>3, RequestTruth, StepTruth DEF Next, TruthInv

LEMMA InitTruth == Init => TruthInv
  <1> SUFFICES ASSUME Init PROVE TruthInv
    OBVIOUS
  <1>1. Rest /\ \A l \in Logs, c \in Workers : ~About(c, l)
    BY DEF Init, Rest, About, AboutSteps
  <1>2. \A l \in Logs : Missing(l) /\ l \notin answered
    BY NoRowIsRow DEF Init, Missing
  <1> QED
    BY <1>1, <1>2, InitType DEF TruthInv, Truth, Parts, Tells, Undisturbed

\* A log whose status no client has set is COMPLETED only with its data, and one
\* whose generation has answered is COMPLETED or FAILED unless an update read it
\* before, through whole-row saves, deletions, failed statements and deaths, for any
\* pool and any number of requests (GenerateReportCommandHandler, UpdateReportLogCommandHandler).
THEOREM LogsAreTrue == Spec => []LogIsTrue
  <1>1. Spec => []TruthInv
    BY InitTruth, NextTruth, PTL DEF Spec
  <1>2. TruthInv => LogIsTrue
    <2> SUFFICES ASSUME TruthInv, NEW l \in Logs \ byHand
                 PROVE  /\ logs[l]["status"] = "COMPLETED" => logs[l]["data"]
                        /\ l \in answered \ overlapped =>
                              logs[l]["status"] \in {"COMPLETED", "FAILED", "None"}
      BY DEF LogIsTrue
    <2>1. Truth(l)
      BY DEF TruthInv
    <2>2. PICK e \in Ends \cup {"PROCESSING"} : Tells(l, e)
      BY <2>1 DEF Truth
    <2> QED
      BY <2>1, <2>2 DEF Truth, Tells, Honest, Missing, Undisturbed, Ends
  <1> QED
    BY <1>1, <1>2, PTL
=============================================================================
