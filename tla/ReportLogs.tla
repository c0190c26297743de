----------------------------- MODULE ReportLogs -----------------------------
(***************************************************************************)
(* The connections that requests take from the pool, and the logs of       *)
(* generated reports.                                                      *)
(*                                                                         *)
(* A stock operation of the orchestrator holds one connection for its      *)
(* transaction, and within it waits for a second one to write the product  *)
(* log.  A report handler takes one at a time: to insert its log, to       *)
(* aggregate, to save the outcome.  What the transaction does to its row   *)
(* is StockLedger's business; here it locks one.                           *)
(***************************************************************************)
EXTENDS ConnectionPool

CONSTANTS
    Workers,  \* requests that can be running at once
    Logs,     \* identities of report_generation_logs rows
    Rows,     \* stock rows
    Chosen,   \* statuses that clients give
    MaxJobs,  \* bound on the requests started
    None      \* no row, no log

ASSUME NoneAssumption == None \notin Workers \cup Logs \cup Rows
Status == {"PENDING", "PROCESSING", "COMPLETED", "FAILED"}
ASSUME ChosenAssumption == Chosen \subseteq Status
ASSUME MaxJobsAssumption == MaxJobs \in Nat

Columns == {"status", "data"}
NoRow == [status |-> "None", data |-> FALSE]

VARIABLES
    logs,        \* the table; data: whether report_data is there
    lock,        \* which transaction has locked a stock row
    handler,     \* what each worker runs: "none" when idle
    step,        \* where it is
    subject,     \* the stock row or report log it is about
    kept,        \* the log in memory
    dirty,       \* columns save has decided to write
    jobs,        \* requests started so far
    born,        \* history: logs given an identity
    byHand,      \* history: logs whose status a client has set
    answered,    \* history: logs whose generation has answered
    overlapped   \* history: logs read by an update during their generation

table   == <<logs, lock>>
worker  == <<handler, step, subject, kept, dirty>>
pool    == <<held, queue>>
history == <<byHand, answered, overlapped>>
vars    == <<table, worker, pool, jobs, born, history>>

Init ==
    /\ logs = [l \in Logs |-> NoRow]
    /\ lock = [r \in Rows |-> None]
    /\ handler = [c \in Workers |-> "none"]
    /\ step = [c \in Workers |-> "idle"]
    /\ subject = [c \in Workers |-> None]
    /\ kept = [c \in Workers |-> NoRow]
    /\ dirty = [c \in Workers |-> {}]
    /\ Empty
    /\ jobs = 0
    /\ born = {} /\ byHand = {} /\ answered = {} /\ overlapped = {}

-----------------------------------------------------------------------------
(* The connection a step runs on.                                          *)

Connection(c) ==
    <<c, CASE step[c] \in {"change", "commit"} -> "transaction"
           [] step[c] = "log" -> "log"
           [] step[c] = "aggregate" -> "runner"
           [] OTHER -> "short">>

Missing(l) == logs[l]["status"] = "None"

At(c, s) == step[c] = s /\ Connection(c) \in held

Done(c) == Release(Connection(c))

Goto(c, s) == step' = [step EXCEPT ![c] = s]

Return(c) ==
    /\ handler' = [handler EXCEPT ![c] = "none"]
    /\ step' = [step EXCEPT ![c] = "idle"]
    /\ subject' = [subject EXCEPT ![c] = None]
    /\ kept' = [kept EXCEPT ![c] = NoRow]
    /\ dirty' = [dirty EXCEPT ![c] = {}]

Unlock(c) == lock' = [r \in Rows |-> IF lock[r] = c THEN None ELSE lock[r]]

\* Mutant: a task that waits asks again.
ConnectAgain(c) ==
    /\ step[c] # "idle"
    /\ Connection(c) \notin held
    /\ Ask(Connection(c))
    /\ UNCHANGED <<table, worker, jobs, born, history>>

Connect(c) ==
    /\ step[c] # "idle"
    /\ ~Asked(Connection(c))
    /\ Ask(Connection(c))
    /\ UNCHANGED <<table, worker, jobs, born, history>>

Begin(c, h, first, x, k) ==
    /\ step[c] = "idle"
    /\ jobs < MaxJobs
    /\ jobs' = jobs + 1
    /\ handler' = [handler EXCEPT ![c] = h]
    /\ step' = [step EXCEPT ![c] = first]
    /\ subject' = [subject EXCEPT ![c] = x]
    /\ kept' = [kept EXCEPT ![c] = k]
    /\ UNCHANGED <<table, dirty, pool>>

-----------------------------------------------------------------------------
(* Requests.                                                               *)

\* An adjustment reads its row before the transaction, every other operation
\* opens it at once.
StockOperation(c, r) ==
    /\ \E first \in {"snapshot", "change"} : Begin(c, "stock", first, r, NoRow)
    /\ UNCHANGED <<born, history>>

\* A new log that a client posts, PENDING unless a status is given, or that a
\* generation starts with.
NewLog(c, l, h, s) ==
    /\ l \notin born
    /\ born' = born \cup {l}
    /\ Begin(c, h, "insert", l, [status |-> s, data |-> FALSE])
    /\ byHand' = IF h = "create" THEN byHand \cup {l} ELSE byHand
    /\ UNCHANGED <<answered, overlapped>>

GenerateReport(c, l) == NewLog(c, l, "generate", "PROCESSING")
CreateReportLog(c, l, s) == NewLog(c, l, "create", s)

\* s is the status given, if any; a file or a message shows nothing here.
UpdateReportLog(c, l, s) ==
    /\ Begin(c, "update", "read", l, [status |-> s, data |-> FALSE])
    /\ UNCHANGED <<born, history>>

DeleteReportLog(c, l) ==
    /\ Begin(c, "delete", "delete", l, NoRow)
    /\ UNCHANGED <<born, history>>

-----------------------------------------------------------------------------
(* A stock operation.                                                      *)

\* Mutant: the snapshot's connection is kept through the transaction.
SnapshotKept(c) ==
    /\ At(c, "snapshot")
    /\ Goto(c, "change")
    /\ UNCHANGED <<table, handler, subject, kept, dirty, pool, jobs, born, history>>

Snapshot(c) ==
    /\ At(c, "snapshot")
    /\ Done(c)
    /\ Goto(c, "change")
    /\ UNCHANGED <<table, handler, subject, kept, dirty, jobs, born, history>>

\* The row stays locked to the end of the transaction.
Change(c) ==
    /\ At(c, "change")
    /\ lock[subject[c]] = None
    /\ lock' = [lock EXCEPT ![subject[c]] = c]
    /\ Goto(c, "log")
    /\ UNCHANGED <<logs, handler, subject, kept, dirty, pool, jobs, born, history>>

\* Written or not: an error is swallowed.
WriteLog(c) ==
    /\ At(c, "log")
    /\ Done(c)
    /\ Goto(c, "commit")
    /\ UNCHANGED <<table, handler, subject, kept, dirty, jobs, born, history>>

Commit(c) ==
    /\ At(c, "commit")
    /\ Done(c)
    /\ Unlock(c)
    /\ Return(c)
    /\ UNCHANGED <<logs, jobs, born, history>>

-----------------------------------------------------------------------------
(* A report log.                                                           *)

Insert(c) ==
    /\ At(c, "insert")
    /\ logs' = [logs EXCEPT ![subject[c]] = kept[c]]
    /\ Done(c)
    /\ IF handler[c] = "generate"
       THEN Goto(c, "aggregate") /\ UNCHANGED <<handler, subject, kept, dirty>>
       ELSE Return(c)
    /\ UNCHANGED <<lock, jobs, born, history>>

Outcomes == {[status |-> "COMPLETED", data |-> TRUE], [status |-> "FAILED", data |-> FALSE]}

\* Mutant: the query runner is not released when the aggregation fails.
AggregateLeaks(c) ==
    /\ At(c, "aggregate")
    /\ \E o \in Outcomes :
          /\ kept' = [kept EXCEPT ![c] = o]
          /\ IF o.data THEN Done(c) ELSE UNCHANGED pool
    /\ Goto(c, "select")
    /\ UNCHANGED <<table, handler, subject, dirty, jobs, born, history>>

\* The queries succeed or one of them fails.
Aggregate(c) ==
    /\ At(c, "aggregate")
    /\ \E o \in Outcomes : kept' = [kept EXCEPT ![c] = o]
    /\ Done(c)
    /\ Goto(c, "select")
    /\ UNCHANGED <<table, handler, subject, dirty, jobs, born, history>>

\* An update works on the whole row as read here; there must be one.
Read(c) ==
    LET l == subject[c]
        given == kept[c]["status"]
    IN
    /\ At(c, "read")
    /\ Done(c)
    /\ IF Missing(l)
       THEN Return(c) /\ UNCHANGED <<byHand, overlapped>>
       ELSE /\ kept' = [kept EXCEPT ![c] =
                           IF given = "None" THEN logs[l] ELSE [logs[l] EXCEPT !["status"] = given]]
            /\ byHand' = IF given = "None" THEN byHand ELSE byHand \cup {l}
            /\ overlapped' =
                  IF \E d \in Workers : handler[d] = "generate" /\ subject[d] = l
                  THEN overlapped \cup {l} ELSE overlapped
            /\ Goto(c, "select")
            /\ UNCHANGED <<handler, subject, dirty>>
    /\ UNCHANGED <<table, jobs, born, answered>>

\* The columns a handler gives: a generation's are status and, if it succeeded,
\* data; an update's are all.
Given(c) == IF handler[c] = "generate" /\ ~kept[c]["data"] THEN {"status"} ELSE Columns

\* save selects the row, on the connection it then writes on.  A row that is gone
\* is inserted again, which its missing columns forbid to a generation.
Select(c) ==
    LET l == subject[c] IN
    /\ At(c, "select")
    /\ IF Missing(l) /\ handler[c] = "generate"
       THEN Done(c) /\ Return(c)
       ELSE /\ dirty' = [dirty EXCEPT ![c] =
                            IF Missing(l) THEN {"insert"}
                            ELSE {x \in Given(c) : kept[c][x] # logs[l][x]}]
            /\ Goto(c, "write")
            /\ UNCHANGED <<handler, subject, kept, pool>>
    /\ UNCHANGED <<table, jobs, born, history>>

\* Mutant: only the status of a finished report is saved.
WriteStatus(c) ==
    LET l == subject[c] IN
    /\ At(c, "write")
    /\ "insert" \in dirty[c] => Missing(l)
    /\ logs' = CASE "insert" \in dirty[c] -> [logs EXCEPT ![l] = kept[c]]
                 [] "insert" \notin dirty[c] /\ Missing(l) -> logs
                 [] OTHER -> [logs EXCEPT ![l]["status"] = kept[c]["status"]]
    /\ answered' = IF handler[c] = "generate" THEN answered \cup {l} ELSE answered
    /\ Done(c)
    /\ Return(c)
    /\ UNCHANGED <<lock, jobs, born, byHand, overlapped>>

\* A row removed since is updated in vain, one inserted since refuses a second.
Write(c) ==
    LET l == subject[c] IN
    /\ At(c, "write")
    /\ "insert" \in dirty[c] => Missing(l)
    /\ logs' = CASE "insert" \in dirty[c] -> [logs EXCEPT ![l] = kept[c]]
                 [] "insert" \notin dirty[c] /\ Missing(l) -> logs
                 [] OTHER -> [logs EXCEPT ![l] =
                                 [x \in Columns |-> IF x \in dirty[c] THEN kept[c][x] ELSE @[x]]]
    /\ answered' = IF handler[c] = "generate" THEN answered \cup {l} ELSE answered
    /\ Done(c)
    /\ Return(c)
    /\ UNCHANGED <<lock, jobs, born, byHand, overlapped>>

Delete(c) ==
    /\ At(c, "delete")
    /\ logs' = [logs EXCEPT ![subject[c]] = NoRow]
    /\ Done(c)
    /\ Return(c)
    /\ UNCHANGED <<lock, jobs, born, history>>

-----------------------------------------------------------------------------
\* A statement fails and its handler with it, though none fails for waiting: a
\* transaction is rolled back, and a generation whose last save
\* is refused leaves its log as it is.
Fail(c) ==
    /\ step[c] \notin {"idle", "log", "aggregate"}
    /\ step[c] = "change" => lock[subject[c]] = None
    /\ Connection(c) \in held
    /\ Done(c)
    /\ Unlock(c)
    /\ Return(c)
    /\ UNCHANGED <<logs, jobs, born, history>>

\* The process dies with all its requests; the tables stay.
Die ==
    /\ \E c \in Workers : step[c] # "idle"
    /\ handler' = [c \in Workers |-> "none"]
    /\ step' = [c \in Workers |-> "idle"]
    /\ subject' = [c \in Workers |-> None]
    /\ kept' = [c \in Workers |-> NoRow]
    /\ dirty' = [c \in Workers |-> {}]
    /\ held' = {} /\ queue' = <<>>
    /\ lock' = [r \in Rows |-> None]
    /\ UNCHANGED <<logs, jobs, born, history>>

Request(c) ==
    \/ \E r \in Rows : StockOperation(c, r)
    \/ \E l \in Logs :
          \/ GenerateReport(c, l)
          \/ \E s \in Chosen \cup {"PENDING"} : CreateReportLog(c, l, s)
          \/ \E s \in Chosen \cup {"None"} : UpdateReportLog(c, l, s)
          \/ DeleteReportLog(c, l)

Step(c) ==
    \/ Connect(c)
    \/ Snapshot(c) \/ Change(c) \/ WriteLog(c) \/ Commit(c)
    \/ Insert(c) \/ Aggregate(c) \/ Read(c) \/ Select(c) \/ Write(c) \/ Delete(c)
    \/ Fail(c)

Next == Die \/ \E c \in Workers : Request(c) \/ Step(c)

\* Node serves every callback and the database every statement in the end.
Fairness == \A c \in Workers : WF_vars(Step(c))

Spec == Init /\ [][Next]_vars /\ Fairness
-----------------------------------------------------------------------------
(* Properties.                                                             *)

IsRow(r) ==
    /\ r["status"] \in Status \cup {"None"} /\ r["data"] \in BOOLEAN
    /\ r["status"] = "None" => ~r["data"]

\* The pool keeps its books, only running requests have connections or wait, and
\* rows and memories have the types of their columns.
TypeOK ==
    /\ PoolOK
    /\ \A l \in Logs : IsRow(logs[l])
    /\ \A c \in Workers : IsRow(kept[c]) /\ (step[c] = "idle" <=> subject[c] = None)
    /\ \A t \in held \cup Range(queue) : step[t[1]] # "idle"

\* Stock transactions that have their connection.
Open == {t \in held : t[2] = "transaction"}

\* While fewer stock transactions are open than there are connections, somebody
\* who waits for one waits for a task that has all it needs: waiting for the
\* product log within a transaction (stock-orchestration.service.ts:43) can stop
\* the process only when transactions hold the whole pool.
PoolMoves ==
    queue # <<>> /\ Cardinality(Open) < Size =>
        \E t \in held : t[2] # "transaction" /\ Connection(t[1]) = t

\* Every connection is a transaction's that waits for a log or a locked row.
Stalled ==
    /\ Cardinality(Open) = Size
    /\ \A t \in Open :
          \/ step[t[1]] = "log"
          \/ step[t[1]] = "change" /\ lock[subject[t[1]]] # None

\* Unless the process stalls so, every request ends: nobody keeps a connection,
\* however statements fail (generate-report.command-handler.ts:299-301).
RequestsEnd == \A c \in Workers : step[c] # "idle" ~> (step[c] = "idle" \/ Stalled)

\* A log whose status no client has set is COMPLETED only with its data, through
\* overlapping whole-row saves, deletions and deaths; and one whose generation
\* has answered is COMPLETED or FAILED, unless an update read it before
\* (generate-report.command-handler.ts:57-78, update-report-log.command-handler.ts:17-21).
LogIsTrue ==
    \A l \in Logs \ byHand :
        /\ logs[l]["status"] = "COMPLETED" => logs[l]["data"]
        /\ l \in answered \ overlapped => logs[l]["status"] \in {"COMPLETED", "FAILED", "None"}
=============================================================================
