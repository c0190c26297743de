# Formal models of core-apis

TLA+ specifications, TLC runs and TLAPS proofs for the inventory-management
backend in this repository (NestJS + TypeORM on PostgreSQL).

## 1. What the system is

One Node.js process (or several behind a load balancer) serves HTTP requests.
Each request is a command or a query handled by a CQRS handler that calls
repositories; a repository call is one or a few SQL statements. Requests
interleave at every `await`. Two ways of writing matter everywhere:

* `dataSource.transaction(async (manager) => ...)` - one connection, one
  PostgreSQL transaction at the default isolation level, READ COMMITTED. No
  code path of the stock, billing, order or purchasing modules asks for a row
  lock while reading, so what is read can change before it is written.
* `repo.getAsync` ... mutate ... `repo.updateAsync` - no transaction. `save`
  re-reads the row, compares every column with the object in hand and writes
  the columns that differ: a whole-row write of a stale snapshot also writes
  back columns the handler never touched (`base.repo.ts:40-52`).

### 1.1 Components

| Part | State it keeps | Operations | Hard behaviour |
| --- | --- | --- | --- |
| Stock orchestration (`shared/services/stock-orchestration.service.ts`, `inventory.repo.ts`, `unpublished-stock.repo.ts`) | `inventory` and `unpublished_stock` rows, `stock_movements`, `product_logs` | add, remove, adjust, reserve, release, damage, write off, publish, transfer batch, bill deduction | interleaved read-modify-write, multi-row transactions, lock order, log outside the transaction |
| Stock transfers and transfer requests (`modules/stock-transfers`) | transfer, request, both with a status | create, complete, cancel; raise, accept, claim, cancel | handlers made of three separate commits, status checked on a read long before the write, two endpoints for one transfer |
| Purchase orders (`modules/purchase-orders`, `purchase-items`) | order status, per-item ordered / received / allocated, allocation records | receive, allocate, cancel, edit | whole-row item saves by concurrent receive and allocate |
| Bills, credit and approvals (`modules/bills`, `credit-approvals`, `customers`, `bill-completion.service.ts`) | bill status, customer balance, credit transactions, approvals, commissions | create, edit, transition, complete, approve, reject | stock transaction followed by uncommitted-together credit, commission and status writes |
| Orders and order operations (`modules/orders`, `order-operations`, `order-dispatch-payment.service.ts`) | order status, claim, payment, fulfilment | create, claim, pack, fulfil, pay, pick up, dispatch | two packers claiming, stale whole-order saves |
| Trips and trip operations (`modules/trips`, `trip-operations`) | trip and stop status, OTP | create multi-stop, dispatch, OTP, deliver, complete | same order on two trips, OTP replay, several writes per delivery |
| Users, roles, organizations (`modules/users`, `user-roles`, `roles`, `organizations`) | user, role grants, invites, organization | sync, invite, onboard, grant | onboarding saga with compensation, invite applied twice |
| Report generation (`modules/report-generation-logs`) | log status and data | create, generate, update, delete | a final save that nobody awaits, a stale whole-row update during generation |
| Database connection pool (`type-orm.config.ts`) | connections in use and waiters | acquire, release | a transaction that needs a second connection |
| Catalogue, CRM and fleet records (products, categories, suppliers, locations, branches, drivers, vehicles, maintenance, expenses, vehicle-expenses, item-returns, invoices, payment-transactions, notifications, mail-templates, platform-configurations, billing-settings) | one table each | create, read, update, delete | whole-row update of a stale row |
| Read side (analytics, product-logs, stock-movements queries, activity-logs) | none | queries | none |
| Platform code (`src/common`: auth, redis, centrifugal, file storage, cron, mail, pdf) | caches, external services | adapters | external services |

### 1.2 What makes each part correct

* **Stock**: no quantity goes below zero; the movements of a row add up to its
  stock; moving stock neither creates nor destroys any, whatever fails half-way;
  every request ends although requests wait for each other's row locks.
* **Transfer requests**: stock arrives only after it left; a request goes Open,
  Accepted, Completed or Open, Cancelled; stock plus what is under way is constant.
* **Purchase orders**: what is allocated was recorded, what is recorded was added
  to stock, nothing is allocated that was not received; the status is true.
* **Bills and credit**: a completed bill's goods have left and its customer was
  charged (or its commission recorded); the balance is the sum of the credit
  transactions; over the limit only with an approval.
* **Orders and trips**: one picker per order; dispatched means paid for; delivered
  means confirmed or collected; a trip is completed exactly with its last stop;
  the payment status says what the payments say.
* **Bill items**: a bill's totals are those of its lines; lines and header add up
  within rounding, if no amount is finer than its column; a completed bill shows what
  it was sold for.
* **Users and onboarding**: whoever was answered "this is your organization" is a
  member of it; a user belongs to one organization; a failed onboarding leaves nothing;
  a link to an organization comes with membership, unless `POST /users` made the row.
* **Reports**: a log says COMPLETED only with its data; a generation that answered
  left it COMPLETED or FAILED.
* **Connection pool**: as long as transactions do not fill the pool, someone who
  holds a connection needs no other; every request ends unless they do fill it.

### 1.3 What is hard about this code

The interesting behaviour is all between two `await`s. The hazards, with the lines
at which they bite and the properties that watch them, are in `PROJECT.json`; in
short:

1. *Lost updates.* Every quantity, total, balance and status is read, changed in
   memory and saved. Two handlers that overlap lose one of the two changes, and a
   save also writes back columns that its handler never touched.
2. *Checks that are stale when used.* Available stock, allocatable quantity, credit
   limit, request status: checked on a row read without a lock, used later.
3. *Several commits per handler.* Stock first, then record, then status: a crash or
   a rejected line in between leaves the earlier commits.
4. *Two roads to one row.* A transfer behind a request, a bill behind an order, an
   order on two trips can each be moved by endpoints that do not know each other.
5. *Row locks in the order of the request.* Two batches can wait for each other.
6. *Compensation by hand.* Onboarding undoes a failed step by further saves, which
   may fail or meet another handler of the same user.
7. *Two connections for one request.* The product log is written through the pool
   from inside a transaction that keeps its own connection.

## 2. The modules

| Module | Models | Depends on |
| --- | --- | --- |
| `InventoryRow` | one row: the guard and the effect of each row operation | - |
| `StockLedger` | transactions over rows: reads, the diff of `save`, row locks, movements, commit, rollback, crash, deadlock; the mapping to `AtomicLedger` | `InventoryRow`, `AtomicLedger` (refined) |
| `StockOperations` | the script of row operations of each orchestrator method | - |
| `AtomicLedger` | the abstract specification: a whole script in one step | `InventoryRow` |
| `MCStockRows`, `MCStockTransfers`, `MCStockClaims` | instances: one row, three rows, a claim of the design | `StockLedger`, `StockOperations` |
| `TransferRequests`, `MCTransferRequests` | stock transfers and their requests | - |
| `PurchaseOrders`, `MCPurchaseOrders` | receive, allocate and PUT of a purchase order | - |
| `BillCompletion`, `MCBillCompletion` | bills, credit, approvals, payments, completion | - |
| `Deliveries`, `MCDeliveries` | orders, payments, trips, stops, codes | - |
| `BillItems`, `MCBillItems` | a bill's lines and the totals in its header | - |
| `Onboarding`, `MCOnboarding` | users, organizations, memberships, invitations | `Memberships` (refined) |
| `Memberships` | the abstract specification: founding, closing, joining, answering | - |
| `ConnectionPool` | the pool: who has a connection, who waits | - |
| `ReportLogs` | stock operations and report handlers on the pool; the report logs | `ConnectionPool` |
| `*Proofs` | the theorems about the module of that name | it, `TLAPS` |

`StockLedger` looks inside one stock transaction. The workflow modules sit above
it: to them a call of `StockOrchestrationService` is one step that commits or is
rejected, which is what `AtomicSpec` and `UnstaleCommitIsAtomic` say of it, checked by
runs and proved.
Overlapping stock calls can lose an update; that is `StockLedger`'s subject and is
not repeated above it. `BillCompletion` and `Deliveries` meet in two places: a
confirmed delivery completes the order's bill (`Deliver` in `BillCompletion`), and a
bill's pending credit request holds back its order (`CreditRequest` in `Deliveries`).
`BillItems` looks inside the bill that `BillCompletion` has as one amount: there a
completion's stock transaction and charge are the one step `Sell`. `ReportLogs` looks
at the connections that a stock transaction of `StockLedger` holds, and leaves what
it does to its row to that module.

### 2.1 How state and actions correspond to the code

Common to the workflow modules:

* a **worker** is a handler in progress; its variables (`handler`, `step`, the row as
  read, `dirty`) are the handler's local variables, so a value read before an
  `await` stays what it was;
* **one action is one statement on the database**, with the code up to the next
  `await`. The start of a handler is its first read with the checks made on it;
* **`save` is two actions**, `Diff...` and `Save...`: TypeORM selects the row,
  keeps the columns in which the entity differs from it, and updates those. A column
  that changed after the handler read it therefore differs, and is written back;
  one that changed after the diff is not written. A column of type `decimal` that
  the handler computed is always written, because a number is compared with the
  driver's string (`Merged` in `InventoryRow`, `Counted` in `PurchaseOrders`);
* **`Crash`** is the end of a handler at any point: the process dies, a connection
  drops, a statement fails. What was committed stays, and no code repairs it;
* a handler whose check fails returns: what it committed before stays too;
* variables marked *history* record what happened and are read by no action.

**StockLedger.** `db` is the `inventory` and `unpublished_stock` tables, `net` the sum
of `stock_movements` per row and column, `draft` a transaction's uncommitted version
of a row, `holder` the row locks that its UPDATEs took. `ReadRow` is
`findOneOrFail` with the guard of the repository method (`inventory.repo.ts:60-104`),
`PeekRow` the read made for `quantityBefore`, `DiffRow` and `WriteRow` the `save`
with the movement's INSERT, `Log` the product log, `Commit`/`Reject`/`Crash` the end
of `dataSource.transaction`. `DeadlockVictim` is PostgreSQL's deadlock check. A
worker's own drafts are visible to it (`Visible`), others' are not.
`PATCH /inventory/:id` runs as a script too, although it has no transaction: it
reads one row and saves it.

**TransferRequests.** `Raise`, `Accept`, `Claim`, `CancelRequest` are the request
endpoints; `CreateTransfer`, `Complete`, `CancelTransfer` the general ones, which may
also be used on a transfer that belongs to a request. Acceptance is check, remove
stock, create transfer, save request; a claim is add stock, save transfer, save request.

**PurchaseOrders.** `lines` are the lines of the body still to do, one item may have
several. An allocation is, per line: read and check the item, `AddStock`, `Record`
(the allocation record), save the item. After the last line the items are read again,
the status derived (`StatusAfterReceive`, `StatusAfterAllocate`) and the order saved.
`Update` is the PUT, which takes any status.

**BillCompletion.** `Transition` is `PATCH /bills/:id/status` with the table
`AllowedFrom`; `CheckCredit` ... `Charge` are `BillCompletionService.completeBill`;
`Approve`, `Reject`, `Pay`, `CreateForOrder` and `Deliver` the handlers that touch the
same rows. One customer; official and black stock are two numbers.

**Deliveries.** One row per order, one stop per order and trip. `Claim` ends in the
conditional UPDATE of `order.repo.ts:43`, `CreateTrip` in the one transaction
(`InsertTrip`); all the others save rows. `Confirm` is the OTP confirmation: mark the
stop, save the order, read the stops, save the trip. A code is the fact that it is
valid: its 600 s and the 590 s before another may be sent are taken as equal, so that
at most one is valid per stop, and it stays usable until it expires.

**BillItems.** Derived amounts are integers, the units of the `decimal(18,4)` columns
divided by `Scale`; `Round` is `round4` without binary fractions. What a request gives
(quantity, price, rate, discount) may be finer: `bill-item.request.ts` limits no
decimals, so the fields of a line are counted in grains, `Fine` to a unit. Handlers
compute with them as given (`Gross` divides by `Square`, the grains of grains to a
unit); `Stored` is the row PostgreSQL keeps of a line, each field rounded to its
column, and `ReadBack` the line in memory after its INSERT, of which TypeORM reads back
the columns with a default. So a line and the header saved with it come from one price,
and the header of the next edit from another. `Computed` is
`computeBillItemTotals`, `Totals` `applyBillTotals`, which computes every line anew
and does not cut a discount at the gross amount as a line does. `AddItem`,
`UpdateItem` and `RemoveItem` read bill and lines; then come the line's commit
(`CreateItem`, `DiffItem`/`SaveItem`, `DeleteItem`) and the header's
(`DiffBill`/`SaveBill`). `UpdateBill`, `Transition` and `DeleteBill` save the header
as read. A completion reads it again (`ReadAgain`). The history `care` says of a bill
whether handlers overlapped or died at it ("mixed"), whether a finer amount was given
("fine"), whether an edit that ran alone, with no such amount, has followed ("healed"),
or none of these ("untouched").

**Onboarding.** A person has one email, and so one row in `users`, but in time several
Clerk accounts, which are numbered (`account`); a row names one, or 0 for
`clerkUserId` null. All that a request knows is its token's account. `FindUser` is the
lookup of `upsertByClerkIdAsync`: by the account, or by the email while the row names
no account; a row that names another is answered 409 (`EmailTaken`). `CreateUser` is
`POST /users`: one INSERT of a row with the organization that the body must name, and
no membership; the seed does the same for its administrator
(`default-organization.seed.ts:72-81`). Which rows were made so is the history
`placed`. `DeleteUser` deletes the Clerk account first and then the row, which stays if
the handler dies in between or a membership refers to it.

`Onboard` is `OnboardOrganizationCommandHandler`: create or find the user (`FindUser`,
`SaveUser`), read it again (`ReadUser`), then either confirm the organization it is in
(`Confirm`) or `CreateOrg`, `ResolveRole`, link the user (`ReadLink`, `SaveUser`),
`CreateMembership`, `Answer`. `Fault` at any of the later steps starts the
compensation: unlink the user (`ReadUnlink`, `SaveUser`), `DeleteOrg`. `Sync` and
`Register` share the first steps and apply an invitation in one transaction
(`ApplyInvite`). `Administer` collects the requests of administrators that are one
statement, or one and a call of Clerk.
The refinement mapping `Promises` shows the abstract `Memberships` the organizations
that exist, the memberships, and the answers given; links, handlers and compensation
are invisible to it.

**ReportLogs.** A step runs on the `Connection` its kind of work needs; `Connect` asks
the pool for it when the step before is done, `Done` gives it back. `Snapshot`,
`Change`, `WriteLog`, `Commit` are a stock operation: at `WriteLog` it has two
connections. `Insert`, `Aggregate`, `Read`, `Select`, `Write`, `Delete` are the report
handlers, which take one at a time. `Select` and `Write` share one connection, as
TypeORM's `save` does; a save of a row that is gone inserts it, which the database
refuses to a generation (it gives only some columns) and grants to an update (it
writes all it has read), so that a deleted log can come back. `Fail` is a failing
statement, `Die` the end of the process, which takes the pool along.

## 3. The runs

| Run | Question and answer | Instance |
| --- | --- | --- |
| `stock_rows` | Do single-row operations keep quantities natural and movements balanced under any interleaving? Yes, except rows on which an update was lost (`spoiled`) | 1 row, 2 workers, 3 requests out of 8 |
| `stock_transfers` | Do transfers and publishing conserve stock, is an undisturbed commit atomic, does each request end? Yes | 3 rows, 2 workers, 3 requests out of 4, two of which lock rows in opposite orders and one of which fails at its second item |
| `stock_serial` | Does the ledger with one worker refine `AtomicLedger`? Yes | 3 rows, 1 worker, 3 requests out of 7 |
| `stock_reserved` | Is reserved stock on hand? **No** | 1 row, one removal, one reservation |
| `transfer_requests` | Does stock arrive only after it left; do requests handled in turn keep lifecycle and stock? Yes | 3 locations, 2 requests, 2 transfers, 2 workers, 4 handlers |
| `purchase_orders` | Records within stock, totals within records; in turn, exact totals and a true status (`OrderAddsUp`)? Yes | 2 items, 2 workers, 4 handlers, two-line bodies that may name one item twice |
| `bill_completion` | Is a completed bill backed; are balance, limit and sales consistent in turn? Yes | a credit bill of an order and a black bill, 1 approval, limit 2, 2 workers, 5 handlers |
| `bill_again` | Does a completed bill sell once? **No** | 1 worker, 3 handlers |
| `deliveries` | Paid for, confirmed, claimed by one, trips follow their stops? Yes | 2 orders (one paid in advance, one on delivery and on credit), 1 trip, 2 users, 2 workers, 4 handlers |
| `bill_items` | Are totals those of the lines, and is a completed bill sold for its total? Yes, unless handlers overlapped or died, and the next edit that runs alone repairs the totals; lines and header differ by no more than rounding unless a discount exceeds its line or an amount was finer than its column | 1 bill, 2 items, 3 kinds of line (one rounded, one with a price and a discount finer than their columns, one with a discount above its cost), 2 grains to a unit, 2 workers, 3 handlers |
| `onboarding` | Does an answered onboarding stand, is there one organization per user, is a user linked only where it is a member, does onboarding implement `Memberships`? Yes; one organization for users whose requests take turns; link with membership and nothing left over for those none of whose requests was cut short either, and where `POST /users` did not make the row with its link | 2 users, 2 organizations, 2 names, 2 workers, 3 requests, those of administrators included (revoking an invitation is free) |
| `report_logs` | Who can stop the pool, does every request end, is a report's log true? Only stock transactions that hold the whole pool; all else ends | pool of 2, 3 workers, 3 requests, 2 stock rows, 1 log |

**Why these bounds.** Each hazard is a matter of two handlers on the same rows, so
two workers suffice to interleave them, and a further handler or two prepare the
state (an order received, a request accepted) or come after. Quantities are as small
as a check that passes for one handler and fails for two allows. The bounds are
`MaxRequests`, `MaxJobs` and `Budget`; nothing else is cut off. `Workers` and
`Users` of `deliveries`, items and workers of `bill_items`, and users,
organizations, names and workers of `onboarding` are symmetric: no property or
constant tells them apart, and these runs check no liveness. `report_logs` checks
liveness and uses no symmetry. Its pool of two is the smallest that two transactions
fill while a third request waits, or that a transaction shares with a report. Three
requests of `onboarding` make an organization, a row with that organization by
`POST /users` and a sign-in or an onboarding that adopts it, or a sign-up, a deletion
that leaves the row and a second sign-up; four (2.2 million states) were run as well
and show no more, and the proofs of section 5 are for any number.

**Serial properties.** Some properties are about handlers that ran one after the
other (`disturbed`, `overlapped`, `died` are FALSE). That is the strongest form that
holds: with overlaps each of them fails, as the violation runs and the hazards say.
They still cover sequences of any handlers of the bound, rejected ones included,
which commit a part of their work and stop. What they do not do is catch the overlap
or the crash itself: a hazard of `PROJECT.json` that lists only such a property is
watched up to that overlap, and after it by the properties that hold throughout
(`CreditNeedsDebit`, `AllocatedWithinRecords`, `RecordsWithinStock`,
`CompletedIsBacked`, `DispatchedIsPaid`, `DeliveredIsConfirmed`, `SuccessStands`,
`MembershipsKept`), which bound the damage and do not exclude it. So it is with
`LedgerBalanced` for rows in `spoiled`, with `TotalsMatchItems` while a bill is mixed,
with `ClaimedByOne` for orders a stale save touched, and with `LogIsTrue` for logs an
update overlapped.

**Deadlock and termination.** The workflow runs set `CHECK_DEADLOCK FALSE`, since a
behaviour ends when its bound of handlers is used up. `StockLedger` has an explicit
`Done` step instead, so that a wait that nobody breaks would be found.

**Fairness.** Two modules state fairness, each for its `RequestsEnd`. `StockLedger`: weak
fairness of a request's next step (Node runs every ready continuation, PostgreSQL
grants a lock that is free) and of the deadlock victim (`deadlock_timeout` fires
while the cycle lasts). The mutant without the deadlock check shows that
`RequestsEnd` depends on it: no code of the repository orders its locks.
`ReportLogs`: weak fairness of each worker's next step, where waiting for the pool or
for a row lock is not a step, and a statement that waits does not fail: there is no
time limit on either. So requests end or the process is `Stalled`, which nothing
ends but its death; that stalls do happen is what the second disjunct is for, and
TLC reaches them. No fairness is assumed of arrivals, failures or deaths. Weak
fairness is enough because requests are bounded in number and the pool's queue is
first in, first out.

**Mutants.** `PROJECT.json` names for each property a mutated definition (marked
`Mutant:` in the modules, next to what it replaces) under which TLC finds the
property violated: a dropped guard, an unsaved status, a wrong sign, a check of one
item instead of all.

## 4. Where code and documents disagree

Each of these is a run that TLC ends with a counterexample:

* `stock_reserved`: a removal and a reservation overlap; both pass their check, and
  as they write different columns neither is lost. Reserved stock is gone, against
  `docs/brainstorm/2026-07-27-inventory-system-design.md:188`.
* `bill_again`: no overlap needed: `transition-bill-status.command-handler.ts:35` lets
  a completed bill be moved to completed, which sells it again.

Met while modelling, and not kept as runs of their own:

* A cancellation that read a transfer request while it was Open saves it after an
  acceptance took the stock (`cancel-stock-transfer-request.command-handler.ts:26` says
  "Only OPEN requests can be cancelled"); `LifecycleKept` holds for requests
  handled in turn.
* Two allocations check one purchase item and both go through, beyond what was
  received (`docs/purchase-order-post-location-allocation.md:78`); `AllocatedWithinRecords` and
  `RecordsWithinStock` hold even then.
* A confirmed delivery completes a bill without deducting it
  (`docs/billing-frontend-integration-guide.md:23`: "paid, inventory deducted");
  `CompletedIsBacked` is about bills completed otherwise.
* The same guide (lines 364, 404, 419, 440) says that a bill and its lines can be
  edited only while it is INITIATED; no handler checks the status, and `SoldForTotal`
  excepts bills edited after they were sold.
* `bill-item.entity.ts:59` gives a line's total as quantity by price, less the discount,
  with the tax. The handlers compute it from the price as requested, of which the column
  keeps four decimals: 100 at 84.74576271 are stored as 100 at 84.7458 with a total of
  8474.5763. The next edit computes the header from the stored price, 8474.58: lines and
  header differ by more than rounding, and `LinesAddUp` excepts bills that were given
  such an amount.
* By the same comment the discount is taken from the gross amount; the code cuts gross
  minus discount at zero, the header does not.
* A user whom `POST /users` made and linked is a member of nothing: a sign-in adopts the
  row by its email and keeps the link, and no onboarding or invitation can repair it
  (`onboard-organization.command-handler.ts:38-44` refuses to confirm,
  `sync-user.command-handler.ts:79-112` skips users that have an organization).
* A user whose Clerk account was deleted while the row stayed is answered 409 for ever
  when its person signs up anew (`user.repo.ts:48`).
* The product log is written by another connection before the transaction it belongs
  to commits (the design, line 17, puts it inside).
* Rejecting a credit request cancels a bill whatever its status has become; two
  overlapping completions of credit bills both pass the limit.
* A receipt after a partial allocation sets an order back to received or
  partially_received (which `StatusIsTrue` allows, as what it says of them stays true).
* A cancelled transfer whose completion is in progress ends Completed, and a completed
  one whose cancellation is in progress Cancelled.
* A payment's row is committed before the order's payment status, so an overlap or a
  crash leaves the status behind until the next payment.
* A generation that dies or whose final save is refused leaves its log PROCESSING for
  good: no code looks for such logs.

## 5. What is proved

Every safety invariant and every action property of the passing runs is a theorem,
and so are the two refinements. The theorems hold for every value of the constants
that satisfies the modules' ASSUMEs: any rows, scripts, items, bills, orders, any
number of workers, no bound on requests but a natural number. TLC evaluates all
assumptions on the instances. Most of them give the constants their types and keep
`None` apart. The others are:

* `FiniteAssumption` of `StockLedger`, `TransferRequests` and `BillItems`: what is
  summed over (rows; locations and requests; the lines of bills) is finite, as tables are;
* `RequestsAssumption` of `StockLedger`: a script is not empty, and a row read ahead of
  a write (the reads for `quantityBefore` in `publishStock`, `adjustStock` and
  `addUnpublishedStock`, and the read of a bill's deduction) is the next time operated
  on, not read again (`PeeksFollowed`). Without it a request could end on a row it
  has read and never locked, and commit over a change to it;
* where a theorem needs more it says so as a hypothesis: `Sole` (one worker),
  `OnlyMoves` and `Transferring` (the scripts make no stock), `[](spoiled = {})` (no
  update was lost), `TurnsAddUp`'s on PUTs.

| Theorem | Argument |
| --- | --- |
| `TypeCorrect` | TypeOK is inductive (that of `BillItems` is `BillsWellTyped`, below). Its last conjuncts tie a worker's step to what it must hold at that step |
| `StockIsNeverNegative` | a worker about to write holds a snapshot that passed its guard (`GuardedSnapshots`), and what it writes is computed from that snapshot: committed rows and drafts stay natural (`NaturalRows`) even where updates are lost |
| `CommitsAreAtomic` | an action property. `Book` replays a prefix of a script on the committed rows, step by step. `RequestsFollow`: an untouched draft is the row as the script has made it so far (`DraftsFollow`), the guards passed hold along the replay (`GuardsFollow`), and a row used but not locked was only read (`UnheldOnlyRead`); the parts `CleanFresh` (a column that `save` leaves out has its new value already) and `PeeksLast` make it inductive. At the commit the whole script is replayed, and the rows not held are those it does not write |
| `LossFreeIsAtomic`, `SerialIsAtomic` | the refinement of `AtomicLedger`: a commit that spoils no row is `Serve` of its script by `CommitsAreAtomic`; every other step leaves rows and movements alone. With one worker nobody touches a row that another has read, so that nothing is ever spoiled |
| `MovesConserveStock`, `TransfersMakeNoStock` | a replayed script changes the total by what its operations move (`BookTotal`, one operation at a time), which is nothing if it only moves; a commit that lost no update is that replay. `TransfersMakeNoStock` shows that the scripts of `StockOperations` for transfers, batches of any length and publications are such |
| `LedgerIsBalanced` | `LedgerInv`: a draft balances if nobody touched its row; what a worker has read is what it would read, unless `touched` says otherwise (`SnapshotsFresh`, `PeeksFresh`); `save` writes at least the columns the movement is about (`MergedWritten`). The invariant without these is not inductive: nothing ties a snapshot to the row |
| `NoStockLost` | `Conserved` is inductive by itself: stock in the stores and what is under way (debits less credits, per request, of its quantity) is the opening stock, in every state, with overlaps and deaths. It is stronger than what TLC is asked |
| `StockIsAccountedFor` | from `Conserved`: at rest and undisturbed, what is under way is what the statuses say (`Books`, with `Owned`: the transfer that a request names is that of no other) |
| `CreditFollowsDebit` | a request that says Accepted or Completed, in its row or in a worker's copy of it, and one that is being claimed or whose acceptance is past its removal, has been debited (`DebitedBefore`). Old copies are no exception, as the count of debits only grows |
| `AllocationsAreRecorded` | `CoveredByRecords`: the total a worker has read is covered by the records, and so is the total it is about to save |
| `RecordsNeverExceedStock` | `StockRunsAhead`: the lines that handlers have added to stock and not recorded yet can be laid side by side, without overlap, between an item's records and its stock. Any number of handlers may be at such a line; the layout (`Packs`) stands for the sum of their quantities and needs no sum |
| `CompletedBillsAreBacked` | `BackedAllAlong`: a worker about to save Completed has done all that its bill stands for; histories only grow |
| `DispatchIsPaidFor` | `PaidAllAlong`: the orders a trip's creation has checked are paid for, and payments only grow |
| `DeliveryIsConfirmed` | `ConfirmedAllAlong`: `Exclusive` (nobody recreates a trip that exists or is being created, so that a delivered stop stays delivered) and `Justified` (a row in memory that says Delivered is that of an order confirmed or collected, or is about to be so) |
| `OnboardingStands` | `Standing`: what a handler has seen of a membership that it may answer lasts, as an organization with members cannot be deleted |
| `KeepsMemberships` | the refinement: every action of `Onboarding` is one step of `Memberships` under the mapping or leaves its variables alone; `Standing` is needed for `Answer` and `Confirm` |
| `TurnsAddUp` | `Tally`: a handler alone with the order has read what the tables hold, and the one item whose total, records and stock differ is the one it is at, by just its line. `Telling`: what a status says of the items stays so, as only a handler that read another status than allocated works on them. Assumes that no PUT sets received or allocated: the code lets it, and the status is then the client's word (`purchase_orders` has PUTs without a status, and of cancelled) |
| `OneOrganizationEach` | `Serial`: a user whose requests did not overlap has at most one handler, whose copy of the row is the row, and every membership is of the organization the row names |
| `OnboardingIsWhole` | `Wholly`: a link that `POST /users` did not make, or an organization without a membership has a handler at work that made it (`Linked`, `Pending`), and will make the membership or take both back; an organization that somebody renames, which may bring back a deleted row, is not one of those (`Records`) |
| `TotalsStand` | `IInv`: the rows, memories and `care` of `BillItems` in step: a handler alone at its bill has in memory what the tables will hold when it has saved, if no amount there is finer than its column (`AtPrecision`); a finer one makes the bill "fine", and the theorem speaks of it again once it is healed. No fact about sums is used, only that equal lines have equal totals |
| `BillsWellTyped` | `RowTypes` with the `IInv` of `TotalsStand`: sums of naturals are natural, `Round` of a natural is one, and so is what a column keeps of one (`StoredType`). Only a bill's total may be negative, as the header does not cut its discount |
| `PrintedLinesAddUp` | `Prices`: a line of a bill that handlers took turns at, with no amount finer than its column, is stored as computed (`Stored` leaves it alone) and has the totals computed from its own fields. Then both sides are written with the exact products of quantity and price: each line's rounding and the header's is off by half a unit at most, discounts are whole units and not rounded (`WholeLine`, `SumScaled`), and the sum of the errors is half a unit per line and one half (`OffByRounding`) |
| `BillsShowTheirSale` | `Sales`: a handler about to save a completed bill has sold it for the total that it writes, or has changed a line, or found the bill completed already |
| `RequestsLive` | `InTurn`: a handler alone with its request has in memory the status that is in the row, and saves one to which it may legally go |
| `BalanceFollowsLedger`, `LimitNeedsApproval`, `GoodsAreSold` | `Serial`: without overlap one handler is at work at most; what it has left unfinished is known from its step (`Turn`: a balance raised whose ledger entry it will write, a limit exceeded with an approval it has seen, goods sold whose bill it will complete), and with nobody at work nothing is (`Calm`) |
| `OnePicker` | `ClaimantNamed`: the claimants of an order that no stale save touched are the one its row names, as `Claim` ends in a conditional UPDATE |
| `TripsFollowStops` | `TripsClose`, with `Exclusive`: a trip is completed only with its last stop (`Informed`), and when all stops are delivered it is completed or a confirmation is about to do it (`Closed`) |
| `LogsAreTrue` | `TruthInv`: all copies of a log in memory that the save of a generation may write tell one outcome, and status and data are written together (`Truth`); a log that no update overlapped is in no update's memory while it is generated (`Undisturbed`) |
| `OnlyTransactionsStall` | `Account`: each connection in use or waited for belongs to a running request and to its present step, except the transaction kept while the log is written; with waiting requests the pool is full (`PoolOK`), so that fewer transactions than connections leave a holder of another kind |

The three facts of each (holds initially, kept by a step, implies the property) are
lemmas named `...Init` and `...Step`; a step lemma has one step per action. The
strengthened invariants were model-checked before they were proved.

**Sums and replays.** Three of the modules (`StockLedger`, `TransferRequests`,
`BillItems`) speak of sums over a set or of the result of a script, which the community
modules define by folds. The provers cannot be given an induction principle over an
operator; what the proofs use instead is first-order:

* *Induction over a set named in the proof.* `UpTo` and `SubsetInduction` say of a set
  P (of numbers, of subsets of a finite set), not of an operator, that what holds of
  0 (of {}) and is kept by one more is true of all. `UpTo` follows from the least
  counterexample, `SubsetInduction` from a counterexample none of whose subsets is one.
* *Recursive functions by their equations.* `SumFunctionOnSet` and `Book` are a CHOOSE
  of a function with a recursion equation. The proofs first show that such a function
  exists (`ReplayExists`, `SumUnique`, by those inductions) and that any two agree, and
  from then on use the equation: `SumRemove`, `SumChange`, `SumSame`, `BookNext`.
* The fold of `AtomicLedger` (`FoldLeft` over a script) meets `Book` in one lemma,
  `BookOutcome`; `Performed` says what one operation does to a book.

**Only model-checked**: the two `RequestsEnd` (liveness under fairness, which this prover
does not do), that the scripts of the instances satisfy `OnlyMoves` (`MovingAssumption` of
`MCStockTransfers`, evaluated by TLC; proved for the scripts named above), and the two
counterexamples of section 4.

## 6. What is not modelled, and why

* Of stock: the creation of a missing row (rows exist; a race of two creations ends
  in the unique constraint), average cost, the low-stock warning, the product log's
  rows. `transferStock` (`stock-orchestration.service.ts:151-155`) and
  `deductUnpublishedStockAsync` (`inventory.repo.ts:106-115`) have no callers.
* Of billing: balance adjustments (a payment of the other sign), paying a commission
  out, bills without a facilitator, the black amount and commission of a line.
* Of onboarding: roles and their grants, profiles, mails, Clerk beyond the accounts and
  invitations it keeps; changes of an email or a name. Of reports: what is aggregated, and the PDF.
* Of the pool: the many handlers that take one connection at a time, as the report
  handlers do; a second row lock in one transaction (`StockLedger`'s subject).
* Of purchasing: creation, deletion, the editing of single items.
* Of deliveries: plain editing of trips and payment transactions, which could take
  a payment back (`DispatchedIsPaid` is about payments made); a trip that
  stops twice for one order; drivers, vehicles, digits and mails of codes.
* Locations of a purchase order, and wall-clock time; quantities and amounts finer than
  their columns elsewhere than on a bill (stock, purchase orders, payments).
* Plain records (one table, one row per request), the read side, and adapters to
  external services. Where such a record is read by a modelled part, the write is
  modelled there (`CreateUser`, the organizations' own endpoints); the others are
  configuration that these parts take as given.

Most of the repository's lines are not behaviour of this kind: entities, DTOs,
migrations, seeds, controllers and mappers declare shapes, and the plain handlers are
one statement on one table. The map therefore names a small share of all lines; it
names the handlers and services in which a request makes several commits or shares
rows with others.

## 7. Plan

Done, in this order: stock ledger and its refinement, transfer requests, purchase
orders, bill completion, deliveries, onboarding and its refinement, bill items,
the connection pool and the report logs; for each its runs, and its most important
safety property proved.

Proved since: the remaining safety invariants, `UnstaleCommitIsAtomic`, and the
refinement of `AtomicLedger`.

What would come next: an abstract `Fulfilment` specification (an order is confirmed,
packed, under way, delivered, and money and goods change hands once) that `Deliveries`
implements with one worker, and the same for `TransferRequests`, with their
refinements proved as `SerialIsAtomic` is; the role grants of `modules/user-roles`;
item returns and invoices.
