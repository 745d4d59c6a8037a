# TLA+ models of SourcePilot's backend

SourcePilot (TradeMind, 贸灵) is an operations platform for cross-border e-commerce.
It is three programs: `admin/`, a React front end; `backend/`, a Go service (Gin, GORM,
PostgreSQL, queues in Redis) that holds the logic; and `collector/`, a Node service that
drives a browser. Several backend processes run side by side, each with HTTP handlers,
worker goroutines and a reaper, and all they share is the database and Redis. What can go
wrong there is a matter of order: two requests, a request and a worker, a worker and the
reaper, a process that stops between two statements. These modules describe the parts of
the backend where that order decides about money, stock or what a platform is sent.

Paths below are relative to the repository; `modules/` stands for
`backend/internal/modules/`, `pkg/` for `backend/internal/pkg/`.

## 1. Inventory

### How the parts interact

    admin UI ──HTTP──> handlers ──SQL──> PostgreSQL <──SQL── workers, reapers
                          │                                      ▲
                          ├──LPUSH──> Redis lists ──BRPOP────────┤
                          └──────────> execution port            └──> platforms
    platforms ──webhook──> handlers        order sync workers ──> order import ──> stock

* An order comes in by hand, by a page that an *order sync task* fetches, or by a *webhook
  event*; the latter two go through the same import, which brings the order to a revision.
  Once it is eligible its lines are deducted from the stock (*order inventory*), which leaves
  change logs and enqueues *inventory sync tasks* that push the new stock to the shops. A
  cancelled or refunded order is restored. *Purchase orders* that are delivered, transfers and
  manual adjustments write the same stock.
* A task is a row and a message. A worker takes the message, claims the row with a lease,
  works outside any transaction and writes the outcome if it still has the lease. The
  *reaper* of each process fails rows whose lease has lapsed; administrators retry them.
* *Idempotency records* decide, for imports, deductions, pushes, webhooks, publications
  and AI batches, which of several requests with a key may run.
* *Operation tasks* turn a suggestion into a draft that people review and that is then
  executed through a port, by requests that may die or be repeated.
* Agents write through *MCP* tools: a dry run issues a confirmation, an execute consumes it and
  moves a purchase order next to the operators who move it in the UI.

### Components

| Component | State it keeps | Operations | What is hard | What makes it correct | Here |
|---|---|---|---|---|---|
| Operation tasks (`modules/operationtask`) | task row with status and revision, drafts by version, approvals, attempts, events | create, draft, edit, approve, reject, cancel, execute, retry | execute is prepare / port call / finalize, not one transaction; stale pages; retries validated in a transaction of their own; requests that die | only reviewed content is executed, once; one execution at a time; the trail replays | `OperationTask` |
| Idempotency (`modules/idempotency`) | one record per scope and key | Acquire, Heartbeat, Complete, Fail, ReleaseExpired, Execute | first two requests, takeovers, lapsing leases, expired records | nothing runs twice without a reason; one result and one payload per key | `Idempotency` |
| Inventory sync tasks (`modules/inventory`), task leases (`pkg/tasklease`), reaper (`modules/taskreaper`) | task rows, message list, deferral counter, leases | take, claim, push, finish, panic, defer, reap, retry | checks and writes in different statements; lost and doubled messages | no push nobody asked for; a late worker writes nothing; every task ends | `InventorySync`, but for batches and task creation |
| Order inventory (`modules/inventory`), with warehouses, inbound goods and SKU binding | stock, warehouse rows, lines, effects, change logs, keys, row locks | deduct, restore, receive, transfer, adjust, bind, resize | reads before locks, keys over another connection, split stock, failures for good | no oversell; rounds alternate; logs account for stock | `OrderInventory` |
| Webhooks (`modules/webhook`) | events with a status, keys of their storing and handling | ingest, poll, claim, handle, mark | duplicates, overlapping batches, three keys and four statements over which workers die | acknowledged events are taken; processed means the order has it | `OrderIntake` |
| Order import (`modules/order`) | order with a remote revision, a key per revision | look, write, complete | the stale check and the write are two transactions; the key hashes a part of the payload | a revision has one set of statuses, amount and times | `OrderIntake` |
| Order sync tasks (`modules/ordersync`, pages in `providers/platform/douyinshop`) | task row with input, output and lease | claim, fetch, import, finish, block, panic, reap, retry | pages to fetch again travel from output to input and back in statements of their own | no page is forgotten | `OrderSync` |
| Purchase orders (`modules/procurement`) | orders, prices, events, goods that came in | generate, submit, confirm, place, pay, ship, deliver, cancel, void, retry, reprice | rows read without a lock and saved whole | rows stay whole; goods come in once | `PurchaseOrders` |
| MCP writes (`modules/mcpwrite`, `mcpserver`, `mcpaudit`) | confirmations, audit log, the tenant's lock | dry run, consume, admit, execute | replicas that count the same quota; failures after the confirmation is used | executed once; quotas and ceiling hold; what is moved is audited | `ConfirmedWrites` |
| Push keys and task creation (`modules/inventory/idempotency_push.go`, `batch_ops.go`) | keys per target, pending tasks, batches | enqueue, skip duplicates, reconcile | a target that returns; counts written out of order | – | not modelled, section 8 |
| Publishing, collection, images, AI batches, customer messages | task rows, batches | claim, run, finish, as above | as inventory sync tasks | – | not modelled, section 8 |
| Retry policy and limits (`pkg/taskretry`, `pkg/providerlimit`, `pkg/ratelimit`) | counters | classify, back off | boundaries | – | not modelled, section 8 |
| The others | forms, reports, settings, accounts, files, AI calls, UI | – | little that depends on order | – | not modelled, section 8 |

`PROJECT.json` has the full list with sources, and under `hazards` what is hard to test in
this code, each at its line, with the properties that stand against it or the reason why
none does.

## 2. Modules

| Module | What it is |
|---|---|
| `ReviewGate` | abstract specification: versions are proposed, cleared, executed one at a time |
| `OperationTask` | the operation task services; implements `ReviewGate` |
| `Idempotency` | one idempotency record and the requests that use it |
| `LeasedTask` | abstract specification: one holder at a time, who alone reports an outcome; `InventorySync` and `OrderSync` implement it |
| `InventorySync` | inventory sync tasks with leases, messages, reapers and retries |
| `OrderInventory` | stock of orders, with everything that writes it |
| `IdempotencyKey` | a key as others use it: what Acquire answers, Complete and Fail do, in one step each |
| `KeyProtocol` | abstract specification: what happens to such a key over time; `Idempotency` implements it for callers of one owner |
| `OrderIntake` | events, pages and the import of an order |
| `OrderSync` | order sync tasks: what a run fetches and what a retry fetches again |
| `PurchaseOrders` | purchase orders and the operators who move them |
| `ConfirmedWrites` | writes through MCP; extends `PurchaseOrders`, whose orders both move |
| `MC…` | constants for TLC, one module per component |
| `…Proofs` | theorems and their proofs, one module per component |
| `SumTheorems` | the laws of sums over finite sets that the proofs about stocks and amounts rest on |

All of them follow one convention: **a database transaction that locks what it reads, or a
single guarded statement, is one action; everything else is cut where another process can
come in between.** A definition preceded by `Mutant` in its comment is not used by the
specification; it is a bug the code could have, kept to show that the properties notice.
Variables the code does not have (`effects`, `excuses`, `asked`, `pushed`, `taken`, `calls`,
`adjusted`, `raced`, `written`, `acked`, `fetched`, `imported`, `left`, `delivered`) are there to state properties and guard nothing but bounds.

### OperationTask

One task; tasks share no rows. `lockTask` is the first statement of every transaction of
`services.go` and `execution_services.go`, hence one action per transaction:

| Action | Code |
|---|---|
| `CreateTask` | `APIService.CreateTask` |
| `ReadTask`, `ReadLatestDraft` | the two requests a page makes; another user may write between them |
| `CreateInitialDraft`, `EditDraft` | `DraftVersionService.CreateInitialDraft` and `EditDraft`, with the revision the page has shown |
| `Decide` | `ApprovalService.decide` (Approve, Reject), bound to the draft on screen |
| `Cancel` | `APIService.Cancel` |
| `Execute` → `Prepare` | `ExecutionOrchestrator.prepare`: status, approval, active attempt and key are checked, the attempt is created |
| `ValidateRetry`, `PrepareRetry`, `RefuseRetry` | `ManualRetryService.Retry`: validation in one transaction, `prepare` in the next |
| `CallPort` | `DraftExecutionPort`, external: success, a retryable or a final failure |
| `FinalizeSuccess`, `FinalizeFailure` | `finalizeSuccess`, `finalizeFailure` |
| `Abandon` | the process or the request's context dies between two of these |

A request whose key has been used answers with what is on record and changes nothing: a
stuttering step.

### Idempotency

`Acquire` is a `SELECT … FOR UPDATE` and an `UPDATE`, one action, unless there is no row to
lock: then `FindNothing` and `Create`/`CreateRefused` are two. `Refuse` is what `Classify`
tells the others. Callers do not agree on an expired record, so `Lenient` names those that
run anyway (`RunExpired`). `Run…` are the operations, `Complete` and `Fail` the reports with
their WHERE clauses as they are (`Complete` asks for a live lease, `Fail` does not),
`ReleaseExpired` the sweeper, `Die`, `LeaseLapses` and `RecordExpires` the world.

### InventorySync

| Action | Code |
|---|---|
| `Take` | the consumer: BRPOP of a message |
| `ReadDefers`, `CountDefer`, `CounterFails`, `Requeue` (together `Defer`), `GiveUp`, `DefersExpire` | the deferral of a rate-limited message: GET of the counter, INCR, the pause, RPUSH, each of which may fail; the end of the row when the counter has reached the limit; the counter's expiry |
| `Claim`, `Block`, `FailEarly`, `Push` | `TryClaim` and the execution up to the platform's answer |
| `Renew`, `Validate`, `Finish` | renewal by ticker, `ValidateLease`, and the UPDATE that follows, two statements |
| `Panic`, `PanicWrite`, `Die` | recovery, which compares the worker's name in one statement and writes by id in the next, and a process that stops |
| `LeaseLapses`, `AbandonedLapses` | the clock, with a worker behind the lease and without |
| `Reap`, `ReapWrite` | `RecoverLeaseExpired`, `RecoverLegacyRunning`: a SELECT, then an UPDATE by id |
| `Retry`, `Reset`, `Enqueue`, `RunInline`, `Leave` | `retryInventorySyncTaskScoped`: check, reset, LPUSH, and the inline run when LPUSH fails |

`Claim` is the guarded UPDATE and the read of the version after it. `execution_id` changes
with `lock_version`, so one number stands for both. A deferral is no transaction: several workers
that hold messages of one task may read the counter before any of them increments it, a GET that fails reads
0 and an INCR that fails is not noticed, and a worker that dies in the pause, or whose RPUSH fails, has
lost the message.

### OrderInventory

A deduction is a loop over the lines loaded when it began; per line `ReadLine` (is it
deducted, which round), `Acquire`/`Replay`/`Busy`/`Conflict`/`PassExpired` (the key, over a
connection of its own), then `DeductStock`, `FailShort` or `WriteRefused` under the lock of
the SKU. `SkipUnbound` is a line without a SKU. A restore is one transaction:
`RestoreRead` and `RestoreLock` per line, `RestoreCommit` or `RestoreRefused` at the end;
row locks are in `lock`. `Abort` is a lost connection. `Allocation` is `allocateDeduction`:
the pinned warehouse alone, else the enabled ones by priority, the remainder on the default
one. `Receive`, `Transfer`, `AdjustRead`/`AdjustWrite`, `LogSync`, `Bind` and `Resize` are the
other writers. A round is counted by the restore logs of the line, one per warehouse, as
`idempotency_deduct.go` counts it, so numbers are skipped.

Change logs and keys are `book` and `key` over line, SKU and round; `keyless` holds the one
log with an empty `business_event_key` for which the unique index has room.

### OrderIntake

| Action | Code |
|---|---|
| `ReceiveAgain`, `Receive`, `AcquireStore`, `CreateStore`, `Insert`, `InsertFails`, `CompleteStore` | `Service.Ingest`: duplicate check, the key of the event's storing, its row, the completion |
| `Poll`, `Load`, `AcquireHandle`, `CreateHandle`, `Claim`, `ClaimNothing` | the worker: a batch of queued events, each loaded, its key acquired, its row claimed |
| `AcquireImport`, `CreateImport`, `Look`, `Write`, `WriteFails`, `CompleteImport` | `importSyncedOrderWithIdempotency`, which `UpsertPlatformOrder` calls: the key of the revision, the stale check, the transaction that writes, the completion |
| `HandlerFails`, `MarkProcessed`, `MarkFails`, `CompleteHandle`, `MarkFailed`, `FailHandle` | the end of the handling and of its key |
| `PollOrder` | an order sync task that imports a payload of a page |
| `Crash`, `LeaseLapses` | a process that stops, and a key whose lease runs out |

One order. A payload has a revision, the rank of its status, the latest of its lifecycle
times, and a `Digest`, which is what `orderImportRequestHash` keeps of it: statuses, amount, revision and
times, but not items, customer, shipments or raw data, which the write stores too. Two payloads of one digest
are therefore the same to the key and two to the order. (The times are in it to the second, which is as
exact as the platform gives them.) `Stale` is `isStalePlatformUpdate`. `ValidateOrderStateTransition`, which comes after it,
refuses nothing that it lets pass and is not modelled. Keys are those of `IdempotencyKey`: an
`Acquire` that finds no row and the `INSERT` that follows are two steps, all else is one.
Workers share one owner name, as the code has it, so the key of an event does not tell
two of them apart. Left out: keys older than seven days, errors of statements whose error the
code ignores, events of several items, payloads without a revision, the administrators' requeue.

### OrderSync

| Action | Code |
|---|---|
| `Claim`, `Load` | `TryClaim`, and the read of the row that follows it |
| `Block` | `guardDouyinOrderWorker`, which replaces the output |
| `FetchListing`, `FetchPages`, `FetchNothing` | `SyncOrdersPaginated` from the start, `syncOrdersRetryPagesOnly`, and a run that gets nothing |
| `Import` | `UpsertPlatformOrders`, `resolveFinalSyncStatus` |
| `Finish` | `finishOrderSyncTask` with `mergeSyncOutput` |
| `Panic`, `PanicWrite`, `Die` | `handleOrderSyncPanic`, a SELECT and an UPDATE by id; a process that stops or loses its lease |
| `Reap`, `ReapWrite` | `RecoverLeaseExpired`, `RecoverLegacyRunning` |
| `Retry`, `Reset` | `RetryFailed`: the read that decides which pages to ask for, and the UPDATE by id |

A page is its number. `Reached(F)` is the loop of `SyncOrdersPaginated` when the pages *F*
cannot be fetched: it goes on after a failure and ends with the last page, with the limit on
requests or with the limit on records. Leases and messages are those of `InventorySync` and not
repeated: any worker may come to a pending row, and a lease lapses at any time. The listing is
the same in every run, which is true of one with an end in the past; without a window,
`defaultOrderWindow` moves with the clock, and page numbers of a retry then mean other orders.
Pages are taken to be full and the limit on records to be a whole number of pages, so it is one on pages
(the code cuts a page short where the limit falls inside it, and then the rest of that page is left out like
the pages after it); a task begins at page 0.

### PurchaseOrders and ConfirmedWrites

| Action | Code |
|---|---|
| `Generate`, `Create` | `Service.Generate`: the lines already covered, then the order |
| `Read`, `Save…`, `RollBack` | `transitionTx`: a row read without a lock, the move, the whole row saved |
| `ReadForPrice`, `UpdatePrice` | `UpdateItemPrice`, `UpdateItemActualPrice` |
| `DryRun`, `Expire`, `TimePasses` | `runDryRun`; the clock |
| `Consume`, `Admit`, `ReadOrder`, `Execute`, `AuditFails`, `Fail` | `runExecute`: the confirmation in a transaction of its own; then, under the tenant's lock, quotas, the tool's read and change, the audit row and the mark in one |

A move is a read and a save because PostgreSQL runs it READ COMMITTED and nothing is locked:
what others committed in between is overwritten, row by row. An order has one line of one piece,
and all orders buy the same line. A dry run is one action, since execute checks everything again.
Calls that are refused or repeated change nothing. Gates are open, limits constant, and there is one
tenant; batches are sequences of single moves; nothing in the code makes an order `failed`,
so neither does the model. Tracking rows, notices to the provider and automation events
are left out.

## 3. Runs

| Run | Instance | Question |
|---|---|---|
| `operation_task` | 2 users, 2 requests, 2 payloads, 3 draft, 2 review and 2 execution keys, 1 manual retry, 1 death; symmetric | is what is executed reviewed, once, one at a time; is `ReviewGate` implemented |
| `operation_task_retry` | 1 request, 4 execution keys, 2 retries, fair | does every execution end |
| `idempotency` | 3 requests, one with another payload, one lenient; 4 acquisitions, 3 excuses; fair | what a key guarantees, and that it is settled |
| `inventory_sync` | 1 task, 2 workers, 1 reaper, 2 administrators; 1 deferral, 3 requests, 1 fault (a lapse or a failing call on the counter); fair; 794,778 states | pushes, late workers, and the end of every task |
| `order_inventory` | 1 order of 2 lines of one SKU, 2 warehouses, 2 callers who deduct by hand, one from a warehouse he picks, 1 adjuster; rounds 0–1, 1 event (lapse, expiry, edit, transfer); 3,383,934 states | oversell, rounds, the ledger, keys against logs, warehouses |
| `order_intake` | 1 event of the old or the new revision, or with nothing in it, delivered twice, 2 workers, 1 order sync that imports two more payloads of the new revision, one with the digest of the event's and one with another; 1 fault; fair; 1,435,011 states | is what was acknowledged taken, what is processed in the order, one worker at an event |
| `confirmed_writes` | 1 order, 2 operators, 2 calls, 2 confirmations of 4 tools, limits of 1 an hour and 2 a day; 4,778,548 states | executed once, quotas, ceiling, audit, whole rows, goods once |
| `order_sync` | listing of 4 pages, 2 full pages and 4 requests a run, 3 runs; 2 workers, 1 reaper, 2 administrators; 2,665,453 states | is a page forgotten |

The other four runs find a disagreement and are in section 6.

Configurations that `PROJECT.json` does not list are for use by hand: they ask the same modules a
further question, or a larger instance.

| Configuration | What it shows |
|---|---|
| `OperationTask_more.cfg` | `RequestOwnsItsAttempt`, `WrittenOnce`, `NoLostEdit`, `AuditTrailReplays` hold (and are proved) |
| `OperationTask_limits.cfg` | with one request at a time, `RetryLimit` and `FinalFailureIsFinal` hold (and are proved) |
| `Idempotency_more.cfg` | `FinalIsFinal` holds (and is proved) |
| `Idempotency_shared.cfg` | with one owner, a young record implements `KeyProtocol` and callers are told what its `Answer` says (`AnswersAsKey`; both are proved) |
| `OrderIntake_keys.cfg` | `KeysFollowTheProtocol` holds (and is proved) |
| `InventorySync_lease.cfg`, `OrderSync_lease.cfg` | the two implement `LeasedTask` (and this is proved) |
| `OrderInventory_lapse.cfg` | one line, 3 rounds, 2 events: a gap after a gap, and deductions in a round after one that was skipped, which rounds 0–1 do not have |
| `OrderInventory_rounds.cfg` | two lines over 3 rounds |

`order_intake` with two faults (5.36 million states) and `confirmed_writes` with three confirmations
(14.65 million) pass too and take longer than is pleasant.

Why these bounds are enough. The code compares two things at a time: a request with the
row, an attempt with the last one, a worker with the owner of the row. Two actors therefore
show every race of a check with a write, and the third request of `idempotency` shows a
takeover of a takeover. Retries, lapses and rounds are counted so that each can happen before and
after each other step at least once, and so that a limit is reached and tried once more. One
death, one lapse or one event at any moment reaches every gap between two statements.
`order_inventory` opens with two pieces in the default warehouse and lets one more come into the
other, so that a line of two is split and a line of one is then short. In `order_sync` three pages
of four may fail at once, a retry of three reaches its limit, and three runs let a retry of a retry
meet an administrator who read the row two runs ago. Where a property has a proof (section 5), no
bound is behind it at all. That matters for one half of `QuotasHold`: with two confirmations, the run
never reaches the tenant's limit of two a day, so it tries the token's quota only; the tenant's is
reached with three, and is proved by `QuotasKept`.

`CHECK_DEADLOCK FALSE` stands where the system really may stop: a task that has succeeded
(`InventorySync`, `OrderSync`), an event that is processed or failed (`OrderIntake`), a purchase
order that is voided when all confirmations are used up (`ConfirmedWrites`). In the other
components somebody may always act, if only by reading a page or starting a call. Two restores
that lock two SKUs in opposite order wait for each other until PostgreSQL aborts one of them
(`Abort`); the instances have one SKU.

### Properties

*OperationTask.* `OnlyReviewedContentIsExecuted`: what the port received is the version and
payload of an approval given with that version on screen. `ExecutingIffOneRunning`: a task is
executing exactly while its newest attempt runs. `NoDoubleCall`: an attempt reaches the port at
most once. `UnknownOutcomeIsNotRepeated`: after a death the draft is not run again.
`NoExecutionOverUnreviewedEdit`: an execution starts over the newest version only.
`ImplementsReviewGate`, `ExecutionEnds`.

*Idempotency.* `EffectsAreExcused`: every effect after the first has been paid for by a
lapse, a death, a late error or a run under an expired record. `HeldByOne`, `OneResult`,
`OnePayload` (whoever runs under a key carries the payload it was made for), `CompletedByHolder`, and `KeyIsSettled`: processing ends.

*InventorySync.* `PushedNoMoreThanAsked`: the platform is reached at most as often as
somebody asked. `SuccessIsPushed`: a task marked successful was pushed by the execution that
claimed it last. `OneExecutor`: two workers execute a task only after its row was written over
under one of them. `FinishesItsOwn`: the last UPDATE of a worker, which asks neither for
the status nor for the expiry, still lands on its own running execution only.
`RunningEnds`, `WaitingEnds`: nothing runs, or waits in the list, for ever. Part of `TypeOK` is how far the
deferral counter goes: not to `MaxDefers`, as the code means it, but up to one more for each worker but one that
has read it at the same time, and one for each GET that failed.

*OrderInventory.* `NoOversell`: no negative stock unless negative stock was allowed.
`RoundsAlternate`: deductions and restores of a line and SKU alternate, though both are
decided before the lock. `LedgerAddsUp`: stock is what it was plus what the logs say, as
long as no adjustment raced another writer. `KeysMatchTheBooks`: a key has succeeded
if and only if the log of its round is there. `WarehousesHoldTheirOwn`: no warehouse but the
default one, whose stock is derived, is drawn below zero.

*OrderIntake.* `ProcessedIsReflected`: an event marked processed is in the order, or was stale
against something that is. `RevisionHasOneDigest`: of two payloads that claim one revision and
differ in a status, the amount or a time, one is ever written. `HandledByOne`: no two workers are between claim and mark of an event.
`AckedIsTaken`: what the platform was told is received, a worker takes.

*PurchaseOrders, ConfirmedWrites.* `ExecutedOnce`: a confirmation is executed at most once, and is
marked so exactly if the audit log has it. `QuotasHold`, `CeilingHolds`: over all replicas.
`MovesAreAudited`: an order's own events and the audit log tell the same. `RowsAreWhole`:
operators and calls overwrite each other, but never make a mixture of two moves.
`ReceivedOnce`: the stock has the goods of every delivered order, once.

*OrderSync.* `NoPageIsForgotten`: a task that can be retried will ask for every page that is
missing, and one that succeeded misses none, but for those beyond the limits of a run.

## 4. Fairness

Safety runs assume none. `operation_task_retry` assumes that a request which is being
served goes on (a port call has a context with a deadline, a transaction ends), and no
request dies in it: nothing in the code resumes an execution whose process died, and the model
shows no more than that. `idempotency` assumes that operations
return and are reported, that a lease nobody renews lapses, and that *somebody*
goes on asking for the key: workers poll and clients retry. It assumes neither a heartbeat nor
a sweep, since nothing calls them. `inventory_sync` assumes that workers and reapers keep
running, that an abandoned lease runs out, and, strongly, that the list is
first-in-first-out and that the reaper looks at each expired row in turn, so that no task is
passed over for ever. It assumes nothing of administrators and nothing of renewals.
`order_intake` assumes that a worker goes on with what it is at and polls again, as its ticker makes
it do; nothing of requests, pages or leases. `OrderInventory`, `ConfirmedWrites` and `OrderSync` state
safety only: a deduction, a call and a retry are somebody's request, and nobody need make it.

## 5. Proofs

Every theorem is for all values of the constants and is checked by `tlapm` down to the leaves.

**OperationTaskProofs.** `TypeCorrect`, `ReviewedOnly`, `OneExecution`, `Ownership`,
`AtMostOnce`, `NeverRepeated`, `ReviewedWhenStarted`, `TrailReplays`, `WrittenByOne`,
`EditsAreSequential`, `SerialRetriesAreLimited` and `Refinement` (the services implement
`ReviewGate`). None of the properties is inductive: that content was reviewed is not a
fact about a call but follows along *call → attempt → approval → draft*. `IInv` has one
conjunct per link (`CallsBind`, `AttemptsBind`, `ApprovalsBind`), and the ownership of the newest
attempt from prepare to finalize, from which it follows that it is called once. The
refinement maps `proposed` to the number of drafts, `cleared` to the approved versions,
`inflight` to the version of the running attempt and `delivered` to the calls; an edit is
`Propose`, an approval `Clear`, a prepare `Begin`, a call `Deliver`, a finalize `End`.

The audit trail is a claim about a list (`LeadsTo`: from *absent* to a state, without a gap, by
lawful changes), and one event more keeps it (`TrailGrows`); the proof then asks of each service
only that the event it appends begins at the row's status and is lawful. That edits are
sequential needs `PagesAreWhole`: a page is read in two queries, but a draft never comes without a
new revision, so a page of the current revision shows the latest draft. `SerialRetriesAreLimited`
is the counterpart of the counterexample to `RetryLimit` (section 6): while requests for a task come
one at a time (`OneAtATime`), the limit holds and nothing follows a final failure, because what
`validateRetry` has seen is still so in `prepare`. So the overlap of two requests is all that breaks them.

**IdempotencyProofs.** `TypeCorrect`, `NothingRunsTwice`, `Serial`, `SameResult`,
`SamePayloadUnderAKey`, `OnlyHolderCompletes`, `FinalStays`, `ServesTheKey`, `SharedAnswers`. The theorems that need it assume
`CallersAreDistinct`: finitely many requests with owner names of their own. The order
importer does not meet this assumption (its owner is the constant `order-import`), and what
the theorems say does not hold for it; `OrderIntake` therefore has its own keys. The strengthening
is a ledger, `Budget`: effects there are plus effects being worked on never exceed the excuses by
more than one, and by one only while something keeps the next request out (`Secured`).

`ServesTheKey` and `SharedAnswers` are what entitles `OrderIntake` to keys of its own. While a
record is young (`YoungSpec`: its first seven days, failures that may be retried, nothing that sweeps
it), `Create`, `Acquire`, `Complete`, `Fail` and a lapsing lease do to it what `KeyMoves` does to a
key, and all else leaves it alone; callers of one owner are answered as `Answer` says, since a live
lease is their own. On the other side `KeysAreTheServices` (OrderIntakeProofs) says that the keys of
the intake move in no other way.

**InventorySyncProofs.** `TypeCorrect`, `NoExtraPush`, `SuccessWasPushed`,
`OneExecutorUnlessTaken`, `WorkersFinishTheirOwn`, `KeepsTheLease`. The argument is that whoever takes a row out
of running clears `locked_by` in the same UPDATE (`Owned`), so a row a worker still finds under
its name and version is its own and running; and that the version grows with each claim, a
claim needs a pending row, and a row becomes pending once per request (`Counted`). For the deferral
counter, `TypeOK` is not inductive: what is counted are the workers that have found the counter below the limit
and will add one to it (`Counting`), and that the counter and they together stay within `DeferLimit` (`Overshoot`).
A worker that reads is not yet among them, so at that moment all but one other may be.

`KeepsTheLease` is the refinement of `LeasedTask`: there a report asks for a running task, which
the last UPDATE of the code does not, and a claim for a task without a holder. Both follow from
`Owned`. Reapers, retries and panics, which write whatever they find, map to `Lose`: they can take a task
from its holder but not report for it. `OrderSyncProofs` has the same theorem of order sync tasks.

**OrderInventoryProofs.** `TypeCorrect`, `RoundsDoAlternate`, `NothingIsOversold`, `NoWarehouseOwes`,
`TheLedgerAddsUp`, `KeysAndBooksAgree`: all the invariants of the run. They build on one another.

* `TypeInv` carries, with the types, what a call has in hand at each stage (`CallsWellFormed`).
* `RoundsInv` has `Alternate`, the claim for one line and SKU, and what callers have in hand
  (`Hand`): the round a deduction goes on with is the one the logs have counted up to, or somebody else
  has booked it since, and then the key or the unique index refuses it; the rounds a restore goes on
  with have been booked. So a reading made before the lock may be stale without doing harm.
* Oversell needs no more than the lock: between the check and the write nobody else writes the SKU.
* For the warehouses, a deduction takes of each at most what is there (`Allocation`) and never less
  than nothing (`NothingPutIn`), so giving it back draws nothing below zero.
* For the ledger each writer changes the stock by what it logs. The sum over the rounds changes in
  one term, or, for a restore, in one for each of its jobs; so it is proved that no two jobs of a
  restore are for the same line and SKU (`JobsApart`).
* The keys have an invariant of their own, with the shape of the two tables as strengthening.

**SumTheorems.** Sums are folds of the community modules, and a fold is a function that a `CHOOSE`
picks. What such a function computes is usually shown by induction, but the library's induction
theorems have an operator as parameter. Here a claim about all subsets of a finite set is
instead refuted from a minimal counterexample, which is a set like any other (`LeastSubset`, from the
well-foundedness of strict inclusion). That gives the existence and the uniqueness of the recursive
function (`SumsExist`, `SumsUnique`), hence `SumUnfolds`, and from it the laws: a term more or less,
a changed term, sums of sums, comparison.

**OrderIntakeProofs.** `TypeCorrect`, `OneWorkerAnEvent`, `OneDigestARevision`,
`ProcessedReflected`, `KeysAreTheServices`. A worker past the claim owns the row in `processing`, from which only it
leads out; that is exclusion, although the event's key lets several in. An importer past its
key carries a payload whose digest the key is bound to, and a key once made is bound for good, so two
digests of one revision cannot both be written; two payloads of one digest can (section 6). A key that has
succeeded means that the order reflects every payload it stands for, since those of one revision and digest
are stale against the same (`CoveredAlike`, which is where the assumption on digests is used), and being stale is inherited: what is stale against *q* is stale against
whatever made *q* stale, as far as the writes go, so *processed* stays true while the order moves on.

**ConfirmedWritesProofs.** `TypeCorrect`, `ExecutesOnce`, `QuotasKept`, `CeilingKept`, `AuditComplete`,
`WholeRows`, `Received`. The invariant has five parts. Of the pipeline: a call that is past the consumption holds
a confirmation that is consumed, no two hold the same, the one that has the tenant's lock is the one
past it, and the audit log has no confirmation twice. Of the orders: what a mover has read is a whole
row that its move may be made of, so that what it saves is whole, however stale. Of the quotas: a
call that was admitted has room in each window, which nobody else can use while it has the lock. Of
the ceiling: the same for its amount (`CeilingRoom`); a window that moves on spends less (`SpentShrinks`),
an execute spends the amount that was confirmed (`ExecuteSpends`), and the amount of a request that is
confirmed never changes.
And `MovesAreAudited` itself, which is inductive with these.

**OrderSyncProofs.** `TypeCorrect`, `NoPageForgotten`, `KeepsTheLease`. What is all that is missing now will still be
all that is missing later, since pages fetched or left out are never taken back (`Monotone`). So
every copy of the page numbers, in the row's output, its input, a worker or an administrator, covers
what is missing (`Covers`) from the moment it was right, however old it is when it is written;
and a run from the start asks for every page or leaves it out for its limits (`ReachedOrLeftOut`).

Assumptions on constants are those the modules name (`NoKeyAssumption`, `BoundsAssumption`,
`PayloadAssumption`, `LimitsAssumption` and so on); TLC evaluates them in the runs. `RowsAssumption`
(finitely many lines and SKUs) and the finite set of warehouses of `WarehousesAssumption` are what
a sum needs; they are rows of tables. `OneAtATime`, `CallersAreDistinct` and `OneOwner` are no
assumptions but hypotheses, in the statement of the theorems that have them.

**Only model-checked.** Liveness (`ExecutionEnds`, `KeyIsSettled`, `RunningEnds`, `WaitingEnds`,
`AckedIsTaken`), which the prover does not reach. Every invariant and action property that a run
finds to hold has a theorem.

## 6. Where code and documents disagree

Each of the first four is a run that TLC ends with a counterexample; the others have a
configuration to be run by hand, of the module it is named after (`MC…`).

| Run or configuration | Property | What happens |
|---|---|---|
| `operation_task_retry_limit` | `RetryLimit` | Two retries validated against the same last attempt run one after the other and exceed the limit: `prepare` does not check it again. |
| `order_inventory_retry` | `RetryIsNotRefused` | A deduction that lacked stock has failed its round's key for good; the retry the documents offer is refused however much comes in. |
| `order_inventory_adjust` | `AdjustmentsAreKept` | `business_event_key` has a full unique index by its gorm tag and adjustments leave it empty: from the second on, they fail. |
| `order_intake_overtaken` | `NeverBack` | Two workers handle two events of an order: both look before either writes, and the older revision is written last. |
| `Idempotency_race.cfg` | `ConflictIsAnotherPayload` | Two first requests with the same payload: the INSERT of one is refused by the unique index and reported as `key_conflict`. |
| `InventorySync_double_retry.cfg` | `NeverTwoAtOnce` | The second of two retries resets the row a worker has just claimed, and a second worker runs the task beside the first. |
| `OrderInventory_resize.cfg` | `RestoreMirrorsDeduct` | A line whose quantity changed after its deduction is restored with the new quantity, to the default warehouse. |
| `OrderIntake_failed.cfg` | `FailedIsRetried` | An event that failed stays so: the poll asks for queued events only. |
| `OrderIntake_digest.cfg` | `RevisionHasOneContent` | An event and a page of one revision, which differ in the items only, hash alike and hold the key together; overlapping, both are written. `docs/IDEMPOTENCY_DESIGN.md` calls the hash one of the request body and another payload under a key a conflict. |
| `OrderSync_success.cfg` | `SuccessIsComplete` | A run in which an order could not be imported and a page could not be fetched is retried for the page alone; the task is then a success and the order is missing (`docs/ORDER_SYNC_PARTIAL_SUCCESS_UX.md` forbids to show a partial success as complete). |
| `PurchaseOrders_retry.cfg` | `ConfirmedBeforePlaced` | `Retry` does not ask whether the order failed: one that waits for its confirmation is retried into placing. |
| `PurchaseOrders_overwritten.cfg` | `AlongTheStateMachine` | Two operators' moves: the later save takes the order back to where the state machine would not lead. |
| `PurchaseOrders_bought_twice.cfg` | `BoughtOnce` | Two generations with different keys both see a line uncovered, and both buy it. |
| `ConfirmedWrites_amount.cfg` | `PaidAsConfirmed` | A price that changes between the tool's check and its save: the order is paid at another total than was confirmed. |

The three of `PurchaseOrders` and that of `ConfirmedWrites` run with `MCConfirmedWrites`.

Seen while reading and not made into a configuration, because no document says otherwise:

* `createDraftVersion` accepts the first draft of a task that is still `suggested`, and an edit of a
  failed task leaves it with an approval that no longer binds.
* A pending inventory or order sync task whose message was lost stays pending: nothing re-enqueues
  it, it cannot be retried as it is not failed, and an inventory task blocks new ones for its target.
* `ReleaseExpired`, `Heartbeat` and `Execute` of the idempotency service have no production
  callers, so a record older than seven days is `retry_allowed` for good.
* `RenewHeartbeat` does not ask for the expiry and revives a lapsed lease.
* A push is keyed by its target: a stock that goes from 10 to 5 and back to 10 within the life of
  a key is not pushed the third time. Of two tasks of one listing the older may be pushed last.
* A listing's mirrored stock is written before the lease is validated.
* Two workers that reconcile a batch may write counts in the wrong order.
* `allocateDeduction` puts on the default warehouse what lies in a disabled one.
* A line rebound or replaced after its deduction cannot be restored.
* A manual adjustment writes an absolute stock it read without a lock.
* A retry of an order sync that reaches the record limit leaves its other pages out and says nothing.

## 7. Plan

What would come next, the most consequential first:

1. Changes of a stock, push keys, the duplicate check of task creation and the listings of one SKU,
   composed with `InventorySync`: when everything is quiet the platform shows the last target, or
   which changes it does not show. `docs/DOUYIN_PRODUCTION_RUNBOOK.md` is the document to hold it against.
2. `OrderInventory` with two SKUs, whose restores lock in opposite order; an abstract ledger that it
   implements.
3. The other tasks that claim under a lease, as implementations of `LeasedTask`: collection,
   images, publication, messages.
4. Batches and their reconciliation; the state machine of files.

## 8. Not modelled, and why

* **Tasks of the same pattern.** Publishing, collection, images, AI batches and customer messages use the
  lease package and the Idempotency service, which are modelled; what is their own is data (mappings,
  pages, pictures, answers).
* **Pure data.** Prompts, AI answers, price rules, collection rules, exports, reports,
  dashboards, carriers and waybills, settings: their state changes by forms of one user, or not at all.
* **Clients.** `backend/internal/providers` (but for the pages of `douyinshop`) and the collector are remote
  services; the models treat what they answer as a choice (success, failure, failure after the effect).
* **Display.** Worker registry, queue health, task center, alerts, status pages: nothing depends on
  them. The front end calls the API and is present as users with stale pages.
* **Operations.** Backup, restore, release and disaster recovery run external tools.
* **Accounts.** Sign-in, sessions, permissions, tokens: single rows with single statements.
* **The rest.** The creation of inventory tasks, the automation engine, the hash chain of the operation
  log, the P9 synchronisation pipeline, customer chat, retry policies and rate limits: they have state or
  arithmetic of their own and are candidates after the plan. Of the purchase side, sourcing; of the
  order side, forms and tags.

The modules describe a small part of the code by lines. Most of the rest is handlers, forms, mappings,
prompts and their validation, in which there is nothing that a model checker could say more of than
the code does.

Within the modelled components: wording, redaction, pagination of lists and field validation are left
out; time is a choice (a lease is live until it lapses, at any moment); database errors are
`Abort`, `Die`, `Fail` or `Abandon`; a transaction is atomic and its row locks are as strong as
PostgreSQL's at READ COMMITTED. What each component leaves out beyond this is in its `note` in
`PROJECT.json`.

## 9. Running

    tlc -workers 2 -config OrderInventory.cfg MCOrderInventory
    tlapm OperationTaskProofs.tla

`PROJECT.json` lists every run with its module and configuration, the lines of code each
definition models, and for every property a mutant of the model that violates it.
