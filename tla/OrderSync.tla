------------------------------- MODULE OrderSync -------------------------------
(***************************************************************************)
(* An order sync task (backend/internal/modules/ordersync, with the pages  *)
(* of providers/platform/douyinshop/order.go): a row of order_sync_tasks,  *)
(* the workers that fetch its pages from the platform and import their     *)
(* orders, the reapers that fail it when a lease is over, and the          *)
(* administrators who retry what failed, or failed in part.                *)
(*                                                                         *)
(* What matters is which pages a retry fetches again: it is read from the  *)
(* output of the last run, written into the input of the next, and merged  *)
(* with the output once more when that run ends, each in a statement of    *)
(* its own. Every SQL statement is an action; a run's calls to the         *)
(* platform, which nobody else sees, are one.                              *)
(*                                                                         *)
(* Leases and messages are those of InventorySync and kept short here: any *)
(* worker may come to a pending row, a lease may lapse at any time, and a  *)
(* worker that finds it lapsed leaves without a word. The listing does not *)
(* change from run to run, as with a start and an end in the past; its     *)
(* pages are full, so that the limit on records is a number of pages. The  *)
(* task begins at page 0. fetched, imported and left say what became of a  *)
(* page and are there to state what holds.                                 *)
(***************************************************************************)
EXTENDS Naturals, FiniteSets

CONSTANTS
  Workers, Reapers, Admins,
  Total,     \* external: pages the listing has
  MaxPages,  \* pages a run asks for, failures included
  MaxFull,   \* pages with orders a run takes (maxOrderSyncRecordsPerTask)
  MaxRuns    \* bound: claims of the task

ASSUME LimitsAssumption ==
  /\ Total \in Nat /\ MaxRuns \in Nat
  /\ MaxPages \in Nat \ {0} /\ MaxFull \in Nat \ {0}

\* A worker's name is generated, and never empty.
ASSUME NamesAssumption == "none" \notin Workers

VARIABLES
  row,       \* the row of order_sync_tasks
  worker,    \* what each worker is doing
  reaper,    \* whether each reaper is about to fail the task
  admin,     \* what each administrator is about to reset it with
  fetched,   \* pages whose orders were handed to the import
  imported,  \* pages whose orders were all imported
  left       \* pages that some run left out for its limits

vars == <<row, worker, reaper, admin, fetched, imported, left>>

Statuses == {"pending", "running", "partial_success", "success", "failed", "cancelled"}

\* pages is input.retryPagesOnly, errors are the pages in output.pageErrors.
Rows == [status: Statuses, owner: Workers \union {"none"}, version: Nat,
         pages: SUBSET Nat, errors: SUBSET Nat]

Stages == {"idle", "claimed", "loaded", "fetched", "done", "panicking"}

\* pages and errors as they were read, what the run fetched (ok), could not fetch
\* (bad) and left out, whether the platform has more, and how the run ends.
WorkerStates ==
  [at: Stages, version: Nat, pages: SUBSET Nat, errors: SUBSET Nat,
   ok: SUBSET Nat, bad: SUBSET Nat, out: SUBSET Nat, more: BOOLEAN,
   ends: {"partial_success", "success", "failed"}]

Idle == [at |-> "idle", version |-> 0, pages |-> {}, errors |-> {},
         ok |-> {}, bad |-> {}, out |-> {}, more |-> FALSE, ends |-> "failed"]

AdminStates == [at: {"idle", "read"}, pages: SUBSET Nat]

NoRequest == [at |-> "idle", pages |-> {}]

Init ==
  /\ row = [status |-> "pending", owner |-> "none", version |-> 0, pages |-> {}, errors |-> {}]
  /\ worker = [w \in Workers |-> Idle]
  /\ reaper = [r \in Reapers |-> FALSE]
  /\ admin = [a \in Admins |-> NoRequest]
  /\ fetched = {} /\ imported = {} /\ left = {}

-------------------------------------------------------------------------------
(* Paging *)

Listing == 0 .. Total - 1

\* The run has its fill of records before it comes to page n, when it could not
\* fetch the pages F.
Full(n, F) == Cardinality({m \in 0 .. n - 1 : m \notin F /\ m < Total}) >= MaxFull

\* Mutant: a page that fails is the last.
ReachedToFailure(F) ==
  {n \in 0 .. MaxPages - 1 : ~Full(n, F) /\ \A m \in 0 .. n - 1 : m \notin F /\ m + 1 < Total}

\* The pages a run from the start asks for: it goes on after one that fails, and
\* ends with its fill, or after one that the platform says is the last.
Reached(F) ==
  {n \in 0 .. MaxPages - 1 : ~Full(n, F) /\ \A m \in 0 .. n - 1 : m \in F \/ m + 1 < Total}

\* The last page asked for was fetched and is not the last; an error says nothing.
HasMore(F) ==
  \E n \in Reached(F) \ F : n + 1 < Total /\ \A m \in Reached(F) : m <= n

\* Pages of the listing that a run from the start does not ask for.
LeftOut(F) == {p \in Listing : p >= MaxPages \/ Full(p, F)}

-------------------------------------------------------------------------------
(* The worker *)

\* TryClaim
Claim(w) ==
  /\ worker[w].at = "idle"
  /\ row.status = "pending"
  /\ row.version < MaxRuns
  /\ row' = [row EXCEPT !.status = "running", !.owner = w, !.version = @ + 1]
  /\ worker' = [worker EXCEPT ![w] = [Idle EXCEPT !.at = "claimed", !.version = row.version + 1]]
  /\ UNCHANGED <<reaper, admin, fetched, imported, left>>

\* The row is read after it was claimed.
Load(w) ==
  /\ worker[w].at = "claimed"
  /\ worker' = [worker EXCEPT ![w] =
                  [@ EXCEPT !.at = "loaded", !.pages = row.pages, !.errors = row.errors]]
  /\ UNCHANGED <<row, reaper, admin, fetched, imported, left>>

\* The Douyin runtime guard refuses the task; its output is replaced.
Block(w) ==
  /\ worker[w].at = "loaded"
  /\ row' = [row EXCEPT !.status = "cancelled", !.owner = "none", !.errors = {}]
  /\ worker' = [worker EXCEPT ![w] = Idle]
  /\ UNCHANGED <<reaper, admin, fetched, imported, left>>

\* No authorisation, no page at all, or the first page of a listing: the run fails.
FetchNothing(w) ==
  /\ worker[w].at = "loaded"
  /\ worker' = [worker EXCEPT ![w] = [@ EXCEPT !.at = "done", !.ends = "failed"]]
  /\ UNCHANGED <<row, reaper, admin, fetched, imported, left>>

\* SyncOrdersPaginated from the start; page 0 is fetched.
FetchListing(w) ==
  /\ worker[w].at = "loaded"
  /\ worker[w].pages = {}
  /\ \E F \in SUBSET (1 .. MaxPages - 1) :
       /\ F \subseteq Reached(F)
       /\ worker' = [worker EXCEPT ![w] =
                       [@ EXCEPT !.at = "fetched", !.ok = Reached(F) \ F, !.bad = F,
                                 !.out = LeftOut(F), !.more = HasMore(F)]]
  /\ UNCHANGED <<row, reaper, admin, fetched, imported, left>>

\* syncOrdersRetryPagesOnly: the pages come in any order (they went through a Go
\* map), and those after the fill are left out; more is never said to come.
FetchPages(w) ==
  LET pages == worker[w].pages IN
  /\ worker[w].at = "loaded"
  /\ pages # {}
  /\ \E tried \in SUBSET pages : \E F \in SUBSET tried :
       LET records == Cardinality((tried \ F) \intersect Listing) IN
       /\ tried \ F # {}
       /\ records <= MaxFull
       /\ tried # pages => records = MaxFull
       /\ worker' = [worker EXCEPT ![w] =
                       [@ EXCEPT !.at = "fetched", !.ok = tried \ F, !.bad = F,
                                 !.out = pages \ tried, !.more = FALSE]]
  /\ UNCHANGED <<row, reaper, admin, fetched, imported, left>>

\* resolveFinalSyncStatus, of this run alone
FinalStatus(bad, lost, more) ==
  IF bad # {} \/ lost # {} \/ more THEN "partial_success" ELSE "success"

\* UpsertPlatformOrders: an order that cannot be imported is counted, no more.
Import(w) ==
  /\ worker[w].at = "fetched"
  /\ fetched' = fetched \union worker[w].ok
  /\ \E lost \in SUBSET (worker[w].ok \intersect Listing) :
       /\ imported' = imported \union (worker[w].ok \ lost)
       /\ worker' = [worker EXCEPT ![w] =
                       [@ EXCEPT !.at = "done",
                                 !.ends = FinalStatus(worker[w].bad, lost, worker[w].more)]]
  /\ UNCHANGED <<row, reaper, admin, left>>

Holds(w) == row.owner = w /\ row.version = worker[w].version

\* mergeSyncOutput: what was retried gives way to what failed again.
Merged(w) ==
  IF worker[w].ends = "failed" THEN row.errors
  ELSE IF worker[w].pages = {} THEN worker[w].bad
  ELSE (worker[w].errors \ worker[w].pages) \union worker[w].bad

\* finishOrderSyncTask; a run that failed leaves the output as it was.
Finish(w) ==
  /\ worker[w].at = "done"
  /\ IF Holds(w)
     THEN /\ row' = [row EXCEPT !.status = worker[w].ends, !.owner = "none", !.errors = Merged(w)]
          /\ left' = IF worker[w].ends = "failed" THEN left ELSE left \union worker[w].out
     ELSE UNCHANGED <<row, left>>
  /\ worker' = [worker EXCEPT ![w] = Idle]
  /\ UNCHANGED <<reaper, admin, fetched, imported>>

\* handleOrderSyncPanic looks whose task it is ...
Panic(w) ==
  /\ worker[w].at \in {"loaded", "fetched", "done"}
  /\ worker' = [worker EXCEPT ![w] =
                  IF row.status = "running" /\ row.owner = w
                  THEN [@ EXCEPT !.at = "panicking"] ELSE Idle]
  /\ UNCHANGED <<row, reaper, admin, fetched, imported, left>>

\* Whoever fails the task from outside names its id only.
FailRow == row' = [row EXCEPT !.status = "failed", !.owner = "none"]

\* ... and fails it.
PanicWrite(w) ==
  /\ worker[w].at = "panicking"
  /\ FailRow
  /\ worker' = [worker EXCEPT ![w] = Idle]
  /\ UNCHANGED <<reaper, admin, fetched, imported, left>>

\* The process stops, the database fails it, or its lease has lapsed.
Die(w) ==
  /\ worker[w].at # "idle"
  /\ worker' = [worker EXCEPT ![w] = Idle]
  /\ UNCHANGED <<row, reaper, admin, fetched, imported, left>>

-------------------------------------------------------------------------------
(* Reapers and retries *)

\* RecoverLeaseExpired, RecoverLegacyRunning: a running row whose lease is over ...
Reap(r) ==
  /\ ~reaper[r]
  /\ row.status = "running"
  /\ reaper' = [reaper EXCEPT ![r] = TRUE]
  /\ UNCHANGED <<row, worker, admin, fetched, imported, left>>

\* ... is failed, whatever has become of it.
ReapWrite(r) ==
  /\ reaper[r]
  /\ FailRow
  /\ reaper' = [reaper EXCEPT ![r] = FALSE]
  /\ UNCHANGED <<worker, admin, fetched, imported, left>>

\* RetryFailed reads which pages to ask for again ...
Retry(a) ==
  /\ admin[a].at = "idle"
  /\ row.status \in {"failed", "partial_success"}
  /\ admin' = [admin EXCEPT ![a] = [at |-> "read", pages |-> row.errors]]
  /\ UNCHANGED <<row, worker, reaper, fetched, imported, left>>

\* ... and resets the row, whatever has become of it: with pages to ask for, the
\* input names them and the output stays; without, the output is emptied and the
\* input stays as it was.
Reset(a) ==
  LET pages == admin[a].pages IN
  /\ admin[a].at = "read"
  /\ row' = [row EXCEPT !.status = "pending", !.owner = "none",
                        !.pages = IF pages = {} THEN @ ELSE pages,
                        !.errors = IF pages = {} THEN {} ELSE @]
  /\ admin' = [admin EXCEPT ![a] = NoRequest]
  /\ UNCHANGED <<worker, reaper, fetched, imported, left>>

-------------------------------------------------------------------------------
WorkerStep(w) ==
  \/ Claim(w) \/ Load(w) \/ Block(w)
  \/ FetchNothing(w) \/ FetchListing(w) \/ FetchPages(w) \/ Import(w)
  \/ Finish(w) \/ Panic(w) \/ PanicWrite(w) \/ Die(w)

Next ==
  \/ \E w \in Workers : WorkerStep(w)
  \/ \E r \in Reapers : Reap(r) \/ ReapWrite(r)
  \/ \E a \in Admins : Retry(a) \/ Reset(a)

Spec == Init /\ [][Next]_vars

-------------------------------------------------------------------------------
(* What holds *)

TypeOK ==
  /\ row \in Rows
  /\ worker \in [Workers -> WorkerStates]
  /\ reaper \in [Reapers -> BOOLEAN]
  /\ admin \in [Admins -> AdminStates]
  /\ fetched \subseteq Nat /\ imported \subseteq Nat /\ left \subseteq Nat

\* What a retry that read the row as it is would fetch (buildRetrySnapshotFromTask,
\* and the input it leaves in place).
NextPages ==
  IF row.errors # {} THEN row.errors
  ELSE IF row.pages # {} THEN row.pages
  ELSE Listing

\* Of the pages of the listing none is forgotten, but for those beyond the limits
\* of a run: a task that succeeded has fetched them all, however many runs,
\* crashes, lapsed leases and retries it took, and one that can be retried asks
\* for every page that is missing.
NoPageIsForgotten ==
  /\ row.status = "success" => Listing \subseteq fetched \union left
  /\ row.status \in {"failed", "partial_success"}
       => Listing \subseteq fetched \union left \union NextPages

\* A task that says success has imported every order of its listing (a task that
\* imported a part must not be shown as a complete success:
\* docs/ORDER_SYNC_PARTIAL_SUCCESS_UX.md). It does not hold: the final status
\* looks at the last run only, and a retry asks for pages that could not be
\* fetched, not for orders that could not be imported, nor for what lies beyond
\* the limits of the first run.
SuccessIsComplete == row.status = "success" => Listing \subseteq imported

-------------------------------------------------------------------------------
(* The abstract specification *)

Leased == INSTANCE LeasedTask WITH
  Tasks    <- {"task"},
  Nobody   <- "none",
  Outcomes <- {"partial_success", "success", "failed"},
  Fates    <- {"pending", "failed", "cancelled"},
  status   <- [t \in {"task"} |-> row.status],
  holder   <- [t \in {"task"} |-> row.owner],
  version  <- [t \in {"task"} |-> row.version]

\* Refinement: the row of an order sync task keeps the promise of a leased task,
\* although finishOrderSyncTask asks for the owner and the version only, and
\* panic, reaper and retry ask for nothing.
ImplementsLeasedTask == Leased!Spec
===============================================================================
