----------------------------- MODULE InventorySync -----------------------------
(***************************************************************************)
(* The life of an inventory sync task (backend/internal/modules/inventory, *)
(* on the task leases of backend/internal/pkg/tasklease): a row of         *)
(* inventory_sync_tasks and the messages that name it in a Redis list,     *)
(* the workers that take a message, claim the row, push the stock to the   *)
(* platform and write the outcome, the reaper of every process that fails  *)
(* rows whose lease is over, and the administrators who retry what failed. *)
(*                                                                         *)
(* Each SQL statement is an action. Whoever reads the row in one statement *)
(* and writes it in another keeps what it has read in between: a worker    *)
(* that validates its lease and then finishes, or panics; a reaper; a      *)
(* retry. Claiming is one guarded UPDATE, and the version it is given is   *)
(* read right after it; the two are one action, for a version read too     *)
(* late fails every later comparison with the execution id.                *)
(*                                                                         *)
(* locked_until is compared with the clock only: a lease is live until it  *)
(* lapses, at any moment. row.version is lock_version; with it goes        *)
(* execution_id, new at each claim, so that the pair is one number here.   *)
(* A message list is a count of messages. asked, pushed and taken are      *)
(* there to state what holds; the platform's answer is external.           *)
(***************************************************************************)
EXTENDS Naturals, FiniteSets

CONSTANTS
  Tasks,
  Workers,    \* goroutines of every process; an inline run is one as well
  Reapers,    \* one per process
  Admins,     \* retry requests, one at a time each
  MaxDefers,  \* deferrals that give a rate-limited message up (5)
  MaxAsks,    \* bound: times a task is set to pending
  MaxFaults   \* bound: leases that lapse under a worker, calls on a counter that fail

ASSUME BoundsAssumption ==
  /\ MaxDefers \in Nat \ {0}
  /\ MaxAsks \in Nat \ {0}
  /\ MaxFaults \in Nat

\* At least one goroutine, and a known number of them (normalizeConcurrency).
ASSUME WorkersAssumption == IsFiniteSet(Workers) /\ Workers # {}

\* A worker's name is generated, and never empty.
ASSUME NamesAssumption == "none" \notin Workers

VARIABLES
  row,      \* the rows of inventory_sync_tasks
  queue,    \* messages in inventory:sync:tasks, per task
  defers,   \* the Redis counters inv:sync:defer:<task>
  worker,   \* what each worker is doing
  reaper,   \* the task each reaper is about to fail
  admin,    \* the task each administrator is about to reset, or to enqueue
  asked,    \* times a task was set to pending
  pushed,   \* external: versions whose execution reached the platform
  taken,    \* tasks whose row was written over while a worker executed them
  faults    \* leases that lapsed under a worker, calls on a counter that failed

vars == <<row, queue, defers, worker, reaper, admin, asked, pushed, taken, faults>>

Statuses == {"pending", "running", "success", "failed", "cancelled"}

Rows == [status: Statuses, owner: Workers \union {"none"},
         lock: {"none", "live", "lapsed"}, version: Nat]

Stages == {"idle", "taken", "deferring", "sleeping", "giving_up", "inline",
           "working", "done", "finishing", "panicking"}

WorkerStates == [pc: Stages, task: Tasks \union {"none"}, version: Nat,
                 result: {"none", "success", "failed"}]

Idle == [pc |-> "idle", task |-> "none", version |-> 0, result |-> "none"]

AdminStates == [pc: {"idle", "read", "reset"}, task: Tasks \union {"none"}]

NoRequest == [pc |-> "idle", task |-> "none"]

\* A worker with a message it has not given up, or with one it means to put back
Deferring(w) == worker[w].pc \in {"taken", "deferring", "sleeping"}

\* A row that nobody executes
Unlocked(status, version) ==
  [status |-> status, owner |-> "none", lock |-> "none", version |-> version]

\* A worker between its claim and its last write
Executing(w) == worker[w].pc \in {"working", "done", "finishing", "panicking"}

\* Mutant: the columns locked_by and locked_until are left alone.
OverwriteStatusOnly(t, status, victims) ==
  /\ row' = [row EXCEPT ![t].status = status]
  /\ taken' = [taken EXCEPT ![t] = @ \/ \E u \in victims : Executing(u) /\ row[t].owner = u]

\* UPDATE ... WHERE id = ?: whatever the row says, it is unlocked now, and lost
\* to the worker that executes it, if that is one of victims.
Overwrite(t, status, victims) ==
  /\ row' = [row EXCEPT ![t] = Unlocked(status, @.version)]
  /\ taken' = [taken EXCEPT ![t] = @ \/ \E u \in victims : Executing(u) /\ row[t].owner = u]

-------------------------------------------------------------------------------
\* A task starts with a message, or was left running by a release without leases.
Init ==
  \E legacy \in SUBSET Tasks :
    /\ row = [t \in Tasks |-> Unlocked(IF t \in legacy THEN "running" ELSE "pending", 0)]
    /\ queue = [t \in Tasks |-> IF t \in legacy THEN 0 ELSE 1]
    /\ defers = [t \in Tasks |-> 0]
    /\ worker = [w \in Workers |-> Idle]
    /\ reaper = [r \in Reapers |-> "none"]
    /\ admin = [a \in Admins |-> NoRequest]
    /\ asked = [t \in Tasks |-> 1]
    /\ pushed = [t \in Tasks |-> {}]
    /\ taken = [t \in Tasks |-> FALSE]
    /\ faults = 0

-------------------------------------------------------------------------------
(* The consumer loop *)

\* BRPOP: from here on the message exists in the worker's memory only.
Take(w, t) ==
  /\ worker[w].pc = "idle"
  /\ queue[t] > 0
  /\ queue' = [queue EXCEPT ![t] = @ - 1]
  /\ worker' = [worker EXCEPT ![w] = [Idle EXCEPT !.pc = "taken", !.task = t]]
  /\ UNCHANGED <<row, defers, reaper, admin, asked, pushed, taken, faults>>

\* Mutant: deferrals have no limit.
ReadAndIgnore(w) ==
  /\ worker[w].pc = "taken"
  /\ worker' = [worker EXCEPT ![w].pc = "deferring"]
  /\ UNCHANGED <<row, queue, defers, reaper, admin, asked, pushed, taken, faults>>

\* The platform's rate is used up. GET: has the message been deferred too often?
ReadDefers(w) ==
  /\ worker[w].pc = "taken"
  /\ worker' = [worker EXCEPT ![w].pc =
                  IF defers[worker[w].task] < MaxDefers THEN "deferring" ELSE "giving_up"]
  /\ UNCHANGED <<row, queue, defers, reaper, admin, asked, pushed, taken, faults>>

\* Mutant: deferrals are not counted.
CountNothing(w) ==
  /\ worker[w].pc = "deferring"
  /\ worker' = [worker EXCEPT ![w].pc = "sleeping"]
  /\ UNCHANGED <<row, queue, defers, reaper, admin, asked, pushed, taken, faults>>

\* INCR: other workers may have counted since the GET.
CountDefer(w) ==
  /\ worker[w].pc = "deferring"
  /\ defers' = [defers EXCEPT ![worker[w].task] = @ + 1]
  /\ worker' = [worker EXCEPT ![w].pc = "sleeping"]
  /\ UNCHANGED <<row, queue, reaper, admin, asked, pushed, taken, faults>>

\* A GET that fails reads zero, and an INCR that fails is not noticed.
CounterFails(w) ==
  /\ faults < MaxFaults
  /\ \/ /\ worker[w].pc = "taken"
        /\ worker' = [worker EXCEPT ![w].pc = "deferring"]
     \/ /\ worker[w].pc = "deferring"
        /\ worker' = [worker EXCEPT ![w].pc = "sleeping"]
  /\ faults' = faults + 1
  /\ UNCHANGED <<row, queue, defers, reaper, admin, asked, pushed, taken>>

\* RPUSH, two seconds later; nobody sees whether it fails.
Requeue(w) ==
  /\ worker[w].pc = "sleeping"
  /\ queue' \in {queue, [queue EXCEPT ![worker[w].task] = @ + 1]}
  /\ worker' = [worker EXCEPT ![w] = Idle]
  /\ UNCHANGED <<row, defers, reaper, admin, asked, pushed, taken, faults>>

\* The message is counted and put back.
Defer(w) == ReadDefers(w) \/ CountDefer(w) \/ CounterFails(w) \/ Requeue(w)

\* Or it is dropped. A task that is not pending keeps its status.
GiveUp(w) ==
  LET t == worker[w].task IN
  /\ worker[w].pc = "giving_up"
  /\ row' = IF row[t].status = "pending" THEN [row EXCEPT ![t].status = "failed"] ELSE row
  /\ worker' = [worker EXCEPT ![w] = Idle]
  /\ UNCHANGED <<queue, defers, reaper, admin, asked, pushed, taken, faults>>

\* Thirty minutes after the last deferral. A deferred message is the next to be
\* popped, so its counter outlives its wait in the list.
DefersExpire(t) ==
  /\ defers[t] > 0
  /\ queue[t] = 0
  /\ \A w \in Workers : ~(Deferring(w) /\ worker[w].task = t)
  /\ defers' = [defers EXCEPT ![t] = 0]
  /\ UNCHANGED <<row, queue, worker, reaper, admin, asked, pushed, taken, faults>>

\* Mutant: the claim does not look at the status.
FreeWhateverStatus(t) == row[t].owner = "none" \/ row[t].lock = "lapsed"

Claimable(t) ==
  /\ row[t].status = "pending"
  /\ row[t].owner = "none" \/ row[t].lock = "lapsed"

\* TryClaim: whoever comes late drops the message.
Claim(w) ==
  LET t == worker[w].task IN
  /\ worker[w].pc \in {"taken", "inline"}
  /\ IF Claimable(t)
     THEN /\ row' = [row EXCEPT ![t] = [status |-> "running", owner |-> w, lock |-> "live",
                                        version |-> @.version + 1]]
          /\ worker' = [worker EXCEPT ![w] = [@ EXCEPT !.pc = "working", !.version = row[t].version + 1]]
     ELSE /\ worker' = [worker EXCEPT ![w] = Idle]
          /\ UNCHANGED row
  /\ UNCHANGED <<queue, defers, reaper, admin, asked, pushed, taken, faults>>

-------------------------------------------------------------------------------
(* ProcessQueuedTask, after the claim *)

\* The Douyin runtime guard refuses the task.
Block(w) ==
  LET t == worker[w].task IN
  /\ worker[w].pc = "working"
  /\ Overwrite(t, "cancelled", Workers \ {w})
  /\ worker' = [worker EXCEPT ![w] = Idle]
  /\ UNCHANGED <<queue, defers, reaper, admin, asked, pushed, faults>>

\* A listing, a binding or the shop's authorisation is missing.
FailEarly(w) ==
  /\ worker[w].pc = "working"
  /\ worker' = [worker EXCEPT ![w] = [@ EXCEPT !.pc = "done", !.result = "failed"]]
  /\ UNCHANGED <<row, queue, defers, reaper, admin, asked, pushed, taken, faults>>

\* SyncInventory reaches the platform. An error may still come back: a timeout,
\* another status or SKU than asked for, or a listing row that is not saved.
Push(w) ==
  /\ worker[w].pc = "working"
  /\ pushed' = [pushed EXCEPT ![worker[w].task] = @ \union {worker[w].version}]
  /\ \E result \in {"success", "failed"} :
       worker' = [worker EXCEPT ![w] = [@ EXCEPT !.pc = "done", !.result = result]]
  /\ UNCHANGED <<row, queue, defers, reaper, admin, asked, taken, faults>>

\* locked_by, execution_id and lock_version are still those of the claim. Mutant:
\* the three are left out of the WHERE clause, the status is asked for instead.
StillRunning(w) == row[worker[w].task].status = "running"

Holds(w) ==
  /\ row[worker[w].task].owner = w
  /\ row[worker[w].task].version = worker[w].version

\* RenewHeartbeat, every third of the lease, as long as the call lasts: it
\* revives a lease that has lapsed as well.
Renew(w) ==
  LET t == worker[w].task IN
  /\ worker[w].pc \in {"working", "done", "finishing"}
  /\ row[t].status = "running"
  /\ Holds(w)
  /\ row[t].lock = "lapsed"
  /\ row' = [row EXCEPT ![t].lock = "live"]
  /\ UNCHANGED <<queue, defers, worker, reaper, admin, asked, pushed, taken, faults>>

\* finishInventorySyncTask validates the lease; if it is lost the result is
\* logged, and dropped ...
Validate(w) ==
  LET t == worker[w].task IN
  /\ worker[w].pc = "done"
  /\ worker' =
       IF row[t].status = "running" /\ Holds(w) /\ row[t].lock = "live"
       THEN [worker EXCEPT ![w].pc = "finishing"]
       ELSE [worker EXCEPT ![w] = Idle]
  /\ UNCHANGED <<row, queue, defers, reaper, admin, asked, pushed, taken, faults>>

\* ... and its UPDATE looks at the holder again, but not at the status.
Finish(w) ==
  LET t == worker[w].task IN
  /\ worker[w].pc = "finishing"
  /\ row' = IF Holds(w)
            THEN [row EXCEPT ![t] = Unlocked(worker[w].result, @.version)]
            ELSE row
  /\ worker' = [worker EXCEPT ![w] = Idle]
  /\ UNCHANGED <<queue, defers, reaper, admin, asked, pushed, taken, faults>>

\* handleInventoryPanic compares the worker's name, not the execution ...
Panic(w) ==
  LET t == worker[w].task IN
  /\ worker[w].pc \in {"working", "done"}
  /\ worker' =
       IF row[t].status = "running" /\ row[t].owner = w
       THEN [worker EXCEPT ![w].pc = "panicking"]
       ELSE [worker EXCEPT ![w] = Idle]
  /\ UNCHANGED <<row, queue, defers, reaper, admin, asked, pushed, taken, faults>>

\* ... and then writes without a condition.
PanicWrite(w) ==
  LET t == worker[w].task IN
  /\ worker[w].pc = "panicking"
  /\ Overwrite(t, "failed", Workers \ {w})
  /\ worker' = [worker EXCEPT ![w] = Idle]
  /\ UNCHANGED <<queue, defers, reaper, admin, asked, pushed, faults>>

\* The process stops, or the database fails it: what the worker had in hand, a
\* message or an outcome, is gone. Its successor has another name.
Die(w) ==
  /\ worker[w].pc # "idle"
  /\ worker' = [worker EXCEPT ![w] = Idle]
  /\ UNCHANGED <<row, queue, defers, reaper, admin, asked, pushed, taken, faults>>

-------------------------------------------------------------------------------
(* Leases, reapers and retries *)

\* Renewals fail, or come late, while the worker goes on ...
LeaseLapses(t) ==
  /\ row[t].lock = "live"
  /\ faults < MaxFaults
  /\ row' = [row EXCEPT ![t].lock = "lapsed"]
  /\ faults' = faults + 1
  /\ UNCHANGED <<queue, defers, worker, reaper, admin, asked, pushed, taken>>

\* ... or have ended with it.
Abandoned(t) ==
  \A w \in Workers : ~(Executing(w) /\ worker[w].task = t /\ worker[w].version = row[t].version)

AbandonedLapses(t) ==
  /\ row[t].lock = "live"
  /\ Abandoned(t)
  /\ row' = [row EXCEPT ![t].lock = "lapsed"]
  /\ UNCHANGED <<queue, defers, worker, reaper, admin, asked, pushed, taken, faults>>

\* Mutant: a row without a lease is nobody's business.
ExpiredOnly(t) == row[t].status = "running" /\ row[t].lock = "lapsed"

\* RecoverLeaseExpired looks for the first, RecoverLegacyRunning for the second,
\* once it is thirty minutes old.
Reapable(t) ==
  /\ row[t].status = "running"
  /\ row[t].lock = "lapsed" \/ row[t].owner = "none"

Reap(r, t) ==
  /\ reaper[r] = "none"
  /\ Reapable(t)
  /\ reaper' = [reaper EXCEPT ![r] = t]
  /\ UNCHANGED <<row, queue, defers, worker, admin, asked, pushed, taken, faults>>

\* Both then fail the task, whatever has become of it.
ReapWrite(r) ==
  /\ reaper[r] # "none"
  /\ Overwrite(reaper[r], "failed", Workers)
  /\ reaper' = [reaper EXCEPT ![r] = "none"]
  /\ UNCHANGED <<queue, defers, worker, admin, asked, pushed, faults>>

\* retryInventorySyncTaskScoped: only a failed task can be retried ...
Retry(a, t) ==
  /\ admin[a].pc = "idle"
  /\ row[t].status = "failed"
  /\ admin' = [admin EXCEPT ![a] = [pc |-> "read", task |-> t]]
  /\ UNCHANGED <<row, queue, defers, worker, reaper, asked, pushed, taken, faults>>

\* ... and is reset, whatever has become of it ...
Reset(a) ==
  LET t == admin[a].task IN
  /\ admin[a].pc = "read"
  /\ asked[t] < MaxAsks
  /\ Overwrite(t, "pending", Workers)
  /\ asked' = [asked EXCEPT ![t] = @ + 1]
  /\ admin' = [admin EXCEPT ![a].pc = "reset"]
  /\ UNCHANGED <<queue, defers, worker, reaper, pushed, faults>>

\* ... and enqueued.
Enqueue(a) ==
  /\ admin[a].pc = "reset"
  /\ queue' = [queue EXCEPT ![admin[a].task] = @ + 1]
  /\ admin' = [admin EXCEPT ![a] = NoRequest]
  /\ UNCHANGED <<row, defers, worker, reaper, asked, pushed, taken, faults>>

\* LPUSH reports an error, though the list may have the message: the request
\* runs the task itself.
RunInline(a, w) ==
  LET t == admin[a].task IN
  /\ admin[a].pc = "reset"
  /\ worker[w].pc = "idle"
  /\ queue' \in {queue, [queue EXCEPT ![t] = @ + 1]}
  /\ worker' = [worker EXCEPT ![w] = [Idle EXCEPT !.pc = "inline", !.task = t]]
  /\ admin' = [admin EXCEPT ![a] = NoRequest]
  /\ UNCHANGED <<row, defers, reaper, asked, pushed, taken, faults>>

\* The request's process stops: a task that is reset has no message.
Leave(a) ==
  /\ admin[a].pc # "idle"
  /\ admin' = [admin EXCEPT ![a] = NoRequest]
  /\ UNCHANGED <<row, queue, defers, worker, reaper, asked, pushed, taken, faults>>

-------------------------------------------------------------------------------
\* Everything a worker does by itself, short of dying.
WorkerStep(w) ==
  \/ Defer(w) \/ GiveUp(w) \/ Claim(w)
  \/ Block(w) \/ FailEarly(w) \/ Push(w) \/ Validate(w) \/ Finish(w)
  \/ Panic(w) \/ PanicWrite(w)

Next ==
  \/ \E w \in Workers : WorkerStep(w) \/ Renew(w) \/ Die(w)
  \/ \E w \in Workers, t \in Tasks : Take(w, t)
  \/ \E t \in Tasks : DefersExpire(t) \/ LeaseLapses(t) \/ AbandonedLapses(t)
  \/ \E r \in Reapers : ReapWrite(r) \/ \E t \in Tasks : Reap(r, t)
  \/ \E a \in Admins : Reset(a) \/ Enqueue(a) \/ Leave(a) \/ \E t \in Tasks : Retry(a, t)
  \/ \E a \in Admins, w \in Workers : RunInline(a, w)

Spec == Init /\ [][Next]_vars

\* Workers and reapers keep running, a lease that nobody renews runs out, and
\* neither the list (first in, first out) nor the reaper's rounds (every expired
\* row in turn) pass a task over for ever. A call to the platform has a timeout.
\* Nobody has to retry, renewals need not succeed, and Redis fails a counter
\* MaxFaults times at most.
Fairness ==
  /\ \A w \in Workers : WF_vars(WorkerStep(w))
  /\ \A t \in Tasks : SF_vars(\E w \in Workers : Take(w, t))
  /\ \A t \in Tasks : WF_vars(AbandonedLapses(t))
  /\ \A r \in Reapers : WF_vars(ReapWrite(r))
  /\ \A t \in Tasks : SF_vars(\E r \in Reapers : Reap(r, t))

FairSpec == Spec /\ Fairness

-------------------------------------------------------------------------------
(* What holds *)

\* Every worker may have read a counter just below its limit, and add one.
DeferLimit == MaxDefers + (Cardinality(Workers) - 1) + MaxFaults

TypeOK ==
  /\ row \in [Tasks -> Rows]
  /\ queue \in [Tasks -> Nat]
  /\ defers \in [Tasks -> 0 .. DeferLimit]
  /\ worker \in [Workers -> WorkerStates]
  /\ reaper \in [Reapers -> Tasks \union {"none"}]
  /\ admin \in [Admins -> AdminStates]
  /\ asked \in [Tasks -> Nat]
  /\ pushed \in [Tasks -> SUBSET Nat]
  /\ taken \in [Tasks -> BOOLEAN]
  /\ faults \in 0 .. MaxFaults

\* A task is pushed to the platform at most as often as somebody asked for it: a
\* message that is delivered twice, or run inline and delivered too, a worker
\* that dies and a reaper that fails the row add no push.
PushedNoMoreThanAsked == \A t \in Tasks : Cardinality(pushed[t]) <= asked[t]

\* A task that says success was pushed by its latest execution, not by an earlier
\* one whose worker came back late.
SuccessIsPushed ==
  \A t \in Tasks : row[t].status = "success" => row[t].version \in pushed[t]

\* Two workers execute a task at once only after its row was written over, by a
\* reaper or a retry, under the first of them.
OneExecutor ==
  \A t \in Tasks : \A u, w \in Workers :
    /\ Executing(u) /\ worker[u].task = t
    /\ Executing(w) /\ worker[w].task = t
    /\ u # w
    => taken[t]

\* What a worker writes at the end lands on the execution it claimed, and only
\* while that one is running: neither the status nor the expiry is part of the
\* UPDATE, between the check and which everybody else may write.
FinishesItsOwn ==
  [][\A w \in Workers :
       LET t == worker[w].task IN
       worker[w].pc = "finishing" /\ worker'[w].pc = "idle" /\ row' # row =>
         /\ row[t].status = "running"
         /\ row[t].version = worker[w].version
         /\ worker[w].result = "success" => worker[w].version \in pushed[t]]_vars

\* However its worker ends, a running task does not stay running.
RunningEnds == \A t \in Tasks : row[t].status = "running" ~> row[t].status # "running"

Waiting(t) ==
  /\ row[t].status = "pending"
  /\ \/ queue[t] > 0
     \/ \E w \in Workers : worker[w].task = t /\ (Deferring(w) \/ worker[w].pc \in {"giving_up", "inline"})

\* A message does not go round for ever, although a worker reads its counter in one
\* call and adds to it in another: its task is claimed or given up, or the message
\* is lost, with the worker that took it or because RPUSH failed.
WaitingEnds == \A t \in Tasks : []<>~Waiting(t)

\* docs/MULTI_INSTANCE_SAFETY.md: one task is never executed by two workers at the
\* same time.
NeverTwoAtOnce ==
  \A t \in Tasks : \A u, w \in Workers :
    ~ /\ Executing(u) /\ worker[u].task = t
      /\ Executing(w) /\ worker[w].task = t
      /\ u # w

-------------------------------------------------------------------------------
(* The abstract specification *)

Leased == INSTANCE LeasedTask WITH
  Nobody   <- "none",
  Outcomes <- {"success", "failed"},
  Fates    <- {"pending", "failed", "cancelled"},
  status   <- [t \in Tasks |-> row[t].status],
  holder   <- [t \in Tasks |-> row[t].owner],
  version  <- [t \in Tasks |-> row[t].version]

\* Refinement: the statements on the row, some without a condition and many of
\* them on what was read before, keep the promise of a leased task; success is
\* written by the holder of the running version and by nobody else
\* (finishInventorySyncTask, handleInventoryPanic, the reaper, the retry).
ImplementsLeasedTask == Leased!Spec
===============================================================================
