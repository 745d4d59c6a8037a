----------------------------- MODULE OperationTask -----------------------------
(***************************************************************************)
(* The operation task of backend/internal/modules/operationtask: a task's  *)
(* draft versions, their human review, and the execution of the approved   *)
(* draft through DraftExecutionPort.                                       *)
(*                                                                         *)
(* Every database transaction of the services locks the task row first     *)
(* (lockTask, SELECT ... FOR UPDATE), so a transaction is one action.      *)
(* What is NOT one transaction is several actions: a page that shows the   *)
(* task and its latest draft (two reads), an execution (prepare, port      *)
(* call, finalize) and a manual retry (validate, then prepare).            *)
(*                                                                         *)
(* Tasks share no rows, so one task is modelled. Every write carries an    *)
(* Idempotency-Key; the key sets are finite and bound the number of drafts,*)
(* decisions and attempts. A replay of a used key writes nothing and is a  *)
(* stuttering step.                                                        *)
(***************************************************************************)
EXTENDS Naturals, Sequences

CONSTANTS
  Users,                   \* admins with a task page open
  Sessions,                \* execute/retry requests being served concurrently
  Payloads,                \* draft payloads, told apart by their SHA-256
  DraftKeys, ReviewKeys, ExecKeys,   \* idempotency keys of each kind of write
  NoKey,
  MaxManualRetryAttempts,  \* ManualRetryService.MaxManualRetryAttempts
  MaxAbandons              \* bound: requests that die between transactions

ASSUME NoKeyAssumption == NoKey \notin ExecKeys
ASSUME RetryAssumption == MaxManualRetryAttempts \in Nat \ {0}
ASSUME AbandonAssumption == MaxAbandons \in Nat

VARIABLES
  status,     \* operation_tasks.status ("absent" before the row exists)
  revision,   \* operation_tasks.revision
  drafts,     \* platform_drafts by draft_version
  approvals,  \* approval_records in order of created_at
  attempts,   \* execution_attempts by attempt_number, with their error row
  trail,      \* operation_task_events by sequence: before and after state
  view,       \* what each user's page shows: the revision, then the version
  session,    \* where each execute/retry request is
  calls,      \* external: the calls DraftExecutionPort received
  abandons    \* requests that died so far

vars == <<status, revision, drafts, approvals, attempts, trail,
          view, session, calls, abandons>>

taskVars == <<status, revision, trail>>

-------------------------------------------------------------------------------
(* State machine *)

Statuses == {"absent", "suggested", "draft_preparing", "pending_review",
             "approved", "rejected", "execution_queued", "executing",
             "draft_written", "execution_failed", "cancelled"}

Transitions ==
  [suggested        |-> {"draft_preparing", "cancelled"},
   draft_preparing  |-> {"pending_review", "cancelled"},
   pending_review   |-> {"approved", "rejected", "cancelled"},
   approved         |-> {"pending_review", "execution_queued", "cancelled"},
   execution_queued |-> {"executing", "cancelled"},
   executing        |-> {"draft_written", "execution_failed"},
   execution_failed |-> {"execution_queued", "cancelled"}]

\* Mutant: an executing task may be cancelled.
CanTransitionOrStop(from, to) ==
  \/ from \in DOMAIN Transitions /\ to \in Transitions[from]
  \/ from = "executing" /\ to = "cancelled"

CanTransition(from, to) ==
  from \in DOMAIN Transitions /\ to \in Transitions[from]

IsTerminal(s) == s \in {"rejected", "draft_written", "cancelled"}

CanExecute(s) == s = "approved"

\* suggested -> draft_preparing -> pending_review counts as one step
CanStartReview(s) ==
  \/ CanTransition(s, "pending_review")
  \/ /\ CanTransition(s, "draft_preparing")
     /\ CanTransition("draft_preparing", "pending_review")

-------------------------------------------------------------------------------
(* Records *)

Draft    == [payload: Payloads, key: DraftKeys, base: Nat,
             status: {"pending_review", "written"}]
Approval == [decision: {"approved", "rejected"}, version: Nat,
             payload: Payloads, key: ReviewKeys, seen: Nat]
Attempt  == [key: ExecKeys, version: Nat, payload: Payloads, approval: Nat,
             status: {"running", "succeeded", "failed"},
             error: {"none", "retryable", "final"}]
Call     == [attempt: Nat, version: Nat, payload: Payloads]
Event    == [before: Statuses, after: Statuses]
View     == [revision: Nat, version: Nat]
Outcomes == {"ok", "retryable", "final"}
Session  == [pc: {"idle", "validated", "prepared", "responded"},
             key: ExecKeys \union {NoKey}, attempt: Nat,
             outcome: Outcomes \union {"none"}]

Idle == [pc |-> "idle", key |-> NoKey, attempt |-> 0, outcome |-> "none"]

Latest == Len(drafts)       \* version of the latest draft, 0 when there is none

Used(key, rows) == \E i \in DOMAIN rows : rows[i].key = key

\* findLatestApprovedApprovalTx: 0 when nothing was approved
ApprovedRows == {i \in DOMAIN approvals : approvals[i].decision = "approved"}
LatestApproval ==
  IF ApprovedRows = {} THEN 0
  ELSE CHOOSE i \in ApprovedRows : \A j \in ApprovedRows : j <= i

\* Mutants: any approval will do; the hash alone is compared.
AnyApproval == LatestApproval \in ApprovedRows /\ Latest # 0
SameHashApproved ==
  /\ LatestApproval \in ApprovedRows
  /\ Latest # 0
  /\ approvals[LatestApproval].payload = drafts[Latest].payload

\* The approval the execution would rest on binds the latest draft, its
\* version and its hash.
ApprovalBindsLatest ==
  /\ LatestApproval \in ApprovedRows
  /\ Latest # 0
  /\ approvals[LatestApproval].version = Latest
  /\ approvals[LatestApproval].payload = drafts[Latest].payload

HasActiveAttempt == \E i \in DOMAIN attempts : attempts[i].status = "running"

\* updateTaskStatusRevisionTx and appendAuditEventTx, always together
MoveTo(new) ==
  /\ status' = new
  /\ revision' = revision + 1
  /\ trail' = Append(trail, [before |-> status, after |-> new])

-------------------------------------------------------------------------------
Init ==
  /\ status = "absent"
  /\ revision = 0
  /\ drafts = <<>>
  /\ approvals = <<>>
  /\ attempts = <<>>
  /\ trail = <<>>
  /\ view = [u \in Users |-> [revision |-> 0, version |-> 0]]
  /\ session = [s \in Sessions |-> Idle]
  /\ calls = <<>>
  /\ abandons = 0

\* APIService.CreateTask
CreateTask ==
  /\ status = "absent"
  /\ MoveTo("suggested")
  /\ UNCHANGED <<drafts, approvals, attempts, view, session, calls, abandons>>

\* APIService.detail: the task row is read first ...
ReadTask(u) ==
  /\ status # "absent"
  /\ view' = [view EXCEPT ![u] = [revision |-> revision, version |-> 0]]
  /\ UNCHANGED <<taskVars, drafts, approvals, attempts, session, calls, abandons>>

\* ... and its latest draft by a query of its own
ReadLatestDraft(u) ==
  /\ view[u].revision # 0
  /\ view[u].version = 0
  /\ Latest # 0
  /\ view' = [view EXCEPT ![u].version = Latest]
  /\ UNCHANGED <<taskVars, drafts, approvals, attempts, session, calls, abandons>>

\* Mutant: the expected revision is not compared.
AnyRevision(u) == view[u].revision # 0

\* The optimistic lock: the revision the request carries is the row's.
RevisionMatches(u) ==
  /\ view[u].revision # 0
  /\ view[u].revision = revision

\* DraftVersionService.CreateInitialDraft
CreateInitialDraft(u, key, payload) ==
  /\ status # "absent"
  /\ ~IsTerminal(status)
  /\ ~Used(key, drafts)
  /\ RevisionMatches(u)
  /\ drafts = <<>>
  /\ CanStartReview(status)
  /\ drafts' = <<[payload |-> payload, key |-> key, base |-> 0,
                  status |-> "pending_review"]>>
  /\ status' = "pending_review"
  /\ revision' = revision + 1
  /\ trail' = trail \o <<[before |-> status, after |-> "pending_review"],
                         [before |-> "pending_review", after |-> "pending_review"]>>
  /\ UNCHANGED <<approvals, attempts, view, session, calls, abandons>>

\* DraftVersionService.EditDraft: allowed in every state that is not
\* terminal; only an approved task goes back to review.
EditDraft(u, key, payload) ==
  LET next == IF status = "approved" THEN "pending_review" ELSE status
      edited == [before |-> status, after |-> next]
      review == [before |-> next, after |-> next]
  IN /\ status # "absent"
     /\ ~IsTerminal(status)
     /\ ~Used(key, drafts)
     /\ RevisionMatches(u)
     /\ drafts # <<>>
     /\ view[u].version # 0
     /\ drafts' = Append(drafts, [payload |-> payload, key |-> key,
                                  base |-> view[u].version,
                                  status |-> "pending_review"])
     /\ status' = next
     /\ revision' = revision + 1
     /\ trail' = IF status = "approved" THEN trail \o <<edited, review>>
                                        ELSE Append(trail, edited)
     /\ UNCHANGED <<approvals, attempts, view, session, calls, abandons>>

\* Mutant: neither the revision nor the draft version is compared.
PageShowsADraft(u) == view[u].version # 0

\* The revision, the version and the hash in the request are the latest ones.
PageIsCurrent(u) ==
  /\ RevisionMatches(u)
  /\ view[u].version # 0
  /\ view[u].version = Latest
  /\ drafts[view[u].version].payload = drafts[Latest].payload

\* ApprovalService.decide: the reviewer names the version and the hash shown
Decide(u, key, decision) ==
  /\ ~Used(key, approvals)
  /\ PageIsCurrent(u)
  /\ status = "pending_review"
  /\ approvals' = Append(approvals, [decision |-> decision, version |-> Latest,
                                     payload |-> drafts[Latest].payload,
                                     key |-> key, seen |-> view[u].version])
  /\ MoveTo(decision)
  /\ UNCHANGED <<drafts, attempts, view, session, calls, abandons>>

\* APIService.Cancel
Cancel(u) ==
  /\ RevisionMatches(u)
  /\ CanTransition(status, "cancelled")
  /\ MoveTo("cancelled")
  /\ UNCHANGED <<drafts, approvals, attempts, view, session, calls, abandons>>

-------------------------------------------------------------------------------
(* Execution: prepare, port call, finalize *)

\* Mutants: the idempotency key is not looked up; a request executes over an
\* attempt that is still running.
PrepareIgnoringKey(key, retry) ==
  /\ IF retry THEN status = "execution_failed" ELSE CanExecute(status)
  /\ ApprovalBindsLatest
  /\ ~HasActiveAttempt
PrepareOverRunning(key, retry) ==
  /\ ~Used(key, attempts)
  /\ IF retry THEN status = "execution_failed"
              ELSE CanExecute(status) \/ status = "executing"
  /\ ApprovalBindsLatest

\* The checks of ExecutionOrchestrator.prepare, in one transaction
CanPrepare(key, retry) ==
  /\ ~Used(key, attempts)
  /\ IF retry THEN status = "execution_failed" ELSE CanExecute(status)
  /\ ApprovalBindsLatest
  /\ ~HasActiveAttempt

\* Mutant: the step through execution_queued leaves no event.
StartEventsUnqueued(retry) == <<[before |-> status, after |-> "executing"]>>

\* One more event records the request for a retry.
StartEvents(retry) ==
  (IF retry THEN <<[before |-> status, after |-> status]>> ELSE <<>>)
    \o <<[before |-> status, after |-> "execution_queued"],
         [before |-> "execution_queued", after |-> "executing"]>>

\* The writes of prepare: a running attempt, and the task through
\* execution_queued to executing (two updates).
Prepare(s, key, retry) ==
  /\ CanPrepare(key, retry)
  /\ attempts' = Append(attempts, [key |-> key, version |-> Latest,
                                   payload |-> drafts[Latest].payload,
                                   approval |-> LatestApproval,
                                   status |-> "running", error |-> "none"])
  /\ status' = "executing"
  /\ revision' = revision + 2
  /\ trail' = trail \o StartEvents(retry)
  /\ session' = [session EXCEPT ![s] = [Idle EXCEPT !.pc = "prepared",
                                                    !.attempt = Len(attempts) + 1]]
  /\ UNCHANGED <<drafts, approvals, view, calls, abandons>>

\* ExecutionOrchestrator.Execute
Execute(s, key) ==
  /\ session[s].pc = "idle"
  /\ Prepare(s, key, FALSE)

\* Mutants: a final failure may be retried; one retry too many.
LastAttemptFailed == attempts[Len(attempts)].status = "failed"
RetriesLeftOffByOne == Len(attempts) <= MaxManualRetryAttempts + 1

LastFailureRetryable ==
  LET last == attempts[Len(attempts)]
  IN last.status = "failed" /\ last.error = "retryable"

RetriesLeft == Len(attempts) < MaxManualRetryAttempts + 1

\* ManualRetryService.validateRetry, a transaction of its own
ValidateRetry(s, key) ==
  /\ session[s].pc = "idle"
  /\ status = "execution_failed"
  /\ attempts # <<>>
  /\ LastFailureRetryable
  /\ RetriesLeft
  /\ ApprovalBindsLatest
  /\ session' = [session EXCEPT ![s] = [Idle EXCEPT !.pc = "validated", !.key = key]]
  /\ UNCHANGED <<taskVars, drafts, approvals, attempts, view, calls, abandons>>

\* ... followed by prepare(retry = true), which checks neither the limit nor
\* the retryability again
PrepareRetry(s) ==
  /\ session[s].pc = "validated"
  /\ Prepare(s, session[s].key, TRUE)

\* prepare refuses the retry, or replays the attempt that has the key
RefuseRetry(s) ==
  /\ session[s].pc = "validated"
  /\ ~CanPrepare(session[s].key, TRUE)
  /\ session' = [session EXCEPT ![s] = Idle]
  /\ UNCHANGED <<taskVars, drafts, approvals, attempts, view, calls, abandons>>

\* Port.ExecuteDraft, outside any transaction
CallPort(s, outcome) ==
  LET a == session[s].attempt
  IN /\ session[s].pc = "prepared"
     /\ calls' = Append(calls, [attempt |-> a, version |-> attempts[a].version,
                                payload |-> attempts[a].payload])
     /\ session' = [session EXCEPT ![s].pc = "responded", ![s].outcome = outcome]
     /\ UNCHANGED <<taskVars, drafts, approvals, attempts, view, abandons>>

\* The guard of both finalize transactions
OwnsRunningAttempt(s) ==
  /\ session[s].pc = "responded"
  /\ status = "executing"
  /\ attempts[session[s].attempt].status = "running"

\* Mutants: the latest draft is marked written, not the executed one; the
\* attempt stays running; the error's category is stored for its
\* retryability; a final failure is not finalized.
WrittenLatest(a) == [drafts EXCEPT ![Latest].status = "written"]
StillRunning(a, error) == attempts
FailedWithCategory(a, error) ==
  [attempts EXCEPT ![a].status = "failed", ![a].error = "provider_timeout"]
IsRetryable(outcome) == outcome = "retryable"

Written(a) == [drafts EXCEPT ![attempts[a].version].status = "written"]
Failed(a, error) ==
  [attempts EXCEPT ![a].status = "failed", ![a].error = error]
IsFailure(outcome) == outcome \in {"retryable", "final"}

\* ExecutionOrchestrator.finalizeSuccess
FinalizeSuccess(s) ==
  LET a == session[s].attempt
  IN /\ OwnsRunningAttempt(s)
     /\ session[s].outcome = "ok"
     /\ attempts' = [attempts EXCEPT ![a].status = "succeeded"]
     /\ drafts' = Written(a)
     /\ MoveTo("draft_written")
     /\ session' = [session EXCEPT ![s] = Idle]
     /\ UNCHANGED <<approvals, view, calls, abandons>>

\* ExecutionOrchestrator.finalizeFailure
FinalizeFailure(s) ==
  LET a == session[s].attempt
  IN /\ OwnsRunningAttempt(s)
     /\ IsFailure(session[s].outcome)
     /\ attempts' = Failed(a, session[s].outcome)
     /\ MoveTo("execution_failed")
     /\ session' = [session EXCEPT ![s] = Idle]
     /\ UNCHANGED <<drafts, approvals, view, calls, abandons>>

\* The process dies, or the request's context is cancelled, between two
\* transactions: nothing is rolled back and nothing resumes the request.
Abandon(s) ==
  /\ session[s].pc # "idle"
  /\ abandons < MaxAbandons
  /\ abandons' = abandons + 1
  /\ session' = [session EXCEPT ![s] = Idle]
  /\ UNCHANGED <<taskVars, drafts, approvals, attempts, view, calls>>

-------------------------------------------------------------------------------
UserStep(u) ==
  \/ ReadTask(u)
  \/ ReadLatestDraft(u)
  \/ \E key \in DraftKeys, payload \in Payloads :
        CreateInitialDraft(u, key, payload) \/ EditDraft(u, key, payload)
  \/ \E key \in ReviewKeys, decision \in {"approved", "rejected"} :
        Decide(u, key, decision)
  \/ Cancel(u)

Respond(s) ==
  \/ \E outcome \in Outcomes : CallPort(s, outcome)
  \/ FinalizeSuccess(s)
  \/ FinalizeFailure(s)

SessionStep(s) ==
  \/ \E key \in ExecKeys : Execute(s, key) \/ ValidateRetry(s, key)
  \/ PrepareRetry(s)
  \/ RefuseRetry(s)
  \/ Respond(s)
  \/ Abandon(s)

Next ==
  \/ CreateTask
  \/ \E u \in Users : UserStep(u)
  \/ \E s \in Sessions : SessionStep(s)

Spec == Init /\ [][Next]_vars

\* A request that runs goes on running: its goroutine calls the port and
\* finalizes without waiting for anybody. Users promise nothing.
FairSpec == Spec /\ \A s \in Sessions : WF_vars(Respond(s))

-------------------------------------------------------------------------------
(* Properties *)

\* Every variable stays in its type.
TypeOK ==
  /\ status \in Statuses
  /\ revision \in Nat
  /\ drafts \in Seq(Draft)
  /\ approvals \in Seq(Approval)
  /\ attempts \in Seq(Attempt)
  /\ trail \in Seq(Event)
  /\ view \in [Users -> View]
  /\ session \in [Sessions -> Session]
  /\ calls \in Seq(Call)
  /\ abandons \in Nat

\* Human confirmation: whatever the port received is the very version and
\* payload of an approval, and the reviewer who gave it had that version on
\* screen. Versions, decisions and executions interleave freely; the chain
\* call -> attempt -> approval -> draft -> page must never break.
OnlyReviewedContentIsExecuted ==
  \A c \in DOMAIN calls :
    LET call == calls[c]
        grant == approvals[attempts[call.attempt].approval]
    IN /\ grant.decision = "approved"
       /\ grant.version = call.version
       /\ grant.payload = call.payload
       /\ grant.seen = call.version
       /\ drafts[call.version].payload = call.payload

\* At most one execution is in flight, a task is executing exactly while one
\* is, and it is the newest attempt: no interleaving of executes, retries,
\* edits, cancels and dead requests leaves an attempt running behind a task
\* that moved on, or an executing task without an attempt.
ExecutingIffOneRunning ==
  /\ (status = "executing") <=> HasActiveAttempt
  /\ \A i \in DOMAIN attempts : attempts[i].status = "running" => i = Len(attempts)

\* A live request between prepare and finalize owns the running attempt
\* alone, so finalize is never refused with ErrFinalizeConflict or
\* ErrResultUnknown and its outcome is never lost to another request.
RequestOwnsItsAttempt ==
  \A s \in Sessions : session[s].pc \in {"prepared", "responded"} =>
    /\ status = "executing"
    /\ session[s].attempt \in DOMAIN attempts
    /\ attempts[session[s].attempt].status = "running"
    /\ \A r \in Sessions \ {s} : session[r].pc \notin {"prepared", "responded"}

\* Idempotency: one key makes at most one attempt, and one attempt reaches
\* the port at most once, however often the client repeats the request and
\* whatever dies in between.
NoDoubleCall ==
  /\ \A i, j \in DOMAIN attempts : attempts[i].key = attempts[j].key => i = j
  /\ \A c, d \in DOMAIN calls : calls[c].attempt = calls[d].attempt => c = d

\* The task is draft_written exactly when an attempt succeeded, at most one
\* attempt ever succeeds, it is the last one, and the version it executed is
\* the one draft marked written: a success is never followed by another
\* execution.
WrittenOnce ==
  /\ (status = "draft_written") <=>
       \E i \in DOMAIN attempts : attempts[i].status = "succeeded"
  /\ \A i \in DOMAIN attempts : attempts[i].status = "succeeded" =>
       /\ i = Len(attempts)
       /\ drafts[attempts[i].version].status = "written"
  /\ \A v \in DOMAIN drafts : drafts[v].status = "written" =>
       \E i \in DOMAIN attempts :
          attempts[i].status = "succeeded" /\ attempts[i].version = v

\* Optimistic locking: a draft version is always an edit of the version
\* before it, never of an older one the author still had on screen.
NoLostEdit == \A v \in DOMAIN drafts : drafts[v].base = v - 1

\* The audit trail is a history of the task: each event starts where the one
\* before it ended, every change of state is one of the state machine (or the
\* first draft's shortcut through draft_preparing), and the last event ends in
\* the task's status. Handlers write the event and the row separately.
AuditTrailReplays ==
  /\ status # "absent" => trail # <<>> /\ trail[1].before = "absent"
                          /\ trail[Len(trail)].after = status
  /\ \A i \in 1..Len(trail) - 1 : trail[i].after = trail[i + 1].before
  /\ \A i \in DOMAIN trail :
       \/ trail[i].before = trail[i].after
       \/ trail[i].before = "absent" /\ trail[i].after = "suggested"
       \/ CanTransition(trail[i].before, trail[i].after)
       \/ trail[i].after = "pending_review" /\ CanStartReview(trail[i].before)

\* A request that dies after prepare may or may not have reached the
\* platform. Its unknown outcome is never repeated: from then on the port
\* receives nothing more for the task and the task stays executing.
Orphaned ==
  /\ HasActiveAttempt
  /\ \A s \in Sessions : session[s].pc \notin {"prepared", "responded"}
UnknownOutcomeIsNotRepeated ==
  [][Orphaned => calls' = calls /\ attempts' = attempts /\ Orphaned']_vars

\* Approval is given to the newest version only and an edit withdraws it: an
\* execution never starts from a state in which a newer, unreviewed version
\* of the draft exists.
NoExecutionOverUnreviewedEdit ==
  [][Len(attempts') > Len(attempts) =>
       /\ attempts'[Len(attempts')].version = Len(drafts)
       /\ \E i \in DOMAIN approvals : /\ approvals[i].decision = "approved"
                                      /\ approvals[i].version = Len(drafts)]_vars

\* Manual retries are limited: no more than MaxManualRetryAttempts attempts
\* follow the first.
RetryLimit == Len(attempts) <= MaxManualRetryAttempts + 1

\* A failure recorded as not retryable is final: nothing is executed after it.
FinalFailureIsFinal ==
  \A i \in DOMAIN attempts : attempts[i].error = "final" => i = Len(attempts)

\* If no request dies, an execution that began ends: the task does not stay
\* executing. (One that dies leaves it there for good: nothing reaps it.)
ExecutionEnds == (status = "executing") ~> (status # "executing")

-------------------------------------------------------------------------------
(* The subsystem implements ReviewGate *)

RunningVersion ==
  IF HasActiveAttempt THEN attempts[Len(attempts)].version ELSE 0

Gate == INSTANCE ReviewGate WITH
  proposed  <- Len(drafts),
  cleared   <- {approvals[i].version : i \in ApprovedRows},
  inflight  <- RunningVersion,
  delivered <- {calls[c].version : c \in DOMAIN calls}

\* Refinement: seen through the mapping, every step of the services is a step
\* of the review gate.
ImplementsReviewGate == Gate!Spec
===============================================================================
