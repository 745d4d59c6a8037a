------------------------------ MODULE Idempotency ------------------------------
(***************************************************************************)
(* The idempotency service of backend/internal/modules/idempotency: one    *)
(* record per scope and key decides who may run the operation the key      *)
(* stands for, and what everybody else is told.                            *)
(*                                                                         *)
(* A request follows the protocol of Service.Execute: Acquire, the         *)
(* operation itself (outside any transaction), then Complete or Fail.      *)
(* Each of the three is one statement or transaction that locks the        *)
(* record's row, so each is one action; only while there is no row to lock *)
(* is Acquire two, a SELECT that finds nothing and an INSERT that the      *)
(* unique index may refuse. Records share nothing, so one is modelled.     *)
(*                                                                         *)
(* Callers differ in what they make of an expired record. Execute, the     *)
(* order importer and the customer chat need the record Acquire returns,   *)
(* and give up. The webhook, order sync, inventory and AI modules take the *)
(* one Classify returns, and run: they are the Lenient ones.               *)
(*                                                                         *)
(* locked_until and expires_at are compared with the clock only: a lease   *)
(* is live until it lapses and a record fresh until its seven days are     *)
(* over, both at any moment. rec.epoch and grant count acquisitions; the   *)
(* code has no such counter, they are there to state what holds.           *)
(***************************************************************************)
EXTENDS Naturals

CONSTANTS
  Requests,     \* callers that use the key, again and again
  OwnerOf,      \* the owner name each of them passes
  HashOf,       \* the hash of the payload each of them passes
  Lenient,      \* those whose caller runs under an expired record
  MaxRuns,      \* bound: acquisitions
  MaxExcuses    \* bound: everything that excuses a second effect

ASSUME BoundsAssumption == MaxRuns \in Nat /\ MaxExcuses \in Nat

ASSUME LenientAssumption == Lenient \subseteq Requests

VARIABLES
  rec,      \* the row of idempotency_records
  pc,       \* where each request is
  grant,    \* the acquisition each request runs under
  answer,   \* the last decision each request was given, and the result
  effects,  \* external: times the operation took effect
  excuses   \* leases lapsed, requests dead, errors returned after the effect,
            \* runs under an expired record

vars == <<rec, pc, grant, answer, effects, excuses>>

Statuses == {"absent", "processing", "succeeded", "failed_retryable",
             "failed_permanent", "expired"}

Decisions == {"none", "acquired", "already_succeeded", "in_progress",
              "retry_allowed", "key_conflict", "permanent_failure", "lease_lost"}

Hashes == {HashOf[r] : r \in Requests} \union {"none"}

Owners == {OwnerOf[r] : r \in Requests} \union {"none"}

Records == [status: Statuses, hash: Hashes, owner: Owners,
            lock: {"none", "live", "lapsed"}, fresh: BOOLEAN,
            epoch: Nat, result: Nat]

NoRecord == [status |-> "absent", hash |-> "none", owner |-> "none",
             lock |-> "none", fresh |-> TRUE, epoch |-> 0, result |-> 0]

Told(decision, result) == [decision |-> decision, result |-> result]

-------------------------------------------------------------------------------
(* Acquire, and Classify of what it returns *)

\* Mutants: a live lease keeps nobody out; any lease does, lapsed or not.
NobodyHolds(r) == FALSE
SomebodyHolds(r) == rec.status = "processing"

\* Another worker is processing: its lease is live and it is not the caller's.
HeldByOther(r) ==
  /\ rec.status = "processing"
  /\ rec.lock = "live"
  /\ rec.owner # OwnerOf[r]

\* Mutant: a failure that is final may be retried.
OnlySuccessIsFinal == {"succeeded"}

\* Statuses that no acquisition leaves again
FinalStatuses == {"succeeded", "failed_permanent"}

\* Mutant: the payload hash is not compared.
AcquirableWithAnyHash(r) ==
  rec.fresh /\ rec.status \notin FinalStatuses /\ ~HeldByOther(r)

Acquirable(r) ==
  /\ rec.hash = HashOf[r]
  /\ rec.fresh
  /\ rec.status \notin FinalStatuses
  /\ ~HeldByOther(r)

\* Mutant: the expiry is passed on unclassified.
RefusalUnclassified(r) == IF rec.fresh THEN "in_progress" ELSE "record_expired"

Refusal(r) ==
  IF rec.hash # HashOf[r]
  THEN IF rec.status = "failed_permanent" THEN "permanent_failure"
                                          ELSE "key_conflict"
  ELSE IF ~rec.fresh THEN "retry_allowed"
  ELSE IF rec.status = "succeeded" THEN "already_succeeded"
  ELSE IF rec.status = "failed_permanent" THEN "permanent_failure"
  ELSE "in_progress"

-------------------------------------------------------------------------------
Init ==
  /\ rec = NoRecord
  /\ pc = [r \in Requests |-> "idle"]
  /\ grant = [r \in Requests |-> 0]
  /\ answer = [r \in Requests |-> Told("none", 0)]
  /\ effects = 0
  /\ excuses = 0

\* The SELECT FOR UPDATE finds no row, and locks none.
FindNothing(r) ==
  /\ pc[r] = "idle"
  /\ rec.status = "absent"
  /\ pc' = [pc EXCEPT ![r] = "creating"]
  /\ UNCHANGED <<rec, grant, answer, effects, excuses>>

\* The INSERT of the record, the only place that sets hash and expiry ...
Create(r) ==
  /\ pc[r] = "creating"
  /\ rec.status = "absent"
  /\ rec.epoch < MaxRuns
  /\ rec' = [rec EXCEPT !.status = "processing", !.hash = HashOf[r],
                        !.owner = OwnerOf[r], !.lock = "live", !.epoch = @ + 1]
  /\ grant' = [grant EXCEPT ![r] = rec.epoch + 1]
  /\ pc' = [pc EXCEPT ![r] = "held"]
  /\ answer' = [answer EXCEPT ![r] = Told("acquired", 0)]
  /\ UNCHANGED <<effects, excuses>>

\* ... or its refusal by the unique index, an error Classify does not know.
CreateRefused(r) ==
  /\ pc[r] = "creating"
  /\ rec.status # "absent"
  /\ pc' = [pc EXCEPT ![r] = "idle"]
  /\ answer' = [answer EXCEPT ![r] = Told("key_conflict", 0)]
  /\ UNCHANGED <<rec, grant, effects, excuses>>

\* A retry, or the takeover of a lapsed lease or of the caller's own one.
Acquire(r) ==
  /\ pc[r] = "idle"
  /\ rec.status # "absent"
  /\ rec.epoch < MaxRuns
  /\ Acquirable(r)
  /\ rec' = [rec EXCEPT !.status = "processing", !.owner = OwnerOf[r],
                        !.lock = "live", !.epoch = @ + 1]
  /\ grant' = [grant EXCEPT ![r] = rec.epoch + 1]
  /\ pc' = [pc EXCEPT ![r] = "held"]
  /\ answer' = [answer EXCEPT ![r] = Told("acquired", 0)]
  /\ UNCHANGED <<effects, excuses>>

\* An expired record is answered "retry_allowed", and Acquire returns no
\* record to run under: lenient callers run without having acquired it ...
RunExpired(r) ==
  /\ r \in Lenient
  /\ pc[r] = "idle"
  /\ rec.status # "absent"
  /\ ~Acquirable(r)
  /\ Refusal(r) = "retry_allowed"
  /\ excuses < MaxExcuses
  /\ pc' = [pc EXCEPT ![r] = "held"]
  /\ grant' = [grant EXCEPT ![r] = 0]
  /\ answer' = [answer EXCEPT ![r] = Told("retry_allowed", 0)]
  /\ excuses' = excuses + 1
  /\ UNCHANGED <<rec, effects>>

\* ... and for the others it is an answer like the rest.
Refuse(r) ==
  /\ pc[r] = "idle"
  /\ rec.status # "absent"
  /\ ~Acquirable(r)
  /\ r \in Lenient => Refusal(r) # "retry_allowed"
  /\ answer' = [answer EXCEPT ![r] = Told(Refusal(r), rec.result)]
  /\ UNCHANGED <<rec, pc, grant, effects, excuses>>

-------------------------------------------------------------------------------
(* The operation *)

RunSucceeds(r) ==
  /\ pc[r] = "held"
  /\ pc' = [pc EXCEPT ![r] = "done"]
  /\ effects' = effects + 1
  /\ UNCHANGED <<rec, grant, answer, excuses>>

RunFails(r) ==
  /\ pc[r] = "held"
  /\ pc' = [pc EXCEPT ![r] = "failed"]
  /\ UNCHANGED <<rec, grant, answer, effects, excuses>>

\* The operation took effect and still returns an error: a platform call
\* that times out, a write after it that fails.
RunFailsLate(r) ==
  /\ pc[r] = "held"
  /\ excuses < MaxExcuses
  /\ pc' = [pc EXCEPT ![r] = "failed"]
  /\ effects' = effects + 1
  /\ excuses' = excuses + 1
  /\ UNCHANGED <<rec, grant, answer>>

\* Service.Heartbeat asks for the owner, not for a lease that is still live.
Heartbeat(r) ==
  /\ pc[r] = "held"
  /\ rec.status = "processing"
  /\ rec.owner = OwnerOf[r]
  /\ rec' = [rec EXCEPT !.lock = "live"]
  /\ UNCHANGED <<pc, grant, answer, effects, excuses>>

-------------------------------------------------------------------------------
(* Complete and Fail *)

\* Mutants: the owner is not compared; nothing is.
ProcessingByAnyone(r) == rec.status = "processing"
AnyStatus(r) == TRUE

\* The WHERE clause shared by Heartbeat, Complete and Fail
ProcessingBy(r) == rec.status = "processing" /\ rec.owner = OwnerOf[r]

\* Service.Complete also asks for a lease that has not lapsed.
Complete(r) ==
  /\ pc[r] = "done"
  /\ pc' = [pc EXCEPT ![r] = "idle"]
  /\ IF ProcessingBy(r) /\ rec.lock # "lapsed"
     THEN /\ rec' = [rec EXCEPT !.status = "succeeded", !.lock = "none",
                                !.result = grant[r]]
          /\ answer' = [answer EXCEPT ![r] = Told("already_succeeded", grant[r])]
     ELSE /\ answer' = [answer EXCEPT ![r] = Told("lease_lost", 0)]
          /\ UNCHANGED rec
  /\ UNCHANGED <<grant, effects, excuses>>

\* Service.Fail does not.
Fail(r, retryable) ==
  /\ pc[r] = "failed"
  /\ pc' = [pc EXCEPT ![r] = "idle"]
  /\ IF ProcessingBy(r)
     THEN rec' = [rec EXCEPT !.status = IF retryable THEN "failed_retryable"
                                                     ELSE "failed_permanent",
                             !.lock = "none"]
     ELSE UNCHANGED rec
  /\ answer' = [answer EXCEPT ![r] = Told("none", 0)]
  /\ UNCHANGED <<grant, effects, excuses>>

-------------------------------------------------------------------------------
(* Time, death and the sweeper *)

LeaseLapses ==
  /\ rec.lock = "live"
  /\ excuses < MaxExcuses
  /\ rec' = [rec EXCEPT !.lock = "lapsed"]
  /\ excuses' = excuses + 1
  /\ UNCHANGED <<pc, grant, answer, effects>>

RecordExpires ==
  /\ rec.status # "absent"
  /\ rec.fresh
  /\ rec' = [rec EXCEPT !.fresh = FALSE]
  /\ UNCHANGED <<pc, grant, answer, effects, excuses>>

Sweepable ==
  \/ rec.status # "absent" /\ ~rec.fresh
  \/ rec.status = "processing" /\ rec.lock = "lapsed"

\* Service.ReleaseExpired
ReleaseExpired ==
  /\ Sweepable
  /\ rec.status # "expired"
  /\ rec' = [rec EXCEPT !.status = "expired", !.lock = "none"]
  /\ UNCHANGED <<pc, grant, answer, effects, excuses>>

Die(r) ==
  /\ pc[r] # "idle"
  /\ excuses < MaxExcuses
  /\ pc' = [pc EXCEPT ![r] = "idle"]
  /\ answer' = [answer EXCEPT ![r] = Told("none", 0)]
  /\ excuses' = excuses + 1
  /\ UNCHANGED <<rec, grant, effects>>

-------------------------------------------------------------------------------
Run(r) == RunSucceeds(r) \/ RunFails(r)

Report(r) == Complete(r) \/ \E retryable \in BOOLEAN : Fail(r, retryable)

Next ==
  \/ \E r \in Requests :
        \/ FindNothing(r)
        \/ Create(r)
        \/ CreateRefused(r)
        \/ Acquire(r)
        \/ RunExpired(r)
        \/ Refuse(r)
        \/ Run(r)
        \/ RunFailsLate(r)
        \/ Heartbeat(r)
        \/ Report(r)
        \/ Die(r)
  \/ LeaseLapses
  \/ RecordExpires
  \/ ReleaseExpired

Spec == Init /\ [][Next]_vars

\* Requests that run finish and report, time passes, and somebody goes on
\* asking for the key: workers poll and clients retry. Nobody promises a
\* heartbeat or a sweep.
FairSpec ==
  /\ Spec
  /\ \A r \in Requests : WF_vars(Run(r)) /\ WF_vars(Report(r))
  /\ WF_vars(LeaseLapses)
  /\ WF_vars(\E r \in Requests : Acquire(r))

-------------------------------------------------------------------------------
(* Properties *)

TypeOK ==
  /\ rec \in Records
  /\ pc \in [Requests -> {"idle", "creating", "held", "done", "failed"}]
  /\ grant \in [Requests -> Nat]
  /\ answer \in [Requests -> [decision: Decisions, result: Nat]]
  /\ effects \in Nat
  /\ excuses \in Nat

\* Nothing runs twice without a reason: every effect after the first was
\* paid for by a lease that lapsed, a request that died, an error returned
\* after the effect or a run under an expired record. Concurrent requests,
\* retries, takeovers and the sweeper add none of their own.
EffectsAreExcused == effects <= excuses + 1

\* Concurrent requests for a key are served one after the other: as long as
\* no lease lapsed, nobody died and nobody ran under an expired record, no
\* two of them run the operation at once.
HeldByOne ==
  excuses = 0 =>
    \A q, r \in Requests : pc[q] = "held" /\ pc[r] = "held" => q = r

\* Everybody who is told that the operation succeeded is told of the same run.
OneResult ==
  \A q, r \in Requests :
    answer[q].decision = "already_succeeded" /\ answer[r].decision = "already_succeeded"
      => answer[q].result = answer[r].result

\* A key stands for one payload: whoever may run under it carries the hash
\* the record was created with, takeovers and retries included.
OnePayload ==
  \A r \in Requests : pc[r] \in {"held", "done", "failed"} => HashOf[r] = rec.hash

\* Only the last one to acquire the record can complete it: a request whose
\* lease was taken over never reports its own result as the operation's.
\* The exception is a lenient caller, and only once the record has expired.
CompletedByHolder ==
  [][rec'.status = "succeeded" /\ rec.status # "succeeded" =>
       \E r \in Requests :
         /\ pc[r] = "done"
         /\ rec'.result = grant[r]
         /\ grant[r] = rec.epoch \/ (r \in Lenient /\ ~rec.fresh)]_vars

\* A failure reported as final and a success are never run again.
FinalIsFinal ==
  [][rec.status \in {"succeeded", "failed_permanent"} => rec'.epoch = rec.epoch]_vars

\* A key is never stuck in processing: if its holder dies, its lease lapses
\* and the next caller takes over, until the bounds of the model are reached.
KeyIsSettled ==
  (rec.status = "processing" /\ rec.fresh)
    ~> \/ rec.status # "processing"
       \/ ~rec.fresh
       \/ rec.epoch = MaxRuns
       \/ excuses = MaxExcuses

\* A conflict is reported to those who carry another payload and to nobody
\* else, in particular not to one of two who come first at the same time.
ConflictIsAnotherPayload ==
  \A r \in Requests :
    answer[r].decision = "key_conflict" => HashOf[r] # rec.hash

-------------------------------------------------------------------------------
(* The record as callers see it who all pass one owner name *)

OneOwner == \A q, r \in Requests : OwnerOf[q] = OwnerOf[r]

KeyStatus ==
  CASE rec.status = "processing" /\ rec.lock = "live" -> "held"
    [] rec.status = "processing" /\ rec.lock = "lapsed" -> "lapsed"
    [] OTHER -> rec.status

RecordKey == [status |-> KeyStatus, hash |-> rec.hash]

\* In the first seven days of a record, with failures that may be retried.
\* Nothing calls the sweeper.
Young == rec'.fresh /\ rec'.status \notin {"failed_permanent", "expired"}

YoungSpec == Init /\ [][Next /\ Young]_vars

Shared == INSTANCE KeyProtocol WITH
  Hashes <- {HashOf[r] : r \in Requests},
  key    <- RecordKey

\* Refinement: to callers who share an owner the record of Acquire, Complete
\* and Fail does what the key of IdempotencyKey does, and nothing else. (The
\* webhook, the order import and the inventory push pass one owner each.)
ImplementsKeyProtocol == Shared!Spec

\* Such a caller is told what Answer says: all that may go on with a record may
\* go on with the key, and the others get the same decision.
AnswersAsKey ==
  OneOwner /\ rec.fresh /\ rec.status \notin {"absent", "failed_permanent", "expired"} =>
    \A r \in Requests :
      LET told == Shared!Answer(RecordKey, HashOf[r]) IN
      IF Acquirable(r) THEN told = "acquired" ELSE told = Refusal(r)
===============================================================================
