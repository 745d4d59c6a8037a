-------------------------- MODULE IdempotencyProofs --------------------------
(***************************************************************************)
(* Theorems about Idempotency for every finite set of requests with owner  *)
(* names of their own, every assignment of payloads and every bound; and,  *)
(* in the last part, about requests that share an owner's name.            *)
(*                                                                         *)
(* EffectsAreExcused is not inductive: an effect yet to come must be       *)
(* counted when the lease is granted. Budget does, as in a ledger: the     *)
(* effects there are and the ones being worked on never exceed the excuses *)
(* by more than one, and by one only while something keeps the next        *)
(* request out: a success, an expired record, or a live lease whose holder *)
(* is still on its way.                                                    *)
(***************************************************************************)
EXTENDS Idempotency, FiniteSetTheorems, TLAPS

\* Every caller passes an owner name of its own, and there are finitely many.
CallersAreDistinct ==
  /\ IsFiniteSet(Requests)
  /\ \A q, r \in Requests : OwnerOf[q] = OwnerOf[r] => q = r

-------------------------------------------------------------------------------
(* The inductive invariant *)

Running == {r \in Requests : pc[r] = "held"}

\* r acquired last, may still complete and has not failed.
Holder(r) ==
  /\ pc[r] \in {"held", "done"}
  /\ rec.owner = OwnerOf[r]

\* Nobody can acquire the record: it is over, or its holder is on its way.
Secured ==
  \/ ~rec.fresh
  \/ rec.status = "succeeded"
  \/ /\ rec.status = "processing"
     /\ rec.lock = "live"
     /\ \E r \in Requests : Holder(r)

Credit == IF Secured THEN 1 ELSE 0

Budget == effects + Cardinality(Running) <= excuses + Credit

\* A lease is held exactly while the record is in processing, and nobody has
\* got past the INSERT before there is a record.
RecordShape ==
  /\ rec.status = "processing" <=> rec.lock # "none"
  /\ rec.status = "absent" => /\ rec.fresh
                              /\ \A r \in Requests : pc[r] \in {"idle", "creating"}

\* The owner on the record names the request that acquired it last.
OwnerHoldsLast ==
  \A r \in Requests :
    /\ grant[r] <= rec.epoch
    /\ /\ pc[r] \in {"held", "done", "failed"}
       /\ rec.status = "processing"
       /\ rec.owner = OwnerOf[r]
       => grant[r] = rec.epoch \/ (r \in Lenient /\ ~rec.fresh)

\* What is told of a success is what the record still holds.
ToldIsRecorded ==
  \A r \in Requests : answer[r].decision = "already_succeeded" =>
    /\ answer[r].result = rec.result
    /\ rec.status = "succeeded" \/ (rec.status = "expired" /\ ~rec.fresh)

IInv ==
  /\ TypeOK
  /\ RecordShape
  /\ OwnerHoldsLast
  /\ ToldIsRecorded
  /\ OnePayload
  /\ Budget

-------------------------------------------------------------------------------
(* Counting who is running *)

LEMMA RunningIsFinite ==
  ASSUME CallersAreDistinct
  PROVE  IsFiniteSet(Running) /\ Cardinality(Running) \in Nat
  <1>1. Running \in SUBSET Requests
    BY DEF Running
  <1> QED
    BY <1>1, FS_Subset, FS_CardinalityType DEF CallersAreDistinct

LEMMA CreditIsABit == Credit \in {0, 1}
  BY DEF Credit

LEMMA Enters ==
  ASSUME CallersAreDistinct, TypeOK, NEW r \in Requests, pc[r] # "held",
         pc' = [pc EXCEPT ![r] = "held"]
  PROVE  Cardinality(Running)' = Cardinality(Running) + 1
  <1>1. Running' = Running \union {r} /\ r \notin Running
    BY DEF Running, TypeOK
  <1> QED
    BY <1>1, RunningIsFinite, FS_AddElement

LEMMA Leaves ==
  ASSUME CallersAreDistinct, TypeOK, NEW r \in Requests, pc[r] = "held",
         NEW where, where # "held", pc' = [pc EXCEPT ![r] = where]
  PROVE  Cardinality(Running)' = Cardinality(Running) - 1
  <1>1. Running' = Running \ {r} /\ r \in Running
    BY DEF Running, TypeOK
  <1> QED
    BY <1>1, RunningIsFinite, FS_RemoveElement

LEMMA StaysOut ==
  ASSUME TypeOK, NEW r \in Requests, pc[r] # "held",
         NEW where, where # "held", pc' = [pc EXCEPT ![r] = where]
  PROVE  Running' = Running
  BY DEF Running, TypeOK

-------------------------------------------------------------------------------
(* The ledger *)

\* A granted lease: nobody else is on the way, so there was no credit.
LEMMA GrantBudget ==
  ASSUME CallersAreDistinct, IInv, NEW r \in Requests, Create(r) \/ Acquire(r)
  PROVE  Budget'
  <1>1. Cardinality(Running)' = Cardinality(Running) + 1
    BY Enters DEF Create, Acquire, IInv
  <1>2. ~Secured
    <2>1. CASE Create(r)
      BY <2>1 DEF Create, Secured, IInv, RecordShape
    <2>2. CASE Acquire(r)
      BY <2>2 DEF Acquire, Acquirable, HeldByOther, FinalStatuses, Secured, Holder,
                  CallersAreDistinct
    <2> QED
      BY <2>1, <2>2
  <1>3. Secured'
    <2>1. /\ rec'.status = "processing" /\ rec'.lock = "live"
          /\ rec'.owner = OwnerOf[r] /\ pc'[r] = "held"
      BY DEF Create, Acquire, IInv, TypeOK, Records
    <2> QED
      BY <2>1 DEF Secured, Holder
  <1>4. effects' = effects /\ excuses' = excuses
    BY DEF Create, Acquire
  <1> QED
    BY <1>1, <1>2, <1>3, <1>4, RunningIsFinite DEF Budget, Credit, IInv, TypeOK, Records

\* A run under an expired record is an excuse of its own.
LEMMA ExpiredBudget ==
  ASSUME CallersAreDistinct, IInv, NEW r \in Requests, RunExpired(r)
  PROVE  Budget'
  <1>1. Cardinality(Running)' = Cardinality(Running) + 1
    BY Enters DEF RunExpired, IInv
  <1>2. Secured /\ Secured'
    BY DEF RunExpired, Refusal, Secured, IInv, TypeOK, Records
  <1>3. effects' = effects /\ excuses' = excuses + 1
    BY DEF RunExpired
  <1> QED
    BY <1>1, <1>2, <1>3, RunningIsFinite DEF Budget, Credit, IInv, TypeOK

\* The operation moves an account from running to effect, or closes it.
LEMMA RunBudget ==
  ASSUME CallersAreDistinct, IInv, NEW r \in Requests,
         RunSucceeds(r) \/ RunFails(r) \/ RunFailsLate(r)
  PROVE  Budget'
  <1>1. Cardinality(Running)' = Cardinality(Running) - 1
    BY Leaves DEF RunSucceeds, RunFails, RunFailsLate, IInv
  <1>2. CASE RunSucceeds(r)
    <2>1. Secured => Secured'
      <3>1. \A q \in Requests : Holder(q) => Holder(q)'
        BY <1>2 DEF RunSucceeds, Holder, IInv, TypeOK, Records
      <3> QED
        BY <1>2, <3>1 DEF RunSucceeds, Secured
    <2> QED
      BY <1>1, <1>2, <2>1, RunningIsFinite
         DEF RunSucceeds, Budget, Credit, IInv, TypeOK, Records
  <1>3. CASE RunFails(r)
    BY <1>1, <1>3, RunningIsFinite, CreditIsABit
       DEF RunFails, Budget, Credit, IInv, TypeOK, Records
  <1>4. CASE RunFailsLate(r)
    BY <1>1, <1>4, RunningIsFinite, CreditIsABit
       DEF RunFailsLate, Budget, Credit, IInv, TypeOK, Records
  <1> QED
    BY <1>2, <1>3, <1>4

\* A report closes the account of its own lease only.
LEMMA ReportBudget ==
  ASSUME CallersAreDistinct, IInv, NEW r \in Requests, Report(r)
  PROVE  Budget'
  <1>1. Running' = Running
    BY StaysOut DEF Report, Complete, Fail, IInv
  <1>2. Secured => Secured'
    <2>1. CASE Complete(r)
      <3>1. CASE ProcessingBy(r) /\ rec.lock # "lapsed"
        BY <2>1, <3>1 DEF Complete, Secured, IInv, TypeOK, Records
      <3>2. CASE ~(ProcessingBy(r) /\ rec.lock # "lapsed")
        <4>1. rec' = rec /\ pc' = [pc EXCEPT ![r] = "idle"]
          BY <2>1, <3>2 DEF Complete
        <4>2. \A q \in Requests : q # r /\ Holder(q) => Holder(q)'
          BY <4>1 DEF Holder, IInv, TypeOK, Records
        <4>3. rec.status = "processing" /\ rec.lock = "live" => ~Holder(r)
          BY <3>2 DEF ProcessingBy, Holder
        <4> QED
          BY <4>1, <4>2, <4>3 DEF Secured
      <3> QED
        BY <3>1, <3>2
    <2>2. CASE \E retryable \in BOOLEAN : Fail(r, retryable)
      <3>1. pc[r] = "failed" /\ pc' = [pc EXCEPT ![r] = "idle"]
        BY <2>2 DEF Fail
      <3>2. CASE ProcessingBy(r)
        <4>1. rec'.fresh = rec.fresh /\ rec.status = "processing"
          BY <2>2, <3>2 DEF Fail, ProcessingBy, IInv, TypeOK, Records
        <4>2. \A q \in Requests : ~Holder(q)
          BY <3>1, <3>2 DEF ProcessingBy, Holder, CallersAreDistinct
        <4> QED
          BY <4>1, <4>2 DEF Secured
      <3>3. CASE ~ProcessingBy(r)
        <4>1. rec' = rec
          BY <2>2, <3>3 DEF Fail
        <4>2. \A q \in Requests : Holder(q) => Holder(q)'
          BY <3>1, <4>1 DEF Holder, IInv, TypeOK, Records
        <4> QED
          BY <4>1, <4>2 DEF Secured
      <3> QED
        BY <3>2, <3>3
    <2> QED
      BY <2>1, <2>2 DEF Report
  <1>3. effects' = effects /\ excuses' = excuses
    BY DEF Report, Complete, Fail
  <1> QED
    BY <1>1, <1>2, <1>3, RunningIsFinite DEF Budget, Credit, IInv, TypeOK, Records

\* A heartbeat takes no security away; a death is an excuse.
LEMMA HeartbeatBudget ==
  ASSUME CallersAreDistinct, IInv, NEW r \in Requests, Heartbeat(r)
  PROVE  Budget'
  <1>1. /\ UNCHANGED <<pc, effects, excuses>>
        /\ rec'.fresh = rec.fresh /\ rec'.status = rec.status
        /\ rec'.owner = rec.owner /\ rec'.lock = "live"
    BY DEF Heartbeat, IInv, TypeOK, Records
  <1>2. Secured => Secured'
    BY <1>1 DEF Secured, Holder
  <1>3. Running' = Running
    BY <1>1 DEF Running
  <1> QED
    BY <1>1, <1>2, <1>3, RunningIsFinite DEF Budget, Credit, IInv, TypeOK, Records

LEMMA DieBudget ==
  ASSUME CallersAreDistinct, IInv, NEW r \in Requests, Die(r)
  PROVE  Budget'
  <1>1. Cardinality(Running)' \in {Cardinality(Running), Cardinality(Running) - 1}
    BY Leaves, StaysOut DEF Die, IInv
  <1>2. effects' = effects /\ excuses' = excuses + 1
    BY DEF Die
  <1> QED
    BY <1>1, <1>2, RunningIsFinite, CreditIsABit DEF Budget, Credit, IInv, TypeOK, Records

LEMMA TimeBudget ==
  ASSUME CallersAreDistinct, IInv, LeaseLapses \/ RecordExpires \/ ReleaseExpired
  PROVE  Budget'
  <1>1. Running' = Running
    BY DEF LeaseLapses, RecordExpires, ReleaseExpired, Running
  <1>2. CASE LeaseLapses
    BY <1>1, <1>2, RunningIsFinite, CreditIsABit
       DEF LeaseLapses, Budget, Credit, IInv, TypeOK, Records
  <1>3. CASE RecordExpires \/ ReleaseExpired
    <2>1. Secured => Secured'
      <3>1. CASE RecordExpires
        BY <3>1 DEF RecordExpires, Secured, IInv, TypeOK, Records
      <3>2. CASE ReleaseExpired
        BY <3>2 DEF ReleaseExpired, Sweepable, Secured, IInv, TypeOK, Records
      <3> QED
        BY <1>3, <3>1, <3>2
    <2> QED
      BY <1>1, <1>3, <2>1, RunningIsFinite
         DEF RecordExpires, ReleaseExpired, Budget, Credit, IInv, TypeOK, Records
  <1> QED
    BY <1>2, <1>3

-------------------------------------------------------------------------------
(* The invariant is inductive *)

LEMMA InitIInv == CallersAreDistinct /\ Init => IInv
  <1> SUFFICES ASSUME CallersAreDistinct, Init PROVE IInv
    OBVIOUS
  <1>1. TypeOK
    BY DEF Init, TypeOK, NoRecord, Records, Hashes, Owners, Told, Statuses, Decisions
  <1>2. RecordShape /\ OwnerHoldsLast /\ ToldIsRecorded /\ OnePayload
    BY DEF Init, NoRecord, Told, RecordShape, OwnerHoldsLast, ToldIsRecorded, OnePayload
  <1>3. Running = {}
    BY DEF Init, Running
  <1>4. Budget
    BY <1>3, FS_EmptySet, CreditIsABit DEF Init, Budget
  <1> QED
    BY <1>1, <1>2, <1>4 DEF IInv

LEMMA RefusalIsDecision ==
  ASSUME NEW r \in Requests
  PROVE  /\ Refusal(r) \in Decisions
         /\ Refusal(r) = "already_succeeded" => rec.status = "succeeded"
         /\ Refusal(r) = "retry_allowed" => rec.hash = HashOf[r] /\ ~rec.fresh
  BY DEF Refusal, Decisions

LEMMA NamesAreKnown ==
  /\ {"processing", "succeeded", "failed_retryable", "failed_permanent", "expired"}
       \subseteq Statuses
  /\ {"none", "acquired", "already_succeeded", "key_conflict", "retry_allowed",
      "lease_lost"}
       \subseteq Decisions
  /\ \A r \in Requests : HashOf[r] \in Hashes /\ OwnerOf[r] \in Owners
  BY DEF Hashes, Owners, Statuses, Decisions

LEMMA TypePreserved ==
  ASSUME TypeOK, [Next]_vars
  PROVE  TypeOK'
  <1>1. ASSUME NEW r \in Requests, FindNothing(r) \/ CreateRefused(r)
        PROVE  TypeOK'
    BY <1>1, NamesAreKnown DEF FindNothing, CreateRefused, TypeOK, Told
  <1>2. ASSUME NEW r \in Requests, Create(r) \/ Acquire(r) PROVE TypeOK'
    <2>1. rec.epoch + 1 \in Nat
      BY DEF TypeOK, Records
    <2>2. ASSUME Create(r) PROVE rec' \in Records
      <3>1. rec' = [rec EXCEPT !.status = "processing", !.hash = HashOf[r],
                               !.owner = OwnerOf[r], !.lock = "live",
                               !.epoch = rec.epoch + 1]
        BY <2>2 DEF Create
      <3> QED
        BY <2>1, <3>1, NamesAreKnown DEF TypeOK, Records
    <2>3. ASSUME Acquire(r) PROVE rec' \in Records
      <3>1. rec' = [rec EXCEPT !.status = "processing", !.owner = OwnerOf[r],
                               !.lock = "live", !.epoch = rec.epoch + 1]
        BY <2>3 DEF Acquire
      <3> QED
        BY <2>1, <3>1, NamesAreKnown DEF TypeOK, Records
    <2>4. rec' \in Records
      BY <1>2, <2>2, <2>3
    <2> QED
      BY <1>2, <2>1, <2>4, NamesAreKnown DEF Create, Acquire, TypeOK, Told
  <1>10. ASSUME NEW r \in Requests, RunExpired(r) PROVE TypeOK'
    BY <1>10, NamesAreKnown DEF RunExpired, TypeOK, Told
  <1>3. ASSUME NEW r \in Requests, Refuse(r) PROVE TypeOK'
    <2>1. rec.result \in Nat
      BY DEF TypeOK, Records
    <2> QED
      BY <1>3, <2>1, RefusalIsDecision DEF Refuse, TypeOK, Told
  <1>4. ASSUME NEW r \in Requests, Run(r) \/ RunFailsLate(r) \/ Die(r)
        PROVE  TypeOK'
    BY <1>4, NamesAreKnown DEF Run, RunSucceeds, RunFails, RunFailsLate, Die, TypeOK, Told
  <1>5. ASSUME NEW r \in Requests, Complete(r) PROVE TypeOK'
    <2>1. rec' \in Records
      BY <1>5, NamesAreKnown DEF Complete, TypeOK, Records
    <2> QED
      BY <1>5, <2>1, NamesAreKnown DEF Complete, TypeOK, Told
  <1>6. ASSUME NEW r \in Requests, NEW retryable \in BOOLEAN, Fail(r, retryable)
        PROVE  TypeOK'
    <2>1. rec' \in Records
      BY <1>6, NamesAreKnown DEF Fail, TypeOK, Records
    <2> QED
      BY <1>6, <2>1, NamesAreKnown DEF Fail, TypeOK, Told
  <1>7. CASE LeaseLapses \/ RecordExpires \/ ReleaseExpired
    <2>1. rec' \in Records
      BY <1>7, NamesAreKnown DEF LeaseLapses, RecordExpires, ReleaseExpired, TypeOK, Records
    <2> QED
      BY <1>7, <2>1 DEF LeaseLapses, RecordExpires, ReleaseExpired, TypeOK
  <1>8. ASSUME NEW r \in Requests, Heartbeat(r) PROVE TypeOK'
    <2>1. rec' \in Records
      BY <1>8 DEF Heartbeat, TypeOK, Records
    <2> QED
      BY <1>8, <2>1 DEF Heartbeat, TypeOK
  <1>9. CASE UNCHANGED vars
    BY <1>9 DEF vars, TypeOK
  <1> QED
    BY <1>1, <1>2, <1>3, <1>4, <1>5, <1>6, <1>7, <1>8, <1>9, <1>10 DEF Next, Report

\* The parts of the invariant that say who may do what with the record
Roles == RecordShape /\ OwnerHoldsLast /\ ToldIsRecorded /\ OnePayload

LEMMA RolesPreserved ==
  ASSUME CallersAreDistinct, IInv, [Next]_vars
  PROVE  Roles'
  <1> USE DEF IInv, TypeOK, Records, RecordShape, OwnerHoldsLast, ToldIsRecorded, OnePayload, Told
  <1>1. ASSUME NEW r \in Requests, FindNothing(r) \/ CreateRefused(r) PROVE Roles'
    BY <1>1 DEF FindNothing, CreateRefused, Roles
  <1>2. ASSUME NEW r \in Requests, Create(r) PROVE Roles'
    BY <1>2 DEF Create, Roles
  <1>3. ASSUME NEW r \in Requests, Acquire(r) PROVE Roles'
    BY <1>3 DEF Acquire, Acquirable, FinalStatuses, CallersAreDistinct, Roles
  <1>4. ASSUME NEW r \in Requests, Refuse(r) PROVE Roles'
    BY <1>4, RefusalIsDecision DEF Refuse, Roles
  <1>10. ASSUME NEW r \in Requests, RunExpired(r) PROVE Roles'
    BY <1>10, RefusalIsDecision DEF RunExpired, Roles
  <1>5. ASSUME NEW r \in Requests, Run(r) \/ RunFailsLate(r) \/ Heartbeat(r) \/ Die(r)
        PROVE  Roles'
    BY <1>5 DEF Run, RunSucceeds, RunFails, RunFailsLate, Heartbeat, Die, Roles
  <1>6. ASSUME NEW r \in Requests, Complete(r) PROVE Roles'
    <2>1. CASE ProcessingBy(r) /\ rec.lock # "lapsed"
      <3>1. \A q \in Requests : answer[q].decision # "already_succeeded"
        BY <2>1 DEF ProcessingBy
      <3>2. /\ rec'.status = "succeeded" /\ rec'.lock = "none" /\ rec'.hash = rec.hash
            /\ rec'.epoch = rec.epoch /\ rec'.result = grant[r] /\ grant' = grant
            /\ pc' = [pc EXCEPT ![r] = "idle"]
            /\ answer' = [answer EXCEPT ![r] = Told("already_succeeded", grant[r])]
        BY <1>6, <2>1 DEF Complete
      <3>3. ToldIsRecorded'
        BY <3>1, <3>2
      <3> QED
        BY <2>1, <3>2, <3>3 DEF Roles
    <2>2. CASE ~(ProcessingBy(r) /\ rec.lock # "lapsed")
      <3>1. rec' = rec /\ grant' = grant /\ pc' = [pc EXCEPT ![r] = "idle"]
            /\ answer' = [answer EXCEPT ![r] = Told("lease_lost", 0)]
        BY <1>6, <2>2 DEF Complete
      <3> QED
        BY <3>1 DEF Roles
    <2> QED
      BY <2>1, <2>2
  <1>7. ASSUME NEW r \in Requests, NEW retryable \in BOOLEAN, Fail(r, retryable)
        PROVE  Roles'
    BY <1>7 DEF Fail, ProcessingBy, Roles
  <1>8. CASE LeaseLapses \/ RecordExpires \/ ReleaseExpired
    BY <1>8 DEF LeaseLapses, RecordExpires, ReleaseExpired, Sweepable, Roles
  <1>9. CASE UNCHANGED vars
    BY <1>9 DEF vars, Roles
  <1> QED
    BY <1>1, <1>2, <1>3, <1>4, <1>5, <1>6, <1>7, <1>8, <1>9, <1>10 DEF Next, Report

LEMMA BudgetPreserved ==
  ASSUME CallersAreDistinct, IInv, [Next]_vars
  PROVE  Budget'
  <1>1. ASSUME NEW r \in Requests,
               FindNothing(r) \/ CreateRefused(r) \/ Refuse(r) PROVE Budget'
    <2>1. UNCHANGED <<rec, effects, excuses>>
      BY <1>1 DEF FindNothing, CreateRefused, Refuse
    <2>2. Running' = Running
      <3>1. CASE Refuse(r)
        BY <3>1 DEF Refuse, Running
      <3> QED
        BY <1>1, <3>1, StaysOut DEF FindNothing, CreateRefused, IInv
    <2>3. \A q \in Requests : Holder(q) => Holder(q)'
      BY <1>1 DEF FindNothing, CreateRefused, Refuse, Holder, IInv, TypeOK, Records
    <2>4. Secured => Secured'
      BY <2>1, <2>3 DEF Secured
    <2> QED
      BY <2>1, <2>2, <2>4, RunningIsFinite DEF Budget, Credit, IInv, TypeOK, Records
  <1>2. CASE UNCHANGED vars
    BY <1>2 DEF vars, IInv, Budget, Credit, Secured, Holder, Running
  <1> QED
    BY <1>1, <1>2, GrantBudget, ExpiredBudget, RunBudget, ReportBudget, HeartbeatBudget, DieBudget,
       TimeBudget DEF Next, Run

\* The invariant holds whatever the callers, payloads and bounds.
THEOREM Inductive == CallersAreDistinct /\ Spec => []IInv
  <1>1. CallersAreDistinct /\ IInv /\ [Next]_vars => IInv'
    BY TypePreserved, RolesPreserved, BudgetPreserved DEF IInv, Roles
  <1>2. CASE CallersAreDistinct
    BY <1>1, <1>2, InitIInv, PTL DEF Spec
  <1>3. CASE ~CallersAreDistinct
    BY <1>3
  <1> QED
    BY <1>2, <1>3

-------------------------------------------------------------------------------
(* The theorems *)

\* Type correctness: every decision told is one the code knows.
THEOREM TypeCorrect == CallersAreDistinct /\ Spec => []TypeOK
  <1>1. IInv => TypeOK
    BY DEF IInv
  <1> QED
    BY <1>1, Inductive, PTL

\* Every effect after the first was paid for by a lapsed lease, a death, an
\* error after the effect or a run under an expired record: Acquire, Complete, Fail and the sweeper add none.
THEOREM NothingRunsTwice == CallersAreDistinct /\ Spec => []EffectsAreExcused
  <1>1. CallersAreDistinct /\ IInv => EffectsAreExcused
    BY RunningIsFinite, CreditIsABit DEF IInv, TypeOK, Records, Budget, EffectsAreExcused
  <1>2. CASE CallersAreDistinct
    BY <1>1, <1>2, Inductive, PTL
  <1>3. CASE ~CallersAreDistinct
    BY <1>3
  <1> QED
    BY <1>2, <1>3

\* Requests for one key are served one after the other.
THEOREM Serial == CallersAreDistinct /\ Spec => []HeldByOne
  <1>1. CallersAreDistinct /\ IInv => HeldByOne
    <2> SUFFICES ASSUME CallersAreDistinct, IInv, excuses = 0,
                        NEW q \in Requests, NEW r \in Requests,
                        pc[q] = "held", pc[r] = "held", q # r
                 PROVE  FALSE
      BY DEF HeldByOne
    <2>1. Cardinality(Running) <= 1
      BY RunningIsFinite, CreditIsABit DEF IInv, TypeOK, Records, Budget
    <2>2. q \in Running /\ r \in Running \ {q}
      BY DEF Running
    <2>3. IsFiniteSet(Running \ {q}) /\ Cardinality(Running \ {q}) = Cardinality(Running) - 1
      BY <2>2, RunningIsFinite, FS_RemoveElement
    <2>4. Cardinality(Running \ {q}) = 0
      BY <2>1, <2>3, RunningIsFinite, FS_CardinalityType
    <2> QED
      BY <2>2, <2>3, <2>4, FS_EmptySet
  <1>2. CASE CallersAreDistinct
    BY <1>1, <1>2, Inductive, PTL
  <1>3. CASE ~CallersAreDistinct
    BY <1>3
  <1> QED
    BY <1>2, <1>3

\* Everybody who is told of a success is told of the same run.
THEOREM SameResult == CallersAreDistinct /\ Spec => []OneResult
  <1>1. IInv => OneResult
    BY DEF IInv, ToldIsRecorded, OneResult
  <1> QED
    BY <1>1, Inductive, PTL

\* Whoever runs under a key carries the payload the key stands for.
THEOREM SamePayloadUnderAKey == CallersAreDistinct /\ Spec => []OnePayload
  <1>1. IInv => OnePayload
    BY DEF IInv
  <1> QED
    BY <1>1, Inductive, PTL

\* Only the last to acquire completes, with the result of its own run.
THEOREM OnlyHolderCompletes == CallersAreDistinct /\ Spec => CompletedByHolder
  <1> DEFINE Holds(r) == /\ pc[r] = "done"
                         /\ rec'.result = grant[r]
                         /\ grant[r] = rec.epoch \/ (r \in Lenient /\ ~rec.fresh)
             Step == rec'.status = "succeeded" /\ rec.status # "succeeded" =>
                       \E r \in Requests : Holds(r)
  <1>1. IInv /\ [Next]_vars => [Step]_vars
    <2> SUFFICES ASSUME IInv, Next, rec'.status = "succeeded", rec.status # "succeeded"
                 PROVE  \E r \in Requests : Holds(r)
      BY DEF vars
    <2>1. PICK r \in Requests : Complete(r)
      <3>1. ASSUME NEW r \in Requests,
                   \/ FindNothing(r) \/ Create(r) \/ CreateRefused(r) \/ Acquire(r)
                   \/ RunExpired(r) \/ Refuse(r) \/ Run(r) \/ RunFailsLate(r) \/ Heartbeat(r) \/ Die(r)
            PROVE  FALSE
        BY <3>1 DEF FindNothing, Create, CreateRefused, Acquire, RunExpired, Refuse, Run,
                    RunSucceeds, RunFails, RunFailsLate, Heartbeat, Die, IInv, TypeOK, Records
      <3>2. ASSUME NEW r \in Requests, NEW retryable \in BOOLEAN, Fail(r, retryable)
            PROVE  FALSE
        BY <3>2 DEF Fail, IInv, TypeOK, Records
      <3>3. ~(LeaseLapses \/ RecordExpires \/ ReleaseExpired)
        BY DEF LeaseLapses, RecordExpires, ReleaseExpired, IInv, TypeOK, Records
      <3> QED
        BY <3>1, <3>2, <3>3 DEF Next, Report
    <2>2. ProcessingBy(r) /\ pc[r] = "done" /\ rec'.result = grant[r]
      BY <2>1 DEF Complete, IInv, TypeOK, Records
    <2>3. grant[r] = rec.epoch \/ (r \in Lenient /\ ~rec.fresh)
      BY <2>2 DEF ProcessingBy, IInv, OwnerHoldsLast
    <2> QED
      BY <2>2, <2>3
  <1> QED
    BY <1>1, Inductive, PTL DEF Spec, CompletedByHolder

\* A success and a final failure are never run again.
THEOREM FinalStays == CallersAreDistinct /\ Spec => FinalIsFinal
  <1>1. IInv /\ [Next]_vars =>
          [rec.status \in {"succeeded", "failed_permanent"} => rec'.epoch = rec.epoch]_vars
    <2> SUFFICES ASSUME IInv, Next, rec.status \in {"succeeded", "failed_permanent"}
                 PROVE  rec'.epoch = rec.epoch
      BY DEF vars
    <2>1. ASSUME NEW r \in Requests, Create(r) \/ Acquire(r) PROVE FALSE
      BY <2>1 DEF Create, Acquire, Acquirable, FinalStatuses
    <2>2. ASSUME NEW r \in Requests,
                 \/ FindNothing(r) \/ CreateRefused(r) \/ RunExpired(r) \/ Refuse(r) \/ Run(r)
                 \/ RunFailsLate(r) \/ Heartbeat(r) \/ Die(r) \/ Complete(r)
          PROVE  rec'.epoch = rec.epoch
      BY <2>2 DEF FindNothing, CreateRefused, RunExpired, Refuse, Run, RunSucceeds, RunFails,
                  RunFailsLate, Heartbeat, Die, Complete, IInv, TypeOK, Records
    <2>3. ASSUME NEW r \in Requests, NEW retryable \in BOOLEAN, Fail(r, retryable)
          PROVE  rec'.epoch = rec.epoch
      BY <2>3 DEF Fail, IInv, TypeOK, Records
    <2>4. CASE LeaseLapses \/ RecordExpires \/ ReleaseExpired
      BY <2>4 DEF LeaseLapses, RecordExpires, ReleaseExpired, IInv, TypeOK, Records
    <2> QED
      BY <2>1, <2>2, <2>3, <2>4 DEF Next, Report
  <1> QED
    BY <1>1, Inductive, PTL DEF Spec, FinalIsFinal

-------------------------------------------------------------------------------
(* Callers who share an owner: the key of IdempotencyKey *)

\* A record that is young: its lease and its owner are there while it is
\* processed, its hash from its creation on.
YoungInv ==
  /\ TypeOK
  /\ rec.fresh
  /\ rec.status \in {"absent", "processing", "succeeded", "failed_retryable"}
  /\ rec.status = "processing" =>
       rec.lock \in {"live", "lapsed"} /\ \E q \in Requests : rec.owner = OwnerOf[q]
  /\ rec.status # "processing" => rec.lock = "none"
  /\ IF rec.status = "absent" THEN rec.hash = "none" ELSE \E q \in Requests : rec.hash = HashOf[q]

LEMMA InitYoung == Init => YoungInv
  <1> SUFFICES ASSUME Init PROVE YoungInv
    OBVIOUS
  <1>1. TypeOK
    BY DEF Init, TypeOK, NoRecord, Records, Hashes, Owners, Told, Statuses, Decisions
  <1> QED
    BY <1>1 DEF Init, YoungInv, NoRecord

\* The parts of the record each statement writes
LEMMA CreateWrites ==
  ASSUME YoungInv, NEW r \in Requests, Create(r)
  PROVE  /\ rec.status = "absent"
         /\ rec'.status = "processing" /\ rec'.lock = "live" /\ rec'.hash = HashOf[r]
         /\ rec'.owner = OwnerOf[r] /\ rec'.fresh
  BY DEF Create, YoungInv, TypeOK, Records

LEMMA AcquireWrites ==
  ASSUME YoungInv, NEW r \in Requests, Acquire(r)
  PROVE  /\ rec.status \in {"processing", "failed_retryable"} /\ rec.hash = HashOf[r]
         /\ rec'.status = "processing" /\ rec'.lock = "live" /\ rec'.hash = rec.hash
         /\ rec'.owner = OwnerOf[r] /\ rec'.fresh
  BY DEF Acquire, Acquirable, FinalStatuses, YoungInv, TypeOK, Records

LEMMA HeartbeatWrites ==
  ASSUME YoungInv, NEW r \in Requests, Heartbeat(r)
  PROVE  /\ rec.status = "processing"
         /\ rec'.status = "processing" /\ rec'.lock = "live" /\ rec'.hash = rec.hash
         /\ rec'.owner = rec.owner /\ rec'.fresh
  BY DEF Heartbeat, YoungInv, TypeOK, Records

LEMMA CompleteWrites ==
  ASSUME YoungInv, NEW r \in Requests, Complete(r)
  PROVE  \/ rec' = rec
         \/ /\ rec.status = "processing" /\ rec.lock = "live"
            /\ rec'.status = "succeeded" /\ rec'.lock = "none" /\ rec'.hash = rec.hash
            /\ rec'.fresh
  BY DEF Complete, ProcessingBy, YoungInv, TypeOK, Records

LEMMA FailWrites ==
  ASSUME YoungInv, Young, NEW r \in Requests, NEW retryable \in BOOLEAN, Fail(r, retryable)
  PROVE  \/ rec' = rec
         \/ /\ rec.status = "processing"
            /\ rec'.status = "failed_retryable" /\ rec'.lock = "none" /\ rec'.hash = rec.hash
            /\ rec'.fresh
  BY DEF Fail, ProcessingBy, Young, YoungInv, TypeOK, Records

LEMMA LapseWrites ==
  ASSUME YoungInv, LeaseLapses
  PROVE  /\ rec.status = "processing" /\ rec.lock = "live"
         /\ rec'.status = "processing" /\ rec'.lock = "lapsed" /\ rec'.hash = rec.hash
         /\ rec'.owner = rec.owner /\ rec'.fresh
  BY DEF LeaseLapses, YoungInv, TypeOK, Records

\* The requests' own steps leave the record alone, and a young record is not
\* swept.
LEMMA OthersWriteNothing ==
  ASSUME YoungInv, Young,
         \/ \E r \in Requests : \/ FindNothing(r) \/ CreateRefused(r) \/ RunExpired(r)
                                \/ Refuse(r) \/ Run(r) \/ RunFailsLate(r) \/ Die(r)
         \/ RecordExpires \/ ReleaseExpired \/ UNCHANGED vars
  PROVE  rec' = rec
  <1>1. CASE RecordExpires
    BY <1>1 DEF RecordExpires, Young, YoungInv, TypeOK, Records
  <1>2. CASE ReleaseExpired
    BY <1>2 DEF ReleaseExpired, Young, YoungInv, TypeOK, Records
  <1>3. CASE UNCHANGED vars
    BY <1>3 DEF vars
  <1>4. ASSUME NEW r \in Requests,
               \/ FindNothing(r) \/ CreateRefused(r) \/ RunExpired(r)
               \/ Refuse(r) \/ Run(r) \/ RunFailsLate(r) \/ Die(r)
        PROVE  rec' = rec
    BY <1>4 DEF FindNothing, CreateRefused, RunExpired, Refuse, Run, RunSucceeds, RunFails,
       RunFailsLate, Die
  <1> QED
    BY <1>1, <1>2, <1>3, <1>4

\* Every step is one of the key's, or writes nothing.
LEMMA YoungStep ==
  ASSUME YoungInv, [Next /\ Young]_vars
  PROVE  YoungInv' /\ [Shared!Next]_RecordKey
  <1>t. TypeOK'
    BY TypePreserved DEF YoungInv
  <1>k. ASSUME NEW k, k = RecordKey
        PROVE  k.status = KeyStatus /\ k.hash = rec.hash
    BY <1>k DEF RecordKey
  <1>1. ASSUME rec' = rec
        PROVE  YoungInv' /\ [Shared!Next]_RecordKey
    BY <1>1, <1>t DEF YoungInv, RecordKey, KeyStatus
  <1>2. ASSUME NEW r \in Requests, Create(r)
        PROVE  YoungInv' /\ [Shared!Next]_RecordKey
    <2>1. YoungInv'
      BY <1>2, <1>t, CreateWrites DEF YoungInv
    <2>2. RecordKey.status = "absent" /\ RecordKey' = [status |-> "held", hash |-> HashOf[r]]
      BY <1>2, CreateWrites DEF RecordKey, KeyStatus
    <2> QED
      BY <2>1, <2>2 DEF Shared!Next, Shared!KeyMoves, Shared!Key
  <1>3. ASSUME NEW r \in Requests, Acquire(r) \/ Heartbeat(r)
        PROVE  YoungInv' /\ [Shared!Next]_RecordKey
    <2>1. /\ rec.status \in {"processing", "failed_retryable"}
          /\ rec'.status = "processing" /\ rec'.lock = "live" /\ rec'.hash = rec.hash
          /\ rec'.owner \in {OwnerOf[r], rec.owner} /\ rec'.fresh
      BY <1>3, AcquireWrites, HeartbeatWrites
    <2>2. YoungInv'
      BY <1>3, <2>1, <1>t, AcquireWrites, HeartbeatWrites DEF YoungInv
    <2>3. /\ RecordKey.status \in {"held", "lapsed", "failed_retryable"}
          /\ RecordKey.hash = rec.hash
          /\ RecordKey' = [status |-> "held", hash |-> rec.hash]
      BY <2>1 DEF RecordKey, KeyStatus, YoungInv
    <2>4. RecordKey' = [RecordKey EXCEPT !.status = "held"]
      BY <2>3 DEF RecordKey
    <2>5. PICK q \in Requests : rec.hash = HashOf[q]
      BY <2>1 DEF YoungInv
    <2>6. Shared!Answer(RecordKey, HashOf[q]) = "acquired" /\ RecordKey' = Shared!Taken(RecordKey)
      BY <2>3, <2>4, <2>5 DEF Shared!Answer, Shared!Taken
    <2> QED
      BY <2>2, <2>6 DEF Shared!Next, Shared!KeyMoves
  <1>4. ASSUME NEW r \in Requests, Complete(r), rec' # rec
        PROVE  YoungInv' /\ [Shared!Next]_RecordKey
    <2>1. YoungInv'
      BY <1>4, <1>t, CompleteWrites DEF YoungInv
    <2>2. /\ RecordKey.status = "held" /\ RecordKey.hash = rec.hash
          /\ RecordKey' = [status |-> "succeeded", hash |-> rec.hash]
      BY <1>4, CompleteWrites DEF RecordKey, KeyStatus
    <2>3. RecordKey' = [RecordKey EXCEPT !.status = "succeeded"]
      BY <2>2 DEF RecordKey
    <2> QED
      BY <2>1, <2>2, <2>3 DEF Shared!Next, Shared!KeyMoves, Shared!Completes, Shared!Completed
  <1>5. ASSUME NEW r \in Requests, NEW retryable \in BOOLEAN, Fail(r, retryable), Young, rec' # rec
        PROVE  YoungInv' /\ [Shared!Next]_RecordKey
    <2>1. YoungInv'
      BY <1>5, <1>t, FailWrites DEF YoungInv
    <2>2. /\ RecordKey.status \in {"held", "lapsed"} /\ RecordKey.hash = rec.hash
          /\ RecordKey' = [status |-> "failed_retryable", hash |-> rec.hash]
      BY <1>5, FailWrites DEF RecordKey, KeyStatus, YoungInv
    <2>3. RecordKey' = [RecordKey EXCEPT !.status = "failed_retryable"]
      BY <2>2 DEF RecordKey
    <2> QED
      BY <2>1, <2>2, <2>3 DEF Shared!Next, Shared!KeyMoves, Shared!FailedKey
  <1>6. ASSUME LeaseLapses
        PROVE  YoungInv' /\ [Shared!Next]_RecordKey
    <2>1. YoungInv'
      BY <1>6, <1>t, LapseWrites DEF YoungInv
    <2>2. /\ RecordKey.status = "held" /\ RecordKey.hash = rec.hash
          /\ RecordKey' = [status |-> "lapsed", hash |-> rec.hash]
      BY <1>6, LapseWrites DEF RecordKey, KeyStatus
    <2>3. RecordKey' = [RecordKey EXCEPT !.status = "lapsed"]
      BY <2>2 DEF RecordKey
    <2> QED
      BY <2>1, <2>2, <2>3 DEF Shared!Next, Shared!KeyMoves
  <1>7. CASE UNCHANGED vars
    BY <1>1, <1>7 DEF vars
  <1>8. CASE Next /\ Young
    BY <1>1, <1>2, <1>3, <1>4, <1>5, <1>6, <1>8, OthersWriteNothing DEF Next, Report
  <1> QED
    BY <1>7, <1>8

\* In its first seven days, and as long as failures are retryable and nothing
\* sweeps it, the record does what the key of IdempotencyKey does, whoever asks
\* for it: so modules that use the key use the service.
THEOREM ServesTheKey == YoungSpec => ImplementsKeyProtocol
  <1>1. Init => Shared!Init
    BY DEF Init, NoRecord, Shared!Init, Shared!NoKey, Shared!Key, RecordKey, KeyStatus
  <1>2. YoungInv /\ [Next /\ Young]_vars => YoungInv' /\ [Shared!Next]_RecordKey
    BY YoungStep
  <1> QED
    BY <1>1, <1>2, InitYoung, PTL DEF YoungSpec, ImplementsKeyProtocol, Shared!Spec

\* Callers who share an owner are told what the operators of IdempotencyKey
\* say (Acquire, Classify): a live lease is their own and keeps none of them out.
THEOREM SharedAnswers == OneOwner /\ YoungSpec => []AnswersAsKey
  <1>1. OneOwner /\ YoungInv => AnswersAsKey
    <2> SUFFICES ASSUME OneOwner, YoungInv, rec.status # "absent", NEW r \in Requests
                 PROVE  LET told == Shared!Answer(RecordKey, HashOf[r]) IN
                        IF Acquirable(r) THEN told = "acquired" ELSE told = Refusal(r)
      BY DEF AnswersAsKey
    <2>1. /\ RecordKey.hash = rec.hash
          /\ RecordKey.status = "succeeded" <=> rec.status = "succeeded"
          /\ RecordKey.status # "absent"
      BY DEF RecordKey, KeyStatus, YoungInv
    <2>2. ~HeldByOther(r)
      BY DEF OneOwner, YoungInv, HeldByOther
    <2>3. Acquirable(r) <=> rec.hash = HashOf[r] /\ rec.status # "succeeded"
      BY <2>2 DEF Acquirable, FinalStatuses, YoungInv
    <2>4. Refusal(r) = IF rec.hash # HashOf[r] THEN "key_conflict"
                       ELSE IF rec.status = "succeeded" THEN "already_succeeded"
                       ELSE "in_progress"
      BY DEF Refusal, YoungInv
    <2> QED
      BY <2>1, <2>3, <2>4 DEF Shared!Answer
  <1>2. YoungInv /\ [Next /\ Young]_vars => YoungInv'
    BY YoungStep
  <1>3. CASE OneOwner
    BY <1>1, <1>2, <1>3, InitYoung, PTL DEF YoungSpec
  <1>4. CASE ~OneOwner
    BY <1>4
  <1> QED
    BY <1>3, <1>4
===============================================================================
