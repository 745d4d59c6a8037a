-------------------------- MODULE OperationTaskProofs --------------------------
(***************************************************************************)
(* Theorems about OperationTask for every set of users, sessions, keys and *)
(* payloads.                                                               *)
(*                                                                         *)
(* The safety properties are not inductive by themselves: that the content *)
(* of a call was reviewed follows along the chain call -> attempt ->       *)
(* approval -> draft, and that an attempt is called once follows from a    *)
(* request owning the newest attempt from prepare to finalize. IInv states *)
(* the links of that chain.                                                *)
(***************************************************************************)
EXTENDS OperationTask, TLAPS

-------------------------------------------------------------------------------
(* The inductive invariant *)

InFlight(s) == session[s].pc \in {"prepared", "responded"}

\* What a reviewer decided on is a draft that exists and that was on screen.
ApprovalsBind ==
  \A i \in DOMAIN approvals :
    /\ approvals[i].version \in DOMAIN drafts
    /\ approvals[i].payload = drafts[approvals[i].version].payload
    /\ approvals[i].seen = approvals[i].version

\* What an attempt executes is what its approval approved.
AttemptsBind ==
  \A i \in DOMAIN attempts :
    /\ attempts[i].approval \in DOMAIN approvals
    /\ approvals[attempts[i].approval].decision = "approved"
    /\ approvals[attempts[i].approval].version = attempts[i].version
    /\ approvals[attempts[i].approval].payload = attempts[i].payload

\* What the port received is what its attempt executes.
CallsBind ==
  \A c \in DOMAIN calls :
    /\ calls[c].attempt \in DOMAIN attempts
    /\ calls[c].version = attempts[calls[c].attempt].version
    /\ calls[c].payload = attempts[calls[c].attempt].payload

\* A request in flight owns the newest attempt, alone.
SessionOwns ==
  \A s \in Sessions : InFlight(s) =>
    /\ status = "executing"
    /\ Len(attempts) # 0
    /\ session[s].attempt = Len(attempts)
    /\ attempts[Len(attempts)].status = "running"
    /\ \A r \in Sessions : InFlight(r) => r = s

\* It has not called the port before it is "responded".
NotYetCalled ==
  \A s \in Sessions : session[s].pc = "prepared" =>
    \A c \in DOMAIN calls : calls[c].attempt # session[s].attempt

\* A validated retry carries the key of its request.
ValidatedHasKey ==
  \A s \in Sessions : session[s].pc = "validated" => session[s].key \in ExecKeys

IInv ==
  /\ TypeOK
  /\ ApprovalsBind
  /\ AttemptsBind
  /\ CallsBind
  /\ ExecutingIffOneRunning
  /\ SessionOwns
  /\ NotYetCalled
  /\ ValidatedHasKey
  /\ NoDoubleCall

-------------------------------------------------------------------------------
(* Types *)

LEMMA AppendFacts ==
  ASSUME NEW S, NEW seq \in Seq(S), NEW e \in S
  PROVE  /\ Append(seq, e) \in Seq(S)
         /\ Len(Append(seq, e)) = Len(seq) + 1
         /\ DOMAIN Append(seq, e) = DOMAIN seq \union {Len(seq) + 1}
         /\ DOMAIN seq = 1..Len(seq)
         /\ \A i \in DOMAIN seq : Append(seq, e)[i] = seq[i]
         /\ Append(seq, e)[Len(seq) + 1] = e
  OBVIOUS

LEMMA SetEntryFacts ==
  ASSUME NEW S, NEW seq \in Seq(S), NEW i \in DOMAIN seq, NEW e \in S
  PROVE  /\ [seq EXCEPT ![i] = e] \in Seq(S)
         /\ Len([seq EXCEPT ![i] = e]) = Len(seq)
         /\ DOMAIN [seq EXCEPT ![i] = e] = DOMAIN seq
  OBVIOUS

\* The states the tables may name are states.
LEMMA TransitionTargets ==
  {"suggested", "pending_review", "approved", "rejected", "executing",
   "execution_queued", "draft_written", "execution_failed", "cancelled"}
     \subseteq Statuses
  BY DEF Statuses

LEMMA MoveToType ==
  ASSUME TypeOK, NEW new \in Statuses, MoveTo(new)
  PROVE  status' \in Statuses /\ revision' \in Nat /\ trail' \in Seq(Event)
  <1>1. [before |-> status, after |-> new] \in Event
    BY DEF TypeOK, Event
  <1>2. trail' \in Seq(Event)
    BY <1>1, AppendFacts DEF TypeOK, MoveTo
  <1> QED
    BY <1>2 DEF TypeOK, MoveTo

LEMMA RowTypes ==
  ASSUME TypeOK
  PROVE  /\ \A v \in DOMAIN drafts :
              /\ v \in Nat \ {0}
              /\ drafts[v] \in Draft
              /\ drafts[v].payload \in Payloads
         /\ \A i \in DOMAIN attempts :
              /\ i \in Nat \ {0}
              /\ attempts[i] \in Attempt
              /\ attempts[i].version \in Nat
              /\ attempts[i].payload \in Payloads
  <1>1. \A v \in DOMAIN drafts : v \in Nat \ {0} /\ drafts[v] \in Draft
    BY DEF TypeOK
  <1>2. \A i \in DOMAIN attempts : i \in Nat \ {0} /\ attempts[i] \in Attempt
    BY DEF TypeOK
  <1>3. \A d \in Draft : d.payload \in Payloads
    BY DEF Draft
  <1>4. \A a \in Attempt : a.version \in Nat /\ a.payload \in Payloads
    BY DEF Attempt
  <1> QED
    BY <1>1, <1>2, <1>3, <1>4

LEMMA SessionTypes ==
  ASSUME TypeOK, NEW s \in Sessions
  PROVE  /\ session[s] \in Session
         /\ Idle \in Session
         /\ \A a \in Nat : [Idle EXCEPT !.pc = "prepared", !.attempt = a] \in Session
         /\ \A e \in Session : [session EXCEPT ![s] = e] \in [Sessions -> Session]
  BY DEF TypeOK, Session, Idle

LEMMA InitType == Init => TypeOK
  BY DEF Init, TypeOK, Statuses, Idle, Session, View

LEMMA TypeStep ==
  ASSUME TypeOK, ValidatedHasKey, SessionOwns, ApprovalsBind, AttemptsBind, [Next]_vars
  PROVE  TypeOK'
  <1> USE NoKeyAssumption
  <1>1. CASE CreateTask
    BY <1>1, MoveToType, TransitionTargets DEF CreateTask, TypeOK
  <1>2. ASSUME NEW u \in Users, ReadTask(u) PROVE TypeOK'
    BY <1>2 DEF ReadTask, TypeOK, taskVars, View
  <1>3. ASSUME NEW u \in Users, ReadLatestDraft(u) PROVE TypeOK'
    BY <1>3 DEF ReadLatestDraft, TypeOK, taskVars, View, Latest
  <1>4. ASSUME NEW u \in Users, NEW key \in DraftKeys, NEW payload \in Payloads,
               CreateInitialDraft(u, key, payload)
        PROVE  TypeOK'
    <2>1. drafts' \in Seq(Draft)
      BY <1>4 DEF CreateInitialDraft, Draft
    <2>2. <<[before |-> status, after |-> "pending_review"],
            [before |-> "pending_review", after |-> "pending_review"]>> \in Seq(Event)
      BY TransitionTargets DEF TypeOK, Event
    <2>3. trail' \in Seq(Event)
      BY <1>4, <2>2 DEF CreateInitialDraft, TypeOK
    <2> QED
      BY <1>4, <2>1, <2>3, TransitionTargets DEF CreateInitialDraft, TypeOK
  <1>5. ASSUME NEW u \in Users, NEW key \in DraftKeys, NEW payload \in Payloads,
               EditDraft(u, key, payload)
        PROVE  TypeOK'
    <2> DEFINE next == IF status = "approved" THEN "pending_review" ELSE status
               edited == [before |-> status, after |-> next]
               review == [before |-> next, after |-> next]
    <2>1. next \in Statuses
      BY TransitionTargets DEF TypeOK
    <2>2. edited \in Event /\ review \in Event
      BY <2>1 DEF TypeOK, Event
    <2>3. trail' \in Seq(Event)
      BY <1>5, <2>2 DEF EditDraft, TypeOK
    <2>4. drafts' \in Seq(Draft)
      <3>1. [payload |-> payload, key |-> key, base |-> view[u].version,
             status |-> "pending_review"] \in Draft
        BY DEF Draft, TypeOK, View
      <3> QED
        BY <1>5, <3>1, AppendFacts DEF EditDraft, TypeOK
    <2> QED
      BY <1>5, <2>1, <2>3, <2>4 DEF EditDraft, TypeOK
  <1>6. ASSUME NEW u \in Users, NEW key \in ReviewKeys,
               NEW decision \in {"approved", "rejected"}, Decide(u, key, decision)
        PROVE  TypeOK'
    <2>1. Latest \in DOMAIN drafts /\ view[u].version \in Nat
      BY <1>6 DEF Decide, PageIsCurrent, Latest, TypeOK, View
    <2>a. drafts[Latest].payload \in Payloads /\ Latest \in Nat
      BY <2>1, RowTypes
    <2>2. [decision |-> decision, version |-> Latest, payload |-> drafts[Latest].payload,
           key |-> key, seen |-> view[u].version] \in Approval
      BY <2>1, <2>a DEF Approval
    <2>3. approvals' \in Seq(Approval)
      BY <1>6, <2>2, AppendFacts DEF Decide, TypeOK
    <2> QED
      BY <1>6, <2>3, MoveToType, TransitionTargets DEF Decide, TypeOK
  <1>7. ASSUME NEW u \in Users, Cancel(u) PROVE TypeOK'
    BY <1>7, MoveToType, TransitionTargets DEF Cancel, TypeOK
  <1>8. ASSUME NEW s \in Sessions, NEW key \in ExecKeys, NEW retry \in BOOLEAN,
               Prepare(s, key, retry)
        PROVE  TypeOK'
    <2>1. /\ Latest \in DOMAIN drafts
          /\ LatestApproval \in DOMAIN approvals
      BY <1>8 DEF Prepare, CanPrepare, ApprovalBindsLatest, ApprovedRows, Latest, TypeOK
    <2>a. drafts[Latest].payload \in Payloads /\ Latest \in Nat
      BY <2>1, RowTypes
    <2>b. LatestApproval \in Nat
      BY <2>1 DEF TypeOK
    <2>2. [key |-> key, version |-> Latest, payload |-> drafts[Latest].payload,
           approval |-> LatestApproval, status |-> "running", error |-> "none"] \in Attempt
      BY <2>a, <2>b DEF Attempt
    <2>3. attempts' \in Seq(Attempt)
      BY <1>8, <2>2, AppendFacts DEF Prepare, TypeOK
    <2>4. StartEvents(retry) \in Seq(Event)
      <3>1. /\ [before |-> status, after |-> status] \in Event
            /\ [before |-> status, after |-> "execution_queued"] \in Event
            /\ [before |-> "execution_queued", after |-> "executing"] \in Event
        BY TransitionTargets DEF Event, TypeOK
      <3>2. CASE retry
        BY <3>1, <3>2 DEF StartEvents
      <3>3. CASE ~retry
        BY <3>1, <3>3 DEF StartEvents
      <3> QED
        BY <3>2, <3>3
    <2>5. trail' \in Seq(Event)
      BY <1>8, <2>4 DEF Prepare, TypeOK
    <2>6. session' \in [Sessions -> Session]
      <3>1. Len(attempts) + 1 \in Nat
        BY DEF TypeOK
      <3> QED
        BY <1>8, <3>1, SessionTypes DEF Prepare
    <2> QED
      BY <1>8, <2>3, <2>5, <2>6, TransitionTargets DEF Prepare, TypeOK
  <1>9. ASSUME NEW s \in Sessions, NEW key \in ExecKeys, ValidateRetry(s, key)
        PROVE  TypeOK'
    BY <1>9 DEF ValidateRetry, TypeOK, taskVars, Session, Idle
  <1>10. ASSUME NEW s \in Sessions, RefuseRetry(s) \/ Abandon(s)
         PROVE  TypeOK'
    <2>1. session' = [session EXCEPT ![s] = Idle] /\ abandons' \in Nat
      <3>1. CASE RefuseRetry(s)
        BY <3>1 DEF RefuseRetry, TypeOK
      <3>2. CASE Abandon(s)
        BY <3>2 DEF Abandon, TypeOK
      <3> QED
        BY <1>10, <3>1, <3>2
    <2>2. session' \in [Sessions -> Session]
      BY <2>1, SessionTypes
    <2> QED
      BY <1>10, <2>1, <2>2 DEF RefuseRetry, Abandon, TypeOK, taskVars
  <1>11. ASSUME NEW s \in Sessions, NEW outcome \in Outcomes, CallPort(s, outcome)
         PROVE  TypeOK'
    <2>1. session[s].attempt \in DOMAIN attempts
      BY <1>11 DEF CallPort, SessionOwns, InFlight, TypeOK
    <2>2. [attempt |-> session[s].attempt,
           version |-> attempts[session[s].attempt].version,
           payload |-> attempts[session[s].attempt].payload] \in Call
      BY <2>1, RowTypes DEF Call
    <2>3. calls' \in Seq(Call)
      BY <1>11, <2>2, AppendFacts DEF CallPort, TypeOK
    <2>4. session' \in [Sessions -> Session]
      BY <1>11 DEF CallPort, TypeOK, Session
    <2> QED
      BY <1>11, <2>3, <2>4 DEF CallPort, TypeOK, taskVars
  <1>12. ASSUME NEW s \in Sessions, FinalizeSuccess(s)
         PROVE  TypeOK'
    <2> DEFINE a == session[s].attempt
    <2>1. a \in DOMAIN attempts /\ attempts[a].version \in DOMAIN drafts
      <3>1. session[s].pc = "responded"
        BY <1>12 DEF FinalizeSuccess, OwnsRunningAttempt
      <3>2. a \in DOMAIN attempts
        BY <3>1 DEF SessionOwns, InFlight, TypeOK
      <3> QED
        BY <3>2 DEF AttemptsBind, ApprovalsBind
    <2>2. attempts' \in Seq(Attempt)
      <3>1. [attempts[a] EXCEPT !.status = "succeeded"] \in Attempt
        BY <2>1, RowTypes DEF Attempt
      <3>2. attempts' = [attempts EXCEPT ![a] = [attempts[a] EXCEPT !.status = "succeeded"]]
        BY <1>12 DEF FinalizeSuccess
      <3> QED
        BY <2>1, <3>1, <3>2, SetEntryFacts DEF TypeOK
    <2>3. drafts' \in Seq(Draft)
      <3> DEFINE v == attempts[a].version
      <3>1. [drafts[v] EXCEPT !.status = "written"] \in Draft
        BY <2>1, RowTypes DEF Draft
      <3>2. drafts' = [drafts EXCEPT ![v] = [drafts[v] EXCEPT !.status = "written"]]
        BY <1>12 DEF FinalizeSuccess, Written
      <3> QED
        BY <2>1, <3>1, <3>2, SetEntryFacts DEF TypeOK
    <2>4. session' \in [Sessions -> Session]
      BY <1>12 DEF FinalizeSuccess, TypeOK, Session, Idle
    <2> QED
      BY <1>12, <2>2, <2>3, <2>4, MoveToType, TransitionTargets
         DEF FinalizeSuccess, TypeOK
  <1>13. ASSUME NEW s \in Sessions, FinalizeFailure(s)
         PROVE  TypeOK'
    <2> DEFINE a == session[s].attempt
    <2>1. a \in DOMAIN attempts
      BY <1>13 DEF FinalizeFailure, OwnsRunningAttempt, SessionOwns, InFlight, TypeOK
    <2>2. attempts' \in Seq(Attempt)
      <3> DEFINE failed == [attempts[a] EXCEPT !.status = "failed",
                                              !.error = session[s].outcome]
      <3>1. failed \in Attempt
        BY <1>13, <2>1, RowTypes DEF FinalizeFailure, IsFailure, Attempt
      <3>2. attempts' = [attempts EXCEPT ![a] = failed]
        BY <1>13 DEF FinalizeFailure, Failed
      <3> QED
        BY <2>1, <3>1, <3>2, SetEntryFacts DEF TypeOK
    <2>3. session' \in [Sessions -> Session]
      BY <1>13 DEF FinalizeFailure, TypeOK, Session, Idle
    <2> QED
      BY <1>13, <2>2, <2>3, MoveToType, TransitionTargets
         DEF FinalizeFailure, TypeOK
  <1>14. CASE UNCHANGED vars
    BY <1>14 DEF TypeOK, vars
  <1> QED
    BY <1>1, <1>2, <1>3, <1>4, <1>5, <1>6, <1>7, <1>8, <1>9, <1>10, <1>11, <1>12,
       <1>13, <1>14
       DEF Next, UserStep, SessionStep, Respond, Execute, PrepareRetry, ValidatedHasKey

-------------------------------------------------------------------------------
(* Preservation *)

\* The actions that leave the execution side alone: no attempt, call or
\* request changes, and the task does not enter or leave "executing".
LEMMA ReviewStep ==
  ASSUME TypeOK,
         \/ CreateTask
         \/ \E u \in Users : UserStep(u)
         \/ UNCHANGED vars
  PROVE  /\ UNCHANGED <<attempts, session, calls>>
         /\ (status' = "executing") <=> (status = "executing")
  <1>1. CASE CreateTask
    BY <1>1 DEF CreateTask, MoveTo
  <1>2. ASSUME NEW u \in Users, UserStep(u)
        PROVE  /\ UNCHANGED <<attempts, session, calls>>
               /\ (status' = "executing") <=> (status = "executing")
    <2>1. CASE ReadTask(u) \/ ReadLatestDraft(u)
      BY <2>1 DEF ReadTask, ReadLatestDraft, taskVars
    <2>2. ASSUME NEW key \in DraftKeys, NEW payload \in Payloads,
                 CreateInitialDraft(u, key, payload)
          PROVE  /\ UNCHANGED <<attempts, session, calls>>
                 /\ (status' = "executing") <=> (status = "executing")
      BY <2>2 DEF CreateInitialDraft, CanStartReview, CanTransition, Transitions
    <2>3. ASSUME NEW key \in DraftKeys, NEW payload \in Payloads,
                 EditDraft(u, key, payload)
          PROVE  /\ UNCHANGED <<attempts, session, calls>>
                 /\ (status' = "executing") <=> (status = "executing")
      BY <2>3 DEF EditDraft
    <2>4. ASSUME NEW key \in ReviewKeys, NEW decision \in {"approved", "rejected"},
                 Decide(u, key, decision)
          PROVE  /\ UNCHANGED <<attempts, session, calls>>
                 /\ (status' = "executing") <=> (status = "executing")
      BY <2>4 DEF Decide, MoveTo
    <2>5. CASE Cancel(u)
      BY <2>5 DEF Cancel, MoveTo, CanTransition, Transitions
    <2> QED
      BY <1>2, <2>1, <2>2, <2>3, <2>4, <2>5 DEF UserStep
  <1>3. CASE UNCHANGED vars
    BY <1>3 DEF vars
  <1> QED
    BY <1>1, <1>2, <1>3

\* Nothing a reviewer decided on disappears or changes: drafts keep their
\* payload and approvals are immutable.
LEMMA ContentIsKept ==
  ASSUME TypeOK, TypeOK', ApprovalsBind, AttemptsBind, SessionOwns, [Next]_vars
  PROVE  /\ \A v \in DOMAIN drafts : /\ v \in DOMAIN drafts'
                                     /\ drafts'[v].payload = drafts[v].payload
         /\ \A i \in DOMAIN approvals : /\ i \in DOMAIN approvals'
                                        /\ approvals'[i] = approvals[i]
         /\ \A i \in DOMAIN approvals' \ DOMAIN approvals :
              /\ approvals'[i].version \in DOMAIN drafts
              /\ approvals'[i].payload = drafts[approvals'[i].version].payload
              /\ approvals'[i].seen = approvals'[i].version
  <1> DEFINE Goal ==
         /\ \A v \in DOMAIN drafts : /\ v \in DOMAIN drafts'
                                     /\ drafts'[v].payload = drafts[v].payload
         /\ \A i \in DOMAIN approvals : /\ i \in DOMAIN approvals'
                                        /\ approvals'[i] = approvals[i]
         /\ \A i \in DOMAIN approvals' \ DOMAIN approvals :
              /\ approvals'[i].version \in DOMAIN drafts
              /\ approvals'[i].payload = drafts[approvals'[i].version].payload
              /\ approvals'[i].seen = approvals'[i].version
  <1>1. CASE UNCHANGED <<drafts, approvals>>
    BY <1>1
  <1>2. ASSUME NEW u \in Users, NEW key \in DraftKeys, NEW payload \in Payloads,
               CreateInitialDraft(u, key, payload)
        PROVE  Goal
    BY <1>2 DEF CreateInitialDraft
  <1>3. ASSUME NEW u \in Users, NEW key \in DraftKeys, NEW payload \in Payloads,
               EditDraft(u, key, payload)
        PROVE  Goal
    BY <1>3 DEF EditDraft, TypeOK
  <1>4. ASSUME NEW u \in Users, NEW key \in ReviewKeys,
               NEW decision \in {"approved", "rejected"}, Decide(u, key, decision)
        PROVE  Goal
    <2> DEFINE row == [decision |-> decision, version |-> Latest,
                       payload |-> drafts[Latest].payload, key |-> key,
                       seen |-> view[u].version]
    <2>1. Latest \in DOMAIN drafts /\ view[u].version = Latest
      BY <1>4 DEF Decide, PageIsCurrent, Latest, TypeOK, View
    <2>2. approvals' = Append(approvals, row) /\ drafts' = drafts
      BY <1>4 DEF Decide
    <2>3. /\ \A i \in DOMAIN approvals : i \in DOMAIN approvals' /\ approvals'[i] = approvals[i]
          /\ \A i \in DOMAIN approvals' \ DOMAIN approvals : approvals'[i] = row
      <3> HIDE DEF row
      <3> QED
        BY <2>2 DEF TypeOK
    <2> QED
      BY <2>1, <2>2, <2>3
  <1>5. ASSUME NEW s \in Sessions, FinalizeSuccess(s)
        PROVE  Goal
    <2> DEFINE v == attempts[session[s].attempt].version
    <2>1. drafts' = [drafts EXCEPT ![v] = [drafts[v] EXCEPT !.status = "written"]]
      BY <1>5 DEF FinalizeSuccess, Written
    <2>2. approvals' = approvals
      BY <1>5 DEF FinalizeSuccess
    <2>3. [drafts[v] EXCEPT !.status = "written"].payload = drafts[v].payload \/ v \notin DOMAIN drafts
      BY RowTypes DEF Draft
    <2> HIDE DEF v
    <2> QED
      BY <2>1, <2>2, <2>3 DEF TypeOK
  <1>6. \/ UNCHANGED <<drafts, approvals>>
        \/ \E u \in Users, key \in DraftKeys, payload \in Payloads :
             CreateInitialDraft(u, key, payload) \/ EditDraft(u, key, payload)
        \/ \E u \in Users, key \in ReviewKeys, decision \in {"approved", "rejected"} :
             Decide(u, key, decision)
        \/ \E s \in Sessions : FinalizeSuccess(s)
    BY DEF Next, UserStep, SessionStep, Respond, Execute, PrepareRetry, Prepare,
           ValidateRetry, RefuseRetry, CallPort, FinalizeFailure, Abandon,
           CreateTask, ReadTask, ReadLatestDraft, Cancel, vars
  <1> QED
    BY <1>1, <1>2, <1>3, <1>4, <1>5, <1>6

\* What an attempt executes never changes either, and a new attempt rests on
\* an approval of what it executes, under a key no attempt had.
LEMMA AttemptsAreKept ==
  ASSUME TypeOK, SessionOwns, [Next]_vars
  PROVE  /\ \A i \in DOMAIN attempts :
              /\ i \in DOMAIN attempts'
              /\ attempts'[i].version = attempts[i].version
              /\ attempts'[i].payload = attempts[i].payload
              /\ attempts'[i].approval = attempts[i].approval
              /\ attempts'[i].key = attempts[i].key
         /\ \A i \in DOMAIN attempts' \ DOMAIN attempts :
              /\ i = Len(attempts) + 1
              /\ attempts'[i].approval \in ApprovedRows
              /\ approvals[attempts'[i].approval].version = attempts'[i].version
              /\ approvals[attempts'[i].approval].payload = attempts'[i].payload
              /\ \A j \in DOMAIN attempts : attempts[j].key # attempts'[i].key
  <1> DEFINE Same(i) ==
              /\ i \in DOMAIN attempts'
              /\ attempts'[i].version = attempts[i].version
              /\ attempts'[i].payload = attempts[i].payload
              /\ attempts'[i].approval = attempts[i].approval
              /\ attempts'[i].key = attempts[i].key
             New(i) ==
              /\ i = Len(attempts) + 1
              /\ attempts'[i].approval \in ApprovedRows
              /\ approvals[attempts'[i].approval].version = attempts'[i].version
              /\ approvals[attempts'[i].approval].payload = attempts'[i].payload
              /\ \A j \in DOMAIN attempts : attempts[j].key # attempts'[i].key
             Goal == /\ \A i \in DOMAIN attempts : Same(i)
                     /\ \A i \in DOMAIN attempts' \ DOMAIN attempts : New(i)
  <1>1. CASE UNCHANGED attempts
    BY <1>1
  <1>2. ASSUME NEW s \in Sessions, NEW key \in ExecKeys \union {NoKey},
               NEW retry \in BOOLEAN, Prepare(s, key, retry)
        PROVE  Goal
    <2> DEFINE row == [key |-> key, version |-> Latest,
                       payload |-> drafts[Latest].payload, approval |-> LatestApproval,
                       status |-> "running", error |-> "none"]
    <2>1. attempts' = Append(attempts, row)
      BY <1>2 DEF Prepare
    <2>2. /\ \A j \in DOMAIN attempts : attempts[j].key # key
          /\ LatestApproval \in ApprovedRows
          /\ approvals[LatestApproval].version = Latest
          /\ approvals[LatestApproval].payload = drafts[Latest].payload
      BY <1>2 DEF Prepare, CanPrepare, Used, ApprovalBindsLatest
    <2>3. /\ \A i \in DOMAIN attempts : i \in DOMAIN attempts' /\ attempts'[i] = attempts[i]
          /\ \A i \in DOMAIN attempts' \ DOMAIN attempts :
                i = Len(attempts) + 1 /\ attempts'[i] = row
      <3> HIDE DEF row
      <3> QED
        BY <2>1 DEF TypeOK
    <2> QED
      BY <2>2, <2>3
  <1>3. ASSUME NEW s \in Sessions, FinalizeSuccess(s) \/ FinalizeFailure(s)
        PROVE  Goal
    <2> DEFINE a == session[s].attempt
    <2>1. a \in DOMAIN attempts
      BY <1>3 DEF FinalizeSuccess, FinalizeFailure, OwnsRunningAttempt, SessionOwns,
                  InFlight, TypeOK
    <2>2. PICK row : /\ attempts' = [attempts EXCEPT ![a] = row]
                     /\ row.version = attempts[a].version
                     /\ row.payload = attempts[a].payload
                     /\ row.approval = attempts[a].approval
                     /\ row.key = attempts[a].key
      <3>1. CASE FinalizeSuccess(s)
        <4> DEFINE row == [attempts[a] EXCEPT !.status = "succeeded"]
        <4>1. attempts' = [attempts EXCEPT ![a] = row]
          BY <3>1 DEF FinalizeSuccess
        <4>2. /\ row.version = attempts[a].version /\ row.payload = attempts[a].payload
              /\ row.approval = attempts[a].approval /\ row.key = attempts[a].key
          BY <2>1, RowTypes DEF Attempt
        <4> HIDE DEF row
        <4> QED
          BY <4>1, <4>2
      <3>2. CASE FinalizeFailure(s)
        <4> DEFINE row == [attempts[a] EXCEPT !.status = "failed",
                                              !.error = session[s].outcome]
        <4>1. attempts' = [attempts EXCEPT ![a] = row]
          BY <3>2 DEF FinalizeFailure, Failed
        <4>2. /\ row.version = attempts[a].version /\ row.payload = attempts[a].payload
              /\ row.approval = attempts[a].approval /\ row.key = attempts[a].key
          BY <2>1, RowTypes DEF Attempt
        <4> HIDE DEF row
        <4> QED
          BY <4>1, <4>2
      <3> QED
        BY <1>3, <3>1, <3>2
    <2> HIDE DEF a
    <2> QED
      BY <2>1, <2>2 DEF TypeOK
  <1>4. \/ UNCHANGED attempts
        \/ \E s \in Sessions, key \in ExecKeys \union {NoKey}, retry \in BOOLEAN :
             Prepare(s, key, retry)
        \/ \E s \in Sessions : FinalizeSuccess(s) \/ FinalizeFailure(s)
    <2>1. CASE CreateTask \/ (\E u \in Users : UserStep(u)) \/ UNCHANGED vars
      BY <2>1, ReviewStep
    <2>2. ASSUME NEW s \in Sessions, PrepareRetry(s)
          PROVE  \E key \in ExecKeys \union {NoKey} : Prepare(s, key, TRUE)
      BY <2>2, SessionTypes DEF PrepareRetry, Session
    <2>3. ASSUME NEW s \in Sessions, SessionStep(s), ~PrepareRetry(s)
          PROVE  \/ UNCHANGED attempts
                 \/ \E key \in ExecKeys : Prepare(s, key, FALSE)
                 \/ FinalizeSuccess(s) \/ FinalizeFailure(s)
      BY <2>3 DEF SessionStep, Respond, Execute, ValidateRetry, RefuseRetry, CallPort, Abandon
    <2> QED
      BY <2>1, <2>2, <2>3 DEF Next
  <1> QED
    BY <1>1, <1>2, <1>3, <1>4

\* The chain from a call to the page its approval was given on.
LEMMA BindStep ==
  ASSUME IInv, TypeOK', [Next]_vars
  PROVE  ApprovalsBind' /\ AttemptsBind' /\ CallsBind'
  <1> USE DEF IInv
  <1>1. ApprovalsBind'
    BY ContentIsKept DEF ApprovalsBind
  <1>2. AttemptsBind'
    <2> SUFFICES ASSUME NEW i \in DOMAIN attempts'
                 PROVE  /\ attempts'[i].approval \in DOMAIN approvals
                        /\ approvals[attempts'[i].approval].decision = "approved"
                        /\ approvals[attempts'[i].approval].version = attempts'[i].version
                        /\ approvals[attempts'[i].approval].payload = attempts'[i].payload
      BY ContentIsKept DEF AttemptsBind
    <2> QED
      BY AttemptsAreKept DEF AttemptsBind, ApprovedRows
  <1>3. CallsBind'
    <2>1. CASE UNCHANGED calls
      BY <2>1, AttemptsAreKept DEF CallsBind
    <2>2. ASSUME NEW s \in Sessions, NEW outcome \in Outcomes, CallPort(s, outcome)
          PROVE  CallsBind'
      <3> DEFINE a == session[s].attempt
                 call == [attempt |-> a, version |-> attempts[a].version,
                          payload |-> attempts[a].payload]
      <3>1. a \in DOMAIN attempts
        BY <2>2 DEF CallPort, SessionOwns, InFlight, TypeOK
      <3>2. calls' = Append(calls, call) /\ attempts' = attempts
        BY <2>2 DEF CallPort
      <3>3. \A c \in DOMAIN calls' : \/ c \in DOMAIN calls /\ calls'[c] = calls[c]
                                     \/ calls'[c] = call
        <4> HIDE DEF call
        <4> QED
          BY <3>2 DEF TypeOK
      <3> QED
        BY <3>1, <3>2, <3>3 DEF CallsBind
    <2>3. UNCHANGED calls \/ \E s \in Sessions, outcome \in Outcomes : CallPort(s, outcome)
      <3>1. CASE CreateTask \/ (\E u \in Users : UserStep(u)) \/ UNCHANGED vars
        BY <3>1, ReviewStep
      <3> QED
        BY <3>1 DEF Next, SessionStep, Respond, Execute, PrepareRetry, Prepare,
                    ValidateRetry, RefuseRetry, FinalizeSuccess, FinalizeFailure, Abandon
    <2> QED
      BY <2>1, <2>2, <2>3
  <1> QED
    BY <1>1, <1>2, <1>3

Owning == /\ ExecutingIffOneRunning
          /\ SessionOwns
          /\ NotYetCalled
          /\ ValidatedHasKey
          /\ NoDoubleCall

LEMMA OwningPrepare ==
  ASSUME IInv, NEW s \in Sessions, NEW key \in ExecKeys, NEW retry \in BOOLEAN,
         Prepare(s, key, retry), [Next]_vars
  PROVE  Owning'
  <1> USE DEF IInv
  <1> DEFINE row == [key |-> key, version |-> Latest, payload |-> drafts[Latest].payload,
                     approval |-> LatestApproval, status |-> "running", error |-> "none"]
             n == Len(attempts) + 1
  <1>1. /\ attempts' = Append(attempts, row)
        /\ row.status = "running"
        /\ row.key = key
    BY DEF Prepare
  <1>2. /\ n \in Nat \ {0}
        /\ Len(attempts') = n
        /\ DOMAIN attempts' = DOMAIN attempts \union {n}
        /\ n \notin DOMAIN attempts
        /\ \A i \in DOMAIN attempts : attempts'[i] = attempts[i]
        /\ attempts'[n].status = "running"
        /\ attempts'[n].key = key
    <2> HIDE DEF row
    <2> QED
      BY <1>1 DEF TypeOK
  <1>3. /\ status # "executing"
        /\ \A i \in DOMAIN attempts : attempts[i].status # "running" /\ attempts[i].key # key
    BY DEF Prepare, CanPrepare, CanExecute, HasActiveAttempt, Used
  <1>4. /\ status' = "executing"
        /\ calls' = calls
        /\ session' = [session EXCEPT ![s] = [Idle EXCEPT !.pc = "prepared", !.attempt = n]]
    BY DEF Prepare
  <1>5. /\ session'[s].pc = "prepared"
        /\ session'[s].attempt = n
        /\ \A r \in Sessions \ {s} : session'[r] = session[r] /\ ~InFlight(r)
    BY <1>3, <1>4 DEF TypeOK, SessionOwns, Idle
  <1> HIDE DEF n
  <1>6. ExecutingIffOneRunning'
    BY <1>2, <1>3, <1>4 DEF ExecutingIffOneRunning, HasActiveAttempt
  <1>7. SessionOwns'
    BY <1>2, <1>4, <1>5 DEF SessionOwns, InFlight
  <1>8. NotYetCalled'
    BY <1>2, <1>4, <1>5 DEF NotYetCalled, CallsBind, InFlight
  <1>9. ValidatedHasKey'
    BY <1>5 DEF ValidatedHasKey
  <1>10. NoDoubleCall'
    BY <1>2, <1>3, <1>4 DEF NoDoubleCall
  <1> QED
    BY <1>6, <1>7, <1>8, <1>9, <1>10 DEF Owning

LEMMA OwningCall ==
  ASSUME IInv, NEW s \in Sessions, NEW outcome \in Outcomes, CallPort(s, outcome)
  PROVE  Owning'
  <1> USE DEF IInv
  <1> DEFINE a == session[s].attempt
             call == [attempt |-> a, version |-> attempts[a].version,
                      payload |-> attempts[a].payload]
  <1>1. /\ calls' = Append(calls, call)
        /\ call.attempt = a
        /\ attempts' = attempts
        /\ status' = status
    BY DEF CallPort, taskVars
  <1>2. /\ session'[s].pc = "responded"
        /\ session'[s].attempt = a
        /\ session[s].pc = "prepared"
        /\ \A r \in Sessions \ {s} : session'[r] = session[r] /\ ~InFlight(r)
    BY DEF CallPort, TypeOK, Session, SessionOwns, InFlight
  <1>3. /\ DOMAIN calls' = DOMAIN calls \union {Len(calls) + 1}
        /\ \A c \in DOMAIN calls : calls'[c] = calls[c]
        /\ calls'[Len(calls) + 1].attempt = a
        /\ \A c \in DOMAIN calls : calls[c].attempt # a
    <2> HIDE DEF call
    <2> QED
      BY <1>1, <1>2 DEF TypeOK, NotYetCalled
  <1> HIDE DEF a, call
  <1>4. ExecutingIffOneRunning'
    BY <1>1 DEF ExecutingIffOneRunning, HasActiveAttempt
  <1>5. SessionOwns'
    BY <1>1, <1>2 DEF SessionOwns, InFlight, a
  <1>6. NotYetCalled'
    BY <1>2 DEF NotYetCalled, InFlight
  <1>7. ValidatedHasKey'
    BY <1>2 DEF ValidatedHasKey
  <1>8. NoDoubleCall'
    BY <1>1, <1>3 DEF NoDoubleCall
  <1> QED
    BY <1>4, <1>5, <1>6, <1>7, <1>8 DEF Owning

LEMMA OwningFinalize ==
  ASSUME IInv, NEW s \in Sessions, FinalizeSuccess(s) \/ FinalizeFailure(s), [Next]_vars
  PROVE  Owning'
  <1> USE DEF IInv
  <1> DEFINE a == session[s].attempt
  <1>1. /\ a = Len(attempts)
        /\ a \in DOMAIN attempts
        /\ \A r \in Sessions : InFlight(r) => r = s
        /\ \A i \in DOMAIN attempts : attempts[i].status = "running" => i = a
    BY DEF FinalizeSuccess, FinalizeFailure, OwnsRunningAttempt, SessionOwns, InFlight,
           ExecutingIffOneRunning, TypeOK
  <1>2. /\ status' # "executing"
        /\ calls' = calls
        /\ session' = [session EXCEPT ![s] = Idle]
    BY DEF FinalizeSuccess, FinalizeFailure, MoveTo
  <1>3. \E row : attempts' = [attempts EXCEPT ![a] = row] /\ row.status # "running"
    <2>1. CASE FinalizeSuccess(s)
      <3> DEFINE row == [attempts[a] EXCEPT !.status = "succeeded"]
      <3>1. attempts' = [attempts EXCEPT ![a] = row]
        BY <2>1 DEF FinalizeSuccess
      <3>2. row.status # "running"
        BY <1>1, RowTypes DEF Attempt
      <3> HIDE DEF row
      <3> QED
        BY <3>1, <3>2
    <2>2. CASE FinalizeFailure(s)
      <3> DEFINE row == [attempts[a] EXCEPT !.status = "failed", !.error = session[s].outcome]
      <3>1. attempts' = [attempts EXCEPT ![a] = row]
        BY <2>2 DEF FinalizeFailure, Failed
      <3>2. row.status # "running"
        BY <1>1, RowTypes DEF Attempt
      <3> HIDE DEF row
      <3> QED
        BY <3>1, <3>2
    <2> QED
      BY <2>1, <2>2
  <1>4. /\ DOMAIN attempts' = DOMAIN attempts
        /\ \A i \in DOMAIN attempts' : attempts'[i].status # "running"
    BY <1>1, <1>3 DEF TypeOK
  <1>5. \A r \in Sessions : /\ session'[r].pc \notin {"prepared", "responded"}
                            /\ session'[r].pc = "validated" => session'[r] = session[r]
    BY <1>1, <1>2 DEF TypeOK, Idle, InFlight
  <1> HIDE DEF a
  <1>6. ExecutingIffOneRunning'
    BY <1>2, <1>4 DEF ExecutingIffOneRunning, HasActiveAttempt
  <1>7. SessionOwns' /\ NotYetCalled'
    BY <1>5 DEF SessionOwns, NotYetCalled, InFlight
  <1>8. ValidatedHasKey'
    BY <1>5 DEF ValidatedHasKey
  <1>9. NoDoubleCall'
    BY <1>2, <1>4, AttemptsAreKept DEF NoDoubleCall
  <1> QED
    BY <1>6, <1>7, <1>8, <1>9 DEF Owning

\* A retry that is validated, refused or given up touches its request only.
LEMMA QuietStep ==
  ASSUME TypeOK, NEW s \in Sessions,
         (\E key \in ExecKeys : ValidateRetry(s, key)) \/ RefuseRetry(s) \/ Abandon(s)
  PROVE  /\ UNCHANGED <<status, attempts, calls>>
         /\ \A r \in Sessions \ {s} : session'[r] = session[r]
         /\ session'[s].pc \in {"idle", "validated"}
         /\ session'[s].pc = "validated" => session'[s].key \in ExecKeys
  <1>1. ASSUME NEW key \in ExecKeys, ValidateRetry(s, key)
        PROVE  /\ UNCHANGED <<status, attempts, calls>>
               /\ \A r \in Sessions \ {s} : session'[r] = session[r]
               /\ session'[s].pc = "validated"
               /\ session'[s].key = key
    BY <1>1 DEF ValidateRetry, taskVars, TypeOK, Idle
  <1>2. ASSUME RefuseRetry(s) \/ Abandon(s)
        PROVE  /\ UNCHANGED <<status, attempts, calls>>
               /\ \A r \in Sessions \ {s} : session'[r] = session[r]
               /\ session'[s].pc = "idle"
    <2>1. UNCHANGED <<status, attempts, calls>> /\ session' = [session EXCEPT ![s] = Idle]
      BY <1>2 DEF RefuseRetry, Abandon, taskVars
    <2> QED
      BY <2>1 DEF TypeOK, Idle
  <1> QED
    BY <1>1, <1>2

LEMMA OwningStep ==
  ASSUME IInv, [Next]_vars
  PROVE  Owning'
  <1> USE DEF IInv
  <1>1. CASE CreateTask \/ (\E u \in Users : UserStep(u)) \/ UNCHANGED vars
    BY <1>1, ReviewStep DEF Owning, ExecutingIffOneRunning, HasActiveAttempt, SessionOwns,
                            InFlight, NotYetCalled, ValidatedHasKey, NoDoubleCall
  <1>2. ASSUME NEW s \in Sessions, NEW key \in ExecKeys,
               Execute(s, key) \/ (PrepareRetry(s) /\ key = session[s].key)
        PROVE  Owning'
    BY <1>2, OwningPrepare DEF Execute, PrepareRetry
  <1>3. ASSUME NEW s \in Sessions,
               (\E key \in ExecKeys : ValidateRetry(s, key)) \/ RefuseRetry(s) \/ Abandon(s)
        PROVE  Owning'
    <2>1. /\ UNCHANGED <<status, attempts, calls>>
          /\ \A r \in Sessions \ {s} : session'[r] = session[r]
          /\ session'[s].pc \in {"idle", "validated"}
          /\ session'[s].pc = "validated" => session'[s].key \in ExecKeys
      BY <1>3, QuietStep
    <2> QED
      BY <2>1 DEF Owning, ExecutingIffOneRunning, HasActiveAttempt, SessionOwns, InFlight,
                  NotYetCalled, ValidatedHasKey, NoDoubleCall
  <1>4. ASSUME NEW s \in Sessions, Respond(s) PROVE Owning'
    BY <1>4, OwningCall, OwningFinalize DEF Respond
  <1> QED
    BY <1>1, <1>2, <1>3, <1>4 DEF Next, SessionStep, PrepareRetry, ValidatedHasKey

LEMMA InitIInv == Init => IInv
  <1> SUFFICES ASSUME Init PROVE IInv
    OBVIOUS
  <1>1. TypeOK
    BY InitType
  <1>2. \A s \in Sessions : session[s].pc = "idle"
    BY DEF Init, Idle
  <1> QED
    BY <1>1, <1>2 DEF Init, IInv, ApprovalsBind, AttemptsBind, CallsBind, SessionOwns,
       InFlight, NotYetCalled, ValidatedHasKey, ExecutingIffOneRunning, HasActiveAttempt,
       NoDoubleCall

LEMMA NextIInv == IInv /\ [Next]_vars => IInv'
  <1> SUFFICES ASSUME IInv, [Next]_vars PROVE IInv'
    OBVIOUS
  <1>1. TypeOK'
    BY TypeStep DEF IInv
  <1>2. ApprovalsBind' /\ AttemptsBind' /\ CallsBind'
    BY <1>1, BindStep
  <1>3. Owning'
    BY OwningStep
  <1> QED
    BY <1>1, <1>2, <1>3 DEF IInv, Owning

-------------------------------------------------------------------------------
(* Theorems *)

\* The inductive invariant holds in every reachable state.
THEOREM Inductive == Spec => []IInv
  <1>1. Init => IInv
    BY InitIInv
  <1>2. IInv /\ [Next]_vars => IInv'
    BY NextIInv
  <1> QED
    BY <1>1, <1>2, PTL DEF Spec

\* Every variable of the model stays in its type.
THEOREM TypeCorrect == Spec => []TypeOK
  <1>1. IInv => TypeOK
    BY DEF IInv
  <1> QED
    BY <1>1, Inductive, PTL

\* Human confirmation: whatever DraftExecutionPort receives is the version
\* and the payload of an approval whose reviewer had that version on screen.
THEOREM ReviewedOnly == Spec => []OnlyReviewedContentIsExecuted
  <1>1. IInv => OnlyReviewedContentIsExecuted
    <2> SUFFICES ASSUME IInv, NEW c \in DOMAIN calls
                 PROVE  LET call == calls[c]
                            grant == approvals[attempts[call.attempt].approval]
                        IN /\ grant.decision = "approved"
                           /\ grant.version = call.version
                           /\ grant.payload = call.payload
                           /\ grant.seen = call.version
                           /\ drafts[call.version].payload = call.payload
      BY DEF OnlyReviewedContentIsExecuted
    <2>1. /\ calls[c].attempt \in DOMAIN attempts
          /\ calls[c].version = attempts[calls[c].attempt].version
          /\ calls[c].payload = attempts[calls[c].attempt].payload
      BY DEF IInv, CallsBind
    <2> DEFINE i == attempts[calls[c].attempt].approval
    <2>2. /\ i \in DOMAIN approvals
          /\ approvals[i].decision = "approved"
          /\ approvals[i].version = calls[c].version
          /\ approvals[i].payload = calls[c].payload
      BY <2>1 DEF IInv, AttemptsBind
    <2>3. /\ approvals[i].payload = drafts[approvals[i].version].payload
          /\ approvals[i].seen = approvals[i].version
      BY <2>2 DEF IInv, ApprovalsBind
    <2> QED
      BY <2>2, <2>3
  <1> QED
    BY <1>1, Inductive, PTL

\* A task is executing exactly while one attempt, the newest, is running.
THEOREM OneExecution == Spec => []ExecutingIffOneRunning
  <1>1. IInv => ExecutingIffOneRunning
    BY DEF IInv
  <1> QED
    BY <1>1, Inductive, PTL

\* The request between prepare and finalize owns that attempt alone: finalize
\* is never refused.
THEOREM Ownership == Spec => []RequestOwnsItsAttempt
  <1>1. IInv => RequestOwnsItsAttempt
    BY DEF IInv, SessionOwns, InFlight, RequestOwnsItsAttempt, TypeOK
  <1> QED
    BY <1>1, Inductive, PTL

\* No key makes two attempts and no attempt reaches the port twice.
THEOREM AtMostOnce == Spec => []NoDoubleCall
  <1>1. IInv => NoDoubleCall
    BY DEF IInv
  <1> QED
    BY <1>1, Inductive, PTL

\* An execution whose request died is never repeated.
THEOREM NeverRepeated == Spec => UnknownOutcomeIsNotRepeated
  <1>1. IInv /\ [Next]_vars
          => (Orphaned => calls' = calls /\ attempts' = attempts /\ Orphaned')
    <2> SUFFICES ASSUME IInv, [Next]_vars, Orphaned
                 PROVE  calls' = calls /\ attempts' = attempts /\ Orphaned'
      OBVIOUS
    <2>1. status = "executing" /\ \A s \in Sessions : ~InFlight(s)
      BY DEF IInv, ExecutingIffOneRunning, Orphaned, InFlight
    <2>2. CASE CreateTask \/ (\E u \in Users : UserStep(u)) \/ UNCHANGED vars
      BY <2>2, ReviewStep DEF IInv, Orphaned, HasActiveAttempt
    <2>3. ASSUME NEW s \in Sessions, SessionStep(s)
          PROVE  calls' = calls /\ attempts' = attempts /\ Orphaned'
      <3>1. (\E key \in ExecKeys : ValidateRetry(s, key)) \/ RefuseRetry(s) \/ Abandon(s)
        BY <2>1, <2>3 DEF SessionStep, Respond, Execute, PrepareRetry, Prepare, CanPrepare,
           CanExecute, CallPort, FinalizeSuccess, FinalizeFailure, OwnsRunningAttempt, InFlight
      <3>2. /\ UNCHANGED <<attempts, calls>>
            /\ \A r \in Sessions \ {s} : session'[r] = session[r]
            /\ session'[s].pc \in {"idle", "validated"}
        BY <3>1, QuietStep DEF IInv
      <3>3. \A r \in Sessions : session'[r].pc \notin {"prepared", "responded"}
        BY <3>2, <2>1 DEF InFlight
      <3> QED
        BY <2>3, <3>2, <3>3 DEF Orphaned, HasActiveAttempt
    <2> QED
      BY <2>2, <2>3 DEF Next
  <1> QED
    BY <1>1, Inductive, PTL DEF Spec, UnknownOutcomeIsNotRepeated

\* An execution only starts over the newest version, and that was approved.
THEOREM ReviewedWhenStarted == Spec => NoExecutionOverUnreviewedEdit
  <1> DEFINE Goal == Len(attempts') > Len(attempts) =>
       /\ attempts'[Len(attempts')].version = Len(drafts)
       /\ \E i \in DOMAIN approvals : /\ approvals[i].decision = "approved"
                                      /\ approvals[i].version = Len(drafts)
  <1>1. IInv /\ [Next]_vars => Goal
    <2> SUFFICES ASSUME IInv, [Next]_vars PROVE Goal
      OBVIOUS
    <2>1. ASSUME NEW s \in Sessions, NEW key \in ExecKeys, NEW retry \in BOOLEAN,
                 Prepare(s, key, retry)
          PROVE  Goal
      <3> DEFINE row == [key |-> key, version |-> Latest,
                         payload |-> drafts[Latest].payload, approval |-> LatestApproval,
                         status |-> "running", error |-> "none"]
      <3>1. attempts' = Append(attempts, row) /\ row.version = Len(drafts)
        BY <2>1 DEF Prepare, Latest
      <3>2. attempts'[Len(attempts')].version = Len(drafts)
        <4> HIDE DEF row
        <4> QED
          BY <3>1 DEF IInv, TypeOK
      <3> QED
        BY <2>1, <3>2 DEF Prepare, CanPrepare, ApprovalBindsLatest, ApprovedRows, Latest
    <2>2. ASSUME NEW s \in Sessions, FinalizeSuccess(s) \/ FinalizeFailure(s)
          PROVE  Len(attempts') = Len(attempts)
      BY <2>2 DEF FinalizeSuccess, FinalizeFailure, Failed, IInv, TypeOK
    <2>3. CASE CreateTask \/ (\E u \in Users : UserStep(u)) \/ UNCHANGED vars
      BY <2>3, ReviewStep DEF IInv, TypeOK
    <2>4. ASSUME NEW s \in Sessions,
                 \/ \E key \in ExecKeys : ValidateRetry(s, key)
                 \/ \E outcome \in Outcomes : CallPort(s, outcome)
                 \/ RefuseRetry(s)
                 \/ Abandon(s)
          PROVE  attempts' = attempts
      BY <2>4 DEF ValidateRetry, CallPort, RefuseRetry, Abandon
    <2>5. Len(attempts') = Len(attempts) => Goal
      BY DEF IInv, TypeOK
    <2>6. ASSUME NEW s \in Sessions, SessionStep(s)
          PROVE  Goal
      BY <2>1, <2>2, <2>4, <2>5, <2>6 DEF SessionStep, Respond, Execute, PrepareRetry,
         IInv, ValidatedHasKey
    <2> QED
      BY <2>3, <2>5, <2>6 DEF Next
  <1> QED
    BY <1>1, Inductive, PTL DEF Spec, NoExecutionOverUnreviewedEdit

-------------------------------------------------------------------------------
(* The audit trail *)

\* A change of state that the state machine knows
Lawful(e) ==
  \/ e.before = e.after
  \/ e.before = "absent" /\ e.after = "suggested"
  \/ CanTransition(e.before, e.after)
  \/ e.after = "pending_review" /\ CanStartReview(e.before)

\* A trail that leads from "absent" to a state, without a gap
LeadsTo(t, s) ==
  /\ IF t = <<>> THEN s = "absent"
                 ELSE s # "absent" /\ t[1].before = "absent" /\ t[Len(t)].after = s
  /\ \A i \in 1..Len(t) - 1 : t[i].after = t[i + 1].before
  /\ \A i \in DOMAIN t : Lawful(t[i])

\* One more event leads on from where the trail was.
LEMMA TrailGrows ==
  ASSUME NEW t \in Seq(Event), NEW e \in Event, LeadsTo(t, e.before),
         Lawful(e), e.after # "absent"
  PROVE  LeadsTo(Append(t, e), e.after)
  <1> DEFINE n == Len(t) + 1
             u == Append(t, e)
  <1>1. /\ Len(t) \in Nat /\ Len(u) = n /\ u[n] = e /\ DOMAIN u = 1..n
        /\ DOMAIN t = 1..Len(t) /\ (t = <<>> <=> Len(t) = 0)
        /\ \A i \in 1..Len(t) : u[i] = t[i]
    OBVIOUS
  <1> HIDE DEF u
  <1>2. u # <<>>
    BY <1>1
  <1>3. u[1].before = "absent"
    BY <1>1 DEF LeadsTo
  <1>4. ASSUME NEW i \in 1..n - 1
        PROVE  u[i].after = u[i + 1].before
    <2>1. CASE i = Len(t)
      BY <1>1, <2>1 DEF LeadsTo
    <2>2. CASE i # Len(t)
      <3>1. i \in 1..Len(t) - 1 /\ i \in 1..Len(t) /\ i + 1 \in 1..Len(t)
        <4>1. \A m \in Nat : \A j \in 1..(m + 1) - 1 :
                 j # m => j \in 1..m - 1 /\ j \in 1..m /\ j + 1 \in 1..m
          OBVIOUS
        <4>2. Len(t) \in Nat
          BY <1>1
        <4> QED
          BY <4>1, <4>2, <2>2
      <3>2. t[i].after = t[i + 1].before
        BY <3>1 DEF LeadsTo
      <3> QED
        BY <1>1, <3>1, <3>2
    <2> QED
      BY <2>1, <2>2
  <1>5. \A i \in DOMAIN u : Lawful(u[i])
    BY <1>1 DEF LeadsTo
  <1> QED
    BY <1>1, <1>2, <1>3, <1>4, <1>5 DEF LeadsTo

\* A step writes the events that lead to the new status, or none.
LEMMA MoveToLeads ==
  ASSUME TypeOK, LeadsTo(trail, status), NEW new \in Statuses, MoveTo(new),
         new # "absent", Lawful([before |-> status, after |-> new])
  PROVE  LeadsTo(trail', status')
  <1>1. [before |-> status, after |-> new] \in Event
    BY DEF TypeOK, Event
  <1>2. LeadsTo(Append(trail, [before |-> status, after |-> new]), new)
    BY <1>1, TrailGrows DEF TypeOK
  <1> QED
    BY <1>2 DEF MoveTo

\* Two events in a row
LEMMA TrailGrowsTwice ==
  ASSUME NEW t \in Seq(Event), NEW a \in Statuses, NEW b \in Statuses, NEW c \in Statuses,
         LeadsTo(t, a), b # "absent", c # "absent",
         Lawful([before |-> a, after |-> b]), Lawful([before |-> b, after |-> c])
  PROVE  LeadsTo(t \o <<[before |-> a, after |-> b], [before |-> b, after |-> c]>>, c)
  <1> DEFINE e == [before |-> a, after |-> b]
             f == [before |-> b, after |-> c]
  <1>1. /\ e \in Event /\ f \in Event /\ Lawful(e) /\ Lawful(f)
        /\ e.before = a /\ e.after = b /\ f.before = b /\ f.after = c
    BY DEF Event
  <1> HIDE DEF e, f
  <1>2. Append(t, e) \in Seq(Event) /\ LeadsTo(Append(t, e), b)
    BY <1>1, TrailGrows
  <1>3. LeadsTo(Append(Append(t, e), f), c)
    BY <1>1, <1>2, TrailGrows
  <1>4. t \o <<e, f>> = Append(Append(t, e), f)
    BY <1>1
  <1> QED
    BY <1>3, <1>4 DEF e, f

\* Every step leads the trail to the task's new status.
LEMMA TrailStep ==
  ASSUME IInv, LeadsTo(trail, status), [Next]_vars
  PROVE  LeadsTo(trail', status')
  <1> USE DEF IInv
  <1>1. CASE UNCHANGED <<status, trail>>
    BY <1>1
  <1>2. CASE CreateTask
    BY <1>2, MoveToLeads, TransitionTargets DEF CreateTask, Lawful
  <1>3. ASSUME NEW u \in Users, NEW key \in DraftKeys, NEW payload \in Payloads,
               CreateInitialDraft(u, key, payload)
        PROVE  LeadsTo(trail', status')
    <2>1. /\ status \in Statuses /\ status # "absent" /\ trail \in Seq(Event)
          /\ Lawful([before |-> status, after |-> "pending_review"])
          /\ Lawful([before |-> "pending_review", after |-> "pending_review"])
      BY <1>3 DEF CreateInitialDraft, Lawful, TypeOK
    <2>2. LeadsTo(trail \o <<[before |-> status, after |-> "pending_review"],
                             [before |-> "pending_review", after |-> "pending_review"]>>,
                  "pending_review")
      BY <2>1, TrailGrowsTwice, TransitionTargets
    <2> QED
      BY <1>3, <2>2 DEF CreateInitialDraft
  <1>4. ASSUME NEW u \in Users, NEW key \in DraftKeys, NEW payload \in Payloads,
               EditDraft(u, key, payload)
        PROVE  LeadsTo(trail', status')
    <2>1. CASE status = "approved"
      <3>1. /\ status' = "pending_review"
            /\ trail' = trail \o <<[before |-> "approved", after |-> "pending_review"],
                                   [before |-> "pending_review", after |-> "pending_review"]>>
        BY <1>4, <2>1 DEF EditDraft
      <3>2. /\ Lawful([before |-> "approved", after |-> "pending_review"])
            /\ Lawful([before |-> "pending_review", after |-> "pending_review"])
        BY DEF Lawful, CanTransition, Transitions
      <3>3. trail \in Seq(Event) /\ LeadsTo(trail, "approved")
        BY <2>1 DEF TypeOK
      <3> QED
        BY <3>1, <3>2, <3>3, TrailGrowsTwice, TransitionTargets
    <2>2. CASE status # "approved"
      <3>1. /\ status' = status
            /\ trail' = Append(trail, [before |-> status, after |-> status])
        BY <1>4, <2>2 DEF EditDraft
      <3>2. /\ status # "absent" /\ [before |-> status, after |-> status] \in Event
            /\ Lawful([before |-> status, after |-> status])
        BY <1>4 DEF EditDraft, TypeOK, Event, Lawful
      <3> QED
        BY <3>1, <3>2, TrailGrows DEF TypeOK
    <2> QED
      BY <2>1, <2>2
  <1>5. ASSUME NEW u \in Users, NEW key \in ReviewKeys,
               NEW decision \in {"approved", "rejected"}, Decide(u, key, decision)
        PROVE  LeadsTo(trail', status')
    <2>1. Lawful([before |-> status, after |-> decision])
      BY <1>5 DEF Decide, Lawful, CanTransition, Transitions
    <2> QED
      BY <1>5, <2>1, MoveToLeads, TransitionTargets DEF Decide
  <1>6. ASSUME NEW u \in Users, Cancel(u)
        PROVE  LeadsTo(trail', status')
    <2>1. Lawful([before |-> status, after |-> "cancelled"])
      BY <1>6 DEF Cancel, Lawful
    <2> QED
      BY <1>6, <2>1, MoveToLeads, TransitionTargets DEF Cancel
  <1>7. ASSUME NEW s \in Sessions, NEW key, NEW retry \in BOOLEAN, Prepare(s, key, retry)
        PROVE  LeadsTo(trail', status')
    <2> DEFINE queued == <<[before |-> status, after |-> "execution_queued"],
                           [before |-> "execution_queued", after |-> "executing"]>>
    <2>1. status \in {"approved", "execution_failed"} /\ status' = "executing"
      BY <1>7 DEF Prepare, CanPrepare, CanExecute
    <2>2. /\ Lawful([before |-> status, after |-> status])
          /\ Lawful([before |-> status, after |-> "execution_queued"])
          /\ Lawful([before |-> "execution_queued", after |-> "executing"])
      BY <2>1 DEF Lawful, CanTransition, Transitions
    <2>3. status \in Statuses /\ trail \in Seq(Event)
      BY DEF TypeOK
    <2>4. \A t \in Seq(Event) : LeadsTo(t, status) => LeadsTo(t \o queued, "executing")
      BY <2>2, <2>3, TrailGrowsTwice, TransitionTargets
    <2>5. CASE ~retry
      <3>1. trail' = trail \o queued
        BY <1>7, <2>3, <2>5 DEF Prepare, StartEvents
      <3> QED
        BY <2>1, <2>3, <2>4, <3>1
    <2>6. CASE retry
      <3> DEFINE again == [before |-> status, after |-> status]
      <3>1. trail' = trail \o (<<again>> \o queued)
        BY <1>7, <2>6 DEF Prepare, StartEvents
      <3>2. again \in Event /\ queued \in Seq(Event)
        BY <2>3, TransitionTargets DEF Event
      <3>3. Append(trail, again) \in Seq(Event) /\ LeadsTo(Append(trail, again), status)
        BY <2>1, <2>2, <2>3, <3>2, TrailGrows
      <3>4. trail \o (<<again>> \o queued) = Append(trail, again) \o queued
        <4> HIDE DEF again, queued
        <4> QED
          BY <2>3, <3>2
      <3> QED
        BY <2>1, <2>4, <3>1, <3>3, <3>4
    <2> QED
      BY <2>5, <2>6
  <1>8. ASSUME NEW s \in Sessions, FinalizeSuccess(s) \/ FinalizeFailure(s)
        PROVE  LeadsTo(trail', status')
    <2>1. /\ status = "executing"
          /\ MoveTo("draft_written") \/ MoveTo("execution_failed")
      BY <1>8 DEF FinalizeSuccess, FinalizeFailure, OwnsRunningAttempt
    <2>2. /\ Lawful([before |-> status, after |-> "draft_written"])
          /\ Lawful([before |-> status, after |-> "execution_failed"])
      BY <2>1 DEF Lawful, CanTransition, Transitions
    <2> QED
      BY <2>1, <2>2, MoveToLeads, TransitionTargets
  <1>9. ASSUME NEW u \in Users, UserStep(u)
        PROVE  LeadsTo(trail', status')
    BY <1>1, <1>3, <1>4, <1>5, <1>6, <1>9 DEF UserStep, ReadTask, ReadLatestDraft, taskVars
  <1>10. ASSUME NEW s \in Sessions, SessionStep(s)
         PROVE  LeadsTo(trail', status')
    BY <1>1, <1>7, <1>8, <1>10 DEF SessionStep, Execute, PrepareRetry, Respond, ValidateRetry,
       RefuseRetry, CallPort, Abandon, taskVars
  <1> QED
    BY <1>1, <1>2, <1>9, <1>10 DEF Next, vars

\* The audit trail replays the task's life: no gap, no change of state that the
\* state machine lacks, and its end is the status of the row
\* (updateTaskStatusRevisionTx and appendAuditEventTx in every service).
THEOREM TrailReplays == Spec => []AuditTrailReplays
  <1>1. Init => LeadsTo(trail, status)
    BY DEF Init, LeadsTo
  <1>2. IInv /\ LeadsTo(trail, status) /\ [Next]_vars => LeadsTo(trail, status)'
    BY TrailStep
  <1>3. IInv /\ LeadsTo(trail, status) => AuditTrailReplays
    BY DEF LeadsTo, Lawful, AuditTrailReplays
  <1> QED
    BY <1>1, <1>2, <1>3, Inductive, PTL DEF Spec

-------------------------------------------------------------------------------
(* Drafts are written once and edited one after the other *)

\* Nothing was executed with success yet.
Unwritten ==
  /\ \A i \in DOMAIN attempts : attempts[i].status # "succeeded"
  /\ \A v \in DOMAIN drafts : drafts[v].status # "written"

LEMMA UnwrittenOrDone ==
  /\ WrittenOnce /\ status # "draft_written" => Unwritten
  /\ status # "draft_written" /\ Unwritten => WrittenOnce
  BY DEF WrittenOnce, Unwritten

\* A success ends the task: the newest attempt succeeds and its draft is
\* marked.
LEMMA SuccessWrites ==
  ASSUME IInv, WrittenOnce, NEW s \in Sessions, FinalizeSuccess(s)
  PROVE  WrittenOnce'
  <1> DEFINE a == session[s].attempt
             v == attempts[a].version
  <1>1. /\ a \in DOMAIN attempts /\ a = Len(attempts) /\ status = "executing"
    BY DEF FinalizeSuccess, OwnsRunningAttempt, SessionOwns, InFlight, IInv, TypeOK
  <1>2. v \in DOMAIN drafts
    BY <1>1 DEF IInv, AttemptsBind, ApprovalsBind
  <1>3. Unwritten
    BY <1>1, UnwrittenOrDone
  <1>4. /\ attempts' = [attempts EXCEPT ![a].status = "succeeded"]
        /\ drafts' = [drafts EXCEPT ![v].status = "written"]
        /\ status' = "draft_written"
    BY DEF FinalizeSuccess, Written, MoveTo
  <1>5. /\ DOMAIN attempts' = DOMAIN attempts /\ Len(attempts') = Len(attempts)
        /\ attempts'[a].status = "succeeded" /\ attempts'[a].version = v
        /\ \A i \in DOMAIN attempts : i # a => attempts'[i] = attempts[i]
    BY <1>1, <1>4, RowTypes DEF IInv, TypeOK, Attempt
  <1>6. /\ DOMAIN drafts' = DOMAIN drafts /\ drafts'[v].status = "written"
        /\ \A w \in DOMAIN drafts : w # v => drafts'[w] = drafts[w]
    BY <1>2, <1>4, RowTypes DEF IInv, TypeOK, Draft
  <1> HIDE DEF a, v
  <1> QED
    BY <1>1, <1>2, <1>3, <1>4, <1>5, <1>6 DEF WrittenOnce, Unwritten

\* Every other step writes nothing, and none leads out of a task that is done.
LEMMA WrittenStep ==
  ASSUME IInv, WrittenOnce, [Next]_vars
  PROVE  WrittenOnce'
  <1>1. CASE UNCHANGED <<status, attempts, drafts>>
    BY <1>1 DEF WrittenOnce
  <1>2. ASSUME status # "draft_written" /\ UNCHANGED <<attempts, drafts>>,
               status' # "draft_written"
        PROVE  WrittenOnce'
    BY <1>2, UnwrittenOrDone DEF Unwritten, WrittenOnce
  <1>3. CASE CreateTask
    BY <1>2, <1>3 DEF CreateTask, MoveTo
  <1>4. ASSUME NEW u \in Users, NEW key \in DraftKeys, NEW payload \in Payloads,
               CreateInitialDraft(u, key, payload) \/ EditDraft(u, key, payload)
        PROVE  WrittenOnce'
    <2>1. /\ status # "draft_written" /\ status' # "draft_written" /\ attempts' = attempts
          /\ \E b : drafts' = Append(drafts, [payload |-> payload, key |-> key, base |-> b,
                                              status |-> "pending_review"])
      <3>1. CASE CreateInitialDraft(u, key, payload)
        <4>1. /\ status # "draft_written" /\ status' = "pending_review"
              /\ attempts' = attempts /\ drafts = <<>>
              /\ drafts' = <<[payload |-> payload, key |-> key, base |-> 0,
                              status |-> "pending_review"]>>
          BY <3>1 DEF CreateInitialDraft, IsTerminal
        <4>2. drafts' = Append(drafts, [payload |-> payload, key |-> key, base |-> 0,
                                        status |-> "pending_review"])
          BY <4>1
        <4> QED
          BY <4>1, <4>2
      <3>2. CASE EditDraft(u, key, payload)
        BY <3>2 DEF EditDraft, IsTerminal
      <3> QED
        BY <1>4, <3>1, <3>2
    <2>2. PICK b : drafts' = Append(drafts, [payload |-> payload, key |-> key, base |-> b,
                                             status |-> "pending_review"])
      BY <2>1
    <2> DEFINE row == [payload |-> payload, key |-> key, base |-> b,
                       status |-> "pending_review"]
    <2>3. row.status = "pending_review" /\ drafts' = Append(drafts, row)
      BY <2>2
    <2> HIDE DEF row
    <2>4. \A v \in DOMAIN drafts' : \/ v \in DOMAIN drafts /\ drafts'[v] = drafts[v]
                                    \/ drafts'[v] = row
      BY <2>3 DEF IInv, TypeOK
    <2> QED
      BY <2>1, <2>3, <2>4, UnwrittenOrDone DEF Unwritten, WrittenOnce
  <1>5. ASSUME NEW u \in Users, NEW key \in ReviewKeys,
               NEW decision \in {"approved", "rejected"}, Decide(u, key, decision)
        PROVE  WrittenOnce'
    BY <1>2, <1>5 DEF Decide, MoveTo
  <1>6. ASSUME NEW u \in Users, Cancel(u)
        PROVE  WrittenOnce'
    BY <1>2, <1>6 DEF Cancel, MoveTo, CanTransition, Transitions
  <1>7. ASSUME NEW s \in Sessions, NEW key, NEW retry, Prepare(s, key, retry)
        PROVE  WrittenOnce'
    <2> DEFINE row == [key |-> key, version |-> Latest, payload |-> drafts[Latest].payload,
                       approval |-> LatestApproval, status |-> "running", error |-> "none"]
    <2>1. /\ status # "draft_written" /\ status' # "draft_written" /\ drafts' = drafts
          /\ attempts' = Append(attempts, row) /\ row.status = "running"
      BY <1>7 DEF Prepare, CanPrepare, CanExecute
    <2> HIDE DEF row
    <2>2. \A i \in DOMAIN attempts' : \/ i \in DOMAIN attempts /\ attempts'[i] = attempts[i]
                                      \/ attempts'[i] = row
      BY <2>1 DEF IInv, TypeOK
    <2> QED
      BY <2>1, <2>2, UnwrittenOrDone DEF Unwritten, WrittenOnce
  <1>8. ASSUME NEW s \in Sessions, FinalizeFailure(s)
        PROVE  WrittenOnce'
    <2> DEFINE a == session[s].attempt
    <2>1. /\ status # "draft_written" /\ status' # "draft_written" /\ drafts' = drafts
          /\ attempts' = [attempts EXCEPT ![a].status = "failed",
                                          ![a].error = session[s].outcome]
          /\ a \in DOMAIN attempts
      BY <1>8 DEF FinalizeFailure, OwnsRunningAttempt, Failed, MoveTo, SessionOwns, InFlight,
         IInv, TypeOK
    <2>2. /\ DOMAIN attempts' = DOMAIN attempts /\ attempts'[a].status = "failed"
          /\ \A i \in DOMAIN attempts : i # a => attempts'[i] = attempts[i]
      BY <2>1, RowTypes DEF IInv, TypeOK, Attempt
    <2> HIDE DEF a
    <2> QED
      BY <2>1, <2>2, UnwrittenOrDone DEF Unwritten, WrittenOnce
  <1>9. ASSUME NEW u \in Users, UserStep(u)
        PROVE  WrittenOnce'
    BY <1>1, <1>4, <1>5, <1>6, <1>9 DEF UserStep, ReadTask, ReadLatestDraft, taskVars
  <1>10. ASSUME NEW s \in Sessions, SessionStep(s)
         PROVE  WrittenOnce'
    BY <1>1, <1>7, <1>8, <1>10, SuccessWrites DEF SessionStep, Execute, PrepareRetry, Respond,
       ValidateRetry, RefuseRetry, CallPort, Abandon, taskVars
  <1> QED
    BY <1>1, <1>3, <1>9, <1>10 DEF Next, vars

\* A task is draft_written exactly when an attempt succeeded, which is the last
\* and the only one that did, and the draft marked is the one it executed
\* (finalizeSuccess; every other service asks whether the task is terminal).
THEOREM WrittenByOne == Spec => []WrittenOnce
  <1>1. Init => WrittenOnce
    BY DEF Init, WrittenOnce
  <1>2. IInv /\ WrittenOnce /\ [Next]_vars => WrittenOnce'
    BY WrittenStep
  <1> QED
    BY <1>1, <1>2, Inductive, PTL DEF Spec

\* A page whose revision is the task's shows the latest draft, if it shows one:
\* although it reads the draft after the row, no draft comes without a revision.
PagesAreWhole ==
  \A u \in Users : /\ view[u].revision <= revision
                   /\ view[u].revision = revision /\ view[u].version # 0 =>
                        view[u].version = Len(drafts)

EditInv == PagesAreWhole /\ NoLostEdit

LEMMA EditStep ==
  ASSUME IInv, EditInv, [Next]_vars
  PROVE  EditInv'
  <1>t. /\ revision \in Nat /\ Len(drafts) \in Nat
        /\ \A u \in Users : view[u].revision \in Nat /\ view[u].version \in Nat
    BY DEF IInv, TypeOK, View
  <1>1. ASSUME UNCHANGED <<view, drafts>>,
               revision' \in Nat, revision' >= revision
        PROVE  EditInv'
    BY <1>1, <1>t DEF EditInv, PagesAreWhole, NoLostEdit
  <1>2. ASSUME NEW u \in Users, NEW key \in DraftKeys, NEW payload \in Payloads,
               NEW b \in Nat, b = Len(drafts),
               drafts' = Append(drafts, [payload |-> payload, key |-> key, base |-> b,
                                         status |-> "pending_review"]),
               revision' = revision + 1, view' = view
        PROVE  EditInv'
    <2> DEFINE row == [payload |-> payload, key |-> key, base |-> b,
                       status |-> "pending_review"]
    <2>1. drafts' = Append(drafts, row) /\ row.base = Len(drafts)
      BY <1>2
    <2> HIDE DEF row
    <2>2. \A v \in DOMAIN drafts' : \/ v \in DOMAIN drafts /\ drafts'[v] = drafts[v]
                                    \/ v = Len(drafts) + 1 /\ drafts'[v] = row
      BY <2>1 DEF IInv, TypeOK
    <2>3. NoLostEdit'
      BY <1>t, <2>1, <2>2 DEF EditInv, NoLostEdit
    <2>4. PagesAreWhole'
      BY <1>2, <1>t DEF EditInv, PagesAreWhole
    <2> QED
      BY <2>3, <2>4 DEF EditInv
  <1>3. ASSUME NEW u \in Users, NEW key \in DraftKeys, NEW payload \in Payloads,
               CreateInitialDraft(u, key, payload)
        PROVE  EditInv'
    <2>1. /\ drafts = <<>> /\ revision' = revision + 1 /\ view' = view
          /\ drafts' = <<[payload |-> payload, key |-> key, base |-> 0,
                          status |-> "pending_review"]>>
      BY <1>3 DEF CreateInitialDraft
    <2>2. Len(drafts) = 0
      BY <2>1
    <2>3. drafts' = Append(drafts, [payload |-> payload, key |-> key, base |-> 0,
                                    status |-> "pending_review"])
      BY <2>1
    <2> QED
      BY <1>2, <2>1, <2>2, <2>3
  <1>4. ASSUME NEW u \in Users, NEW key \in DraftKeys, NEW payload \in Payloads,
               EditDraft(u, key, payload)
        PROVE  EditInv'
    <2>1. /\ drafts' = Append(drafts, [payload |-> payload, key |-> key,
                                       base |-> view[u].version,
                                       status |-> "pending_review"])
          /\ view[u].revision = revision /\ view[u].version # 0
          /\ revision' = revision + 1 /\ view' = view
      BY <1>4 DEF EditDraft, RevisionMatches
    <2>2. view[u].version = Len(drafts)
      BY <2>1 DEF EditInv, PagesAreWhole
    <2> QED
      BY <1>2, <1>t, <2>1, <2>2
  <1>5. ASSUME NEW u \in Users, ReadTask(u)
        PROVE  EditInv'
    <2>1. /\ UNCHANGED <<drafts, revision>>
          /\ \A w \in Users : \/ view'[w] = view[w]
                              \/ view'[w].revision = revision /\ view'[w].version = 0
      BY <1>5 DEF ReadTask, taskVars, IInv, TypeOK
    <2> QED
      BY <1>t, <2>1 DEF EditInv, PagesAreWhole, NoLostEdit
  <1>6. ASSUME NEW u \in Users, ReadLatestDraft(u)
        PROVE  EditInv'
    <2>1. /\ UNCHANGED <<drafts, revision>>
          /\ \A w \in Users : \/ view'[w] = view[w]
                              \/ /\ view'[w].revision = view[w].revision
                                 /\ view'[w].version = Len(drafts)
      BY <1>6 DEF ReadLatestDraft, taskVars, Latest, IInv, TypeOK, View
    <2> QED
      BY <1>t, <2>1 DEF EditInv, PagesAreWhole, NoLostEdit
  <1>7. ASSUME NEW u \in Users, NEW key \in ReviewKeys,
               NEW decision \in {"approved", "rejected"}, Decide(u, key, decision)
        PROVE  EditInv'
    BY <1>1, <1>7, <1>t DEF Decide, MoveTo
  <1>8. ASSUME CreateTask \/ \E u \in Users : Cancel(u)
        PROVE  EditInv'
    BY <1>1, <1>8, <1>t DEF CreateTask, Cancel, MoveTo
  <1>9. ASSUME NEW s \in Sessions, NEW key, NEW retry, Prepare(s, key, retry)
        PROVE  EditInv'
    BY <1>1, <1>9, <1>t DEF Prepare
  <1>10. ASSUME NEW s \in Sessions, FinalizeFailure(s)
         PROVE  EditInv'
    BY <1>1, <1>10, <1>t DEF FinalizeFailure, MoveTo
  <1>11. ASSUME NEW s \in Sessions, FinalizeSuccess(s)
         PROVE  EditInv'
    <2> DEFINE v == attempts[session[s].attempt].version
    <2>1. /\ drafts' = [drafts EXCEPT ![v].status = "written"]
          /\ revision' = revision + 1 /\ view' = view
      BY <1>11 DEF FinalizeSuccess, Written, MoveTo
    <2> HIDE DEF v
    <2>2. Len(drafts') = Len(drafts) /\ DOMAIN drafts' = DOMAIN drafts
      BY <2>1 DEF IInv, TypeOK
    <2>3. \A w \in DOMAIN drafts : drafts'[w].base = drafts[w].base
      BY <2>1, RowTypes DEF IInv, TypeOK, Draft
    <2> QED
      BY <1>t, <2>1, <2>2, <2>3 DEF EditInv, PagesAreWhole, NoLostEdit
  <1>12. CASE UNCHANGED <<view, drafts, revision>>
    BY <1>1, <1>12, <1>t
  <1>13. ASSUME NEW u \in Users, UserStep(u)
         PROVE  EditInv'
    BY <1>3, <1>4, <1>5, <1>6, <1>7, <1>8, <1>13 DEF UserStep
  <1>14. ASSUME NEW s \in Sessions, SessionStep(s)
         PROVE  EditInv'
    BY <1>9, <1>10, <1>11, <1>12, <1>14 DEF SessionStep, Execute, PrepareRetry, Respond,
       ValidateRetry, RefuseRetry, CallPort, Abandon, taskVars
  <1> QED
    BY <1>8, <1>12, <1>13, <1>14 DEF Next, vars

\* Each version of the draft is an edit of the version before it, although the
\* page the author edits is put together from two reads (EditDraft, detail).
THEOREM EditsAreSequential == Spec => []NoLostEdit
  <1>1. Init => EditInv
    BY DEF Init, EditInv, PagesAreWhole, NoLostEdit
  <1>2. IInv /\ EditInv /\ [Next]_vars => EditInv'
    BY EditStep
  <1>3. EditInv => NoLostEdit
    BY DEF EditInv
  <1> QED
    BY <1>1, <1>2, <1>3, Inductive, PTL DEF Spec

-------------------------------------------------------------------------------
(* Requests one at a time *)

OneAtATime == \A r, s \in Sessions : r = s

\* The task has not been executed before, or that is what its status says.
AttemptsShow ==
  attempts # <<>> => status \in {"executing", "draft_written", "execution_failed", "cancelled"}

\* What validateRetry has seen is still so.
ValidatedMayRetry ==
  \A s \in Sessions : session[s].pc = "validated" =>
    attempts # <<>> /\ LastFailureRetryable /\ RetriesLeft

SerialInv == AttemptsShow /\ ValidatedMayRetry /\ RetryLimit /\ FinalFailureIsFinal

\* A request that starts has room for one more attempt, and follows no failure
\* that is final.
LEMMA SerialPrepare ==
  ASSUME IInv, SerialInv, OneAtATime, NEW s \in Sessions, NEW key, NEW retry \in BOOLEAN,
         Prepare(s, key, retry), retry => session[s].pc = "validated"
  PROVE  SerialInv'
  <1> DEFINE row == [key |-> key, version |-> Latest, payload |-> drafts[Latest].payload,
                     approval |-> LatestApproval, status |-> "running", error |-> "none"]
             n == Len(attempts) + 1
  <1>1. /\ attempts' = Append(attempts, row) /\ row.error = "none" /\ status' = "executing"
        /\ session' = [session EXCEPT ![s] = [Idle EXCEPT !.pc = "prepared", !.attempt = n]]
        /\ IF retry THEN status = "execution_failed" ELSE status = "approved"
    BY DEF Prepare, CanPrepare, CanExecute
  <1> HIDE DEF row
  <1>2. /\ Len(attempts) \in Nat /\ Len(attempts') = n /\ DOMAIN attempts = 1..Len(attempts)
        /\ DOMAIN attempts' = 1..n /\ attempts'[n] = row
        /\ \A i \in DOMAIN attempts : attempts'[i] = attempts[i]
    BY <1>1 DEF IInv, TypeOK
  <1>3. \A r \in Sessions : session'[r].pc = "prepared"
    BY <1>1 DEF OneAtATime, IInv, TypeOK, Idle
  <1>4. /\ n <= MaxManualRetryAttempts + 1
        /\ \A i \in DOMAIN attempts : attempts[i].error # "final"
    <2>1. CASE retry
      <3>1. LastFailureRetryable /\ RetriesLeft
        BY <2>1 DEF SerialInv, ValidatedMayRetry
      <3> QED
        BY <1>2, <3>1, RetryAssumption
           DEF LastFailureRetryable, RetriesLeft, SerialInv, FinalFailureIsFinal
    <2>2. CASE ~retry
      <3>1. attempts = <<>>
        BY <1>1, <2>2 DEF SerialInv, AttemptsShow
      <3> QED
        BY <3>1, RetryAssumption
    <2> QED
      BY <2>1, <2>2
  <1>5. AttemptsShow'
    BY <1>1 DEF AttemptsShow
  <1>6. ValidatedMayRetry'
    BY <1>3 DEF ValidatedMayRetry
  <1>7. RetryLimit'
    BY <1>2, <1>4 DEF RetryLimit
  <1>8. FinalFailureIsFinal'
    BY <1>1, <1>2, <1>4 DEF FinalFailureIsFinal
  <1> QED
    BY <1>5, <1>6, <1>7, <1>8 DEF SerialInv

\* A request that ends leaves none validated, and fails the newest attempt.
LEMMA SerialFinalize ==
  ASSUME IInv, SerialInv, OneAtATime, NEW s \in Sessions,
         FinalizeSuccess(s) \/ FinalizeFailure(s)
  PROVE  SerialInv'
  <1> DEFINE a == session[s].attempt
  <1>1. /\ a = Len(attempts) /\ a \in DOMAIN attempts
        /\ session' = [session EXCEPT ![s] = Idle]
        /\ status' \in {"draft_written", "execution_failed"}
    BY DEF FinalizeSuccess, FinalizeFailure, OwnsRunningAttempt, MoveTo, SessionOwns, InFlight,
       IInv, TypeOK
  <1>2. \/ attempts' = [attempts EXCEPT ![a].status = "succeeded"]
        \/ attempts' = [attempts EXCEPT ![a].status = "failed", ![a].error = session[s].outcome]
    BY DEF FinalizeSuccess, FinalizeFailure, Failed
  <1> HIDE DEF a
  <1>3. /\ DOMAIN attempts' = DOMAIN attempts /\ Len(attempts') = Len(attempts)
        /\ \A i \in DOMAIN attempts : i # a => attempts'[i] = attempts[i]
    BY <1>1, <1>2, RowTypes DEF IInv, TypeOK, Attempt
  <1>4. \A r \in Sessions : session'[r].pc = "idle"
    BY <1>1 DEF OneAtATime, IInv, TypeOK, Idle
  <1>5. AttemptsShow'
    BY <1>1 DEF AttemptsShow
  <1>6. ValidatedMayRetry'
    BY <1>4 DEF ValidatedMayRetry
  <1>7. RetryLimit'
    BY <1>3 DEF SerialInv, RetryLimit
  <1>8. FinalFailureIsFinal'
    BY <1>1, <1>3 DEF SerialInv, FinalFailureIsFinal
  <1> QED
    BY <1>5, <1>6, <1>7, <1>8 DEF SerialInv

LEMMA SerialStep ==
  ASSUME IInv, SerialInv, OneAtATime, [Next]_vars
  PROVE  SerialInv'
  <1>1. ASSUME UNCHANGED <<attempts, session>>, attempts = <<>> \/ status' = status
                 \/ status' = "cancelled"
        PROVE  SerialInv'
    BY <1>1 DEF SerialInv, AttemptsShow, ValidatedMayRetry, LastFailureRetryable, RetriesLeft,
       RetryLimit, FinalFailureIsFinal
  <1>2. ASSUME NEW u \in Users, UserStep(u)
        PROVE  SerialInv'
    <2>1. UNCHANGED <<attempts, session>>
      BY <1>2, ReviewStep DEF IInv
    <2>2. attempts = <<>> \/ status' = status \/ status' = "cancelled"
      <3>1. CASE ReadTask(u) \/ ReadLatestDraft(u)
        BY <3>1 DEF ReadTask, ReadLatestDraft, taskVars
      <3>2. ASSUME NEW key \in DraftKeys, NEW payload \in Payloads,
                   CreateInitialDraft(u, key, payload)
            PROVE  attempts = <<>>
        BY <3>2 DEF CreateInitialDraft, CanStartReview, CanTransition, Transitions, SerialInv,
           AttemptsShow, IsTerminal
      <3>3. ASSUME NEW key \in DraftKeys, NEW payload \in Payloads, EditDraft(u, key, payload)
            PROVE  attempts = <<>> \/ status' = status
        BY <3>3 DEF EditDraft, SerialInv, AttemptsShow
      <3>4. ASSUME NEW key \in ReviewKeys, NEW decision \in {"approved", "rejected"},
                   Decide(u, key, decision)
            PROVE  attempts = <<>>
        BY <3>4 DEF Decide, SerialInv, AttemptsShow
      <3>5. CASE Cancel(u)
        BY <3>5 DEF Cancel, MoveTo
      <3> QED
        BY <1>2, <3>1, <3>2, <3>3, <3>4, <3>5 DEF UserStep
    <2> QED
      BY <1>1, <2>1, <2>2
  <1>3. CASE CreateTask
    <2>1. attempts = <<>> /\ UNCHANGED <<attempts, session>>
      BY <1>3 DEF CreateTask, SerialInv, AttemptsShow
    <2> QED
      BY <1>1, <2>1
  <1>4. CASE UNCHANGED vars
    BY <1>1, <1>4 DEF vars
  <1>5. ASSUME NEW s \in Sessions, SessionStep(s)
        PROVE  SerialInv'
    <2>1. ASSUME NEW key \in ExecKeys, Execute(s, key)
          PROVE  SerialInv'
      BY <2>1, SerialPrepare DEF Execute
    <2>2. CASE PrepareRetry(s)
      BY <2>2, SerialPrepare DEF PrepareRetry
    <2>3. CASE FinalizeSuccess(s) \/ FinalizeFailure(s)
      BY <2>3, SerialFinalize
    <2>4. ASSUME UNCHANGED <<status, attempts>>,
                 \A r \in Sessions : session'[r].pc = "validated" =>
                   attempts # <<>> /\ LastFailureRetryable /\ RetriesLeft
          PROVE  SerialInv'
      BY <2>4 DEF SerialInv, AttemptsShow, ValidatedMayRetry, LastFailureRetryable, RetriesLeft,
         RetryLimit, FinalFailureIsFinal
    <2>5. ASSUME NEW key \in ExecKeys, ValidateRetry(s, key)
          PROVE  SerialInv'
      <3>1. UNCHANGED <<status, attempts>> /\ attempts # <<>> /\ LastFailureRetryable /\ RetriesLeft
        BY <2>5 DEF ValidateRetry, taskVars
      <3> QED
        BY <2>4, <3>1
    <2>6. CASE RefuseRetry(s) \/ Abandon(s)
      <3>1. UNCHANGED <<status, attempts>> /\ session' = [session EXCEPT ![s] = Idle]
        BY <2>6 DEF RefuseRetry, Abandon, taskVars
      <3>2. \A r \in Sessions : session'[r].pc = "idle"
        BY <3>1 DEF OneAtATime, IInv, TypeOK, Idle
      <3> QED
        BY <2>4, <3>1, <3>2
    <2>7. ASSUME NEW outcome \in Outcomes, CallPort(s, outcome)
          PROVE  SerialInv'
      <3>1. UNCHANGED <<status, attempts>> /\ session'[s].pc = "responded"
        BY <2>7 DEF CallPort, taskVars, IInv, TypeOK, Session
      <3>2. \A r \in Sessions : session'[r].pc = "responded"
        BY <3>1 DEF OneAtATime
      <3> QED
        BY <2>4, <3>1, <3>2
    <2> QED
      BY <1>5, <2>1, <2>2, <2>3, <2>5, <2>6, <2>7 DEF SessionStep, Respond
  <1> QED
    BY <1>2, <1>3, <1>4, <1>5 DEF Next

\* As long as requests for a task come one at a time, the limits of
\* ManualRetryService are kept: no more than MaxManualRetryAttempts retries, and
\* none after a failure that is final. (With two at a time they are not, since
\* prepare does not check again what validateRetry has seen.)
THEOREM SerialRetriesAreLimited ==
  OneAtATime /\ Spec => [](RetryLimit /\ FinalFailureIsFinal)
  <1>1. Init => SerialInv
    BY RetryAssumption
       DEF Init, SerialInv, AttemptsShow, ValidatedMayRetry, RetryLimit, FinalFailureIsFinal, Idle
  <1>2. OneAtATime /\ IInv /\ SerialInv /\ [Next]_vars => SerialInv'
    BY SerialStep
  <1>3. SerialInv => RetryLimit /\ FinalFailureIsFinal
    BY DEF SerialInv
  <1>4. CASE OneAtATime
    BY <1>1, <1>2, <1>3, <1>4, Inductive, PTL DEF Spec
  <1>5. CASE ~OneAtATime
    BY <1>5
  <1> QED
    BY <1>4, <1>5

-------------------------------------------------------------------------------
(* Refinement *)

Cleared == {approvals[i].version : i \in ApprovedRows}
Delivered == {calls[c].version : c \in DOMAIN calls}

\* While an attempt is running, it is the newest and its version is a draft's.
LEMMA RunningIsNewest ==
  ASSUME IInv
  PROVE  /\ HasActiveAttempt => /\ Len(attempts) \in DOMAIN attempts
                                /\ attempts[Len(attempts)].status = "running"
                                /\ RunningVersion = attempts[Len(attempts)].version
                                /\ RunningVersion \in DOMAIN drafts
                                /\ RunningVersion # 0
         /\ ~HasActiveAttempt => RunningVersion = 0
  <1>1. ASSUME HasActiveAttempt
        PROVE  /\ Len(attempts) \in DOMAIN attempts
               /\ attempts[Len(attempts)].status = "running"
    BY <1>1 DEF IInv, ExecutingIffOneRunning, HasActiveAttempt, TypeOK
  <1>2. ASSUME HasActiveAttempt
        PROVE  RunningVersion = attempts[Len(attempts)].version
    BY <1>2 DEF RunningVersion
  <1>3. ASSUME HasActiveAttempt
        PROVE  RunningVersion \in DOMAIN drafts
    BY <1>1, <1>2, <1>3 DEF IInv, AttemptsBind, ApprovalsBind
  <1>4. ASSUME HasActiveAttempt PROVE RunningVersion # 0
    BY <1>3, <1>4 DEF IInv, TypeOK
  <1> QED
    BY <1>1, <1>2, <1>3, <1>4 DEF RunningVersion

\* Reviewing actions propose, clear or do nothing.
LEMMA ReviewRefines ==
  ASSUME IInv, IInv', [Next]_vars,
         CreateTask \/ (\E u \in Users : UserStep(u)) \/ UNCHANGED vars
  PROVE  Gate!Propose \/ Gate!Clear \/ UNCHANGED Gate!vars
  <1>1. /\ RunningVersion' = RunningVersion
        /\ Delivered' = Delivered
    BY ReviewStep DEF IInv, RunningVersion, HasActiveAttempt, Delivered
  <1>2. CASE UNCHANGED <<drafts, approvals>>
    BY <1>1, <1>2 DEF Gate!vars, ApprovedRows, Delivered
  <1>3. ASSUME NEW u \in Users, NEW key \in DraftKeys, NEW payload \in Payloads,
               CreateInitialDraft(u, key, payload) \/ EditDraft(u, key, payload)
        PROVE  Gate!Propose
    <2>1. Len(drafts') = Len(drafts) + 1 /\ approvals' = approvals
      <3>1. CASE CreateInitialDraft(u, key, payload)
        BY <3>1 DEF CreateInitialDraft
      <3>2. CASE EditDraft(u, key, payload)
        BY <3>2 DEF EditDraft, IInv, TypeOK
      <3> QED
        BY <1>3, <3>1, <3>2
    <2> QED
      BY <1>1, <2>1 DEF Gate!Propose, ApprovedRows, Delivered
  <1>4. ASSUME NEW u \in Users, NEW key \in ReviewKeys,
               NEW decision \in {"approved", "rejected"}, Decide(u, key, decision)
        PROVE  Gate!Clear \/ UNCHANGED Gate!vars
    <2> DEFINE row == [decision |-> decision, version |-> Latest,
                       payload |-> drafts[Latest].payload, key |-> key,
                       seen |-> view[u].version]
               n == Len(approvals) + 1
    <2>1. /\ approvals' = Append(approvals, row)
          /\ row.decision = decision
          /\ row.version = Len(drafts)
          /\ drafts' = drafts
          /\ Len(drafts) > 0
      BY <1>4 DEF Decide, PageIsCurrent, Latest, IInv, TypeOK, View
    <2>2. /\ DOMAIN approvals' = DOMAIN approvals \union {n}
          /\ n \notin DOMAIN approvals
          /\ \A i \in DOMAIN approvals : approvals'[i] = approvals[i]
          /\ approvals'[n].decision = decision
          /\ approvals'[n].version = Len(drafts)
      <3> HIDE DEF row
      <3> QED
        BY <2>1 DEF IInv, TypeOK
    <2> HIDE DEF row, n
    <2>3. CASE decision = "approved"
      <3>1. ApprovedRows' = ApprovedRows \union {n}
        BY <2>2, <2>3 DEF ApprovedRows
      <3>2. Cleared' = Cleared \union {Len(drafts)}
        BY <2>2, <3>1 DEF Cleared, ApprovedRows
      <3> QED
        BY <1>1, <2>1, <3>2 DEF Gate!Clear, Cleared, Delivered
    <2>4. CASE decision = "rejected"
      <3>1. ApprovedRows' = ApprovedRows
        BY <2>2, <2>4 DEF ApprovedRows
      <3>2. Cleared' = Cleared
        BY <2>2, <3>1 DEF Cleared, ApprovedRows
      <3> QED
        BY <1>1, <2>1, <3>2 DEF Gate!vars, Cleared, Delivered
    <2> QED
      BY <2>3, <2>4
  <1> QED
    BY <1>2, <1>3, <1>4 DEF UserStep, CreateTask, ReadTask, ReadLatestDraft, Cancel, vars

\* Prepare begins an execution of the newest version, which is cleared.
LEMMA PrepareRefines ==
  ASSUME IInv, IInv', NEW s \in Sessions, NEW key \in ExecKeys, NEW retry \in BOOLEAN,
         Prepare(s, key, retry)
  PROVE  Gate!Begin
  <1> DEFINE row == [key |-> key, version |-> Latest, payload |-> drafts[Latest].payload,
                     approval |-> LatestApproval, status |-> "running", error |-> "none"]
  <1>1. /\ attempts' = Append(attempts, row)
        /\ row.status = "running"
        /\ row.version = Len(drafts)
        /\ UNCHANGED <<drafts, approvals, calls>>
    BY DEF Prepare, Latest
  <1>2. /\ Len(attempts') \in DOMAIN attempts'
        /\ attempts'[Len(attempts')].status = "running"
        /\ attempts'[Len(attempts')].version = Len(drafts)
    <2> HIDE DEF row
    <2> QED
      BY <1>1 DEF IInv, TypeOK
  <1>3. RunningVersion' = Len(drafts)
    BY <1>2 DEF RunningVersion, HasActiveAttempt
  <1>4. RunningVersion = 0
    BY DEF Prepare, CanPrepare, RunningVersion
  <1>5. Len(drafts) \in Cleared
    BY DEF Prepare, CanPrepare, ApprovalBindsLatest, Cleared, Latest
  <1> QED
    BY <1>1, <1>3, <1>4, <1>5 DEF Gate!Begin, Cleared, ApprovedRows, Delivered

\* The port call delivers the version in flight.
LEMMA CallRefines ==
  ASSUME IInv, IInv', NEW s \in Sessions, NEW outcome \in Outcomes, CallPort(s, outcome)
  PROVE  Gate!Deliver
  <1> DEFINE a == session[s].attempt
             call == [attempt |-> a, version |-> attempts[a].version,
                      payload |-> attempts[a].payload]
  <1>1. /\ calls' = Append(calls, call)
        /\ call.version = attempts[a].version
        /\ UNCHANGED <<drafts, approvals, attempts>>
    BY DEF CallPort
  <1>2. /\ a = Len(attempts)
        /\ HasActiveAttempt
    <2>1. InFlight(s)
      BY DEF CallPort, InFlight
    <2>2. status = "executing" /\ session[s].attempt = Len(attempts)
      BY <2>1 DEF IInv, SessionOwns
    <2> QED
      BY <2>2 DEF IInv, ExecutingIffOneRunning
  <1>3. call.version = RunningVersion /\ RunningVersion # 0
    BY <1>1, <1>2, RunningIsNewest
  <1>4. /\ DOMAIN calls' = DOMAIN calls \union {Len(calls) + 1}
        /\ \A c \in DOMAIN calls : calls'[c] = calls[c] /\ c # Len(calls) + 1
        /\ calls'[Len(calls) + 1] = call
    <2> HIDE DEF call
    <2> QED
      BY <1>1 DEF IInv, TypeOK
  <1>5. Delivered' = Delivered \union {RunningVersion}
    BY <1>3, <1>4 DEF Delivered
  <1>6. RunningVersion' = RunningVersion
    BY <1>1 DEF RunningVersion, HasActiveAttempt
  <1> QED
    BY <1>1, <1>3, <1>5, <1>6 DEF Gate!Deliver, Delivered, ApprovedRows

\* Finalizing ends it.
LEMMA FinalizeRefines ==
  ASSUME IInv, IInv', NEW s \in Sessions, FinalizeSuccess(s) \/ FinalizeFailure(s)
  PROVE  Gate!End
  <1>1. status = "executing" /\ status' # "executing"
    BY DEF FinalizeSuccess, FinalizeFailure, OwnsRunningAttempt, MoveTo
  <1>2. RunningVersion # 0
    BY <1>1, RunningIsNewest DEF IInv, ExecutingIffOneRunning
  <1>3. RunningVersion' = 0
    BY <1>1 DEF IInv, ExecutingIffOneRunning, RunningVersion
  <1>4. UNCHANGED <<approvals, calls>> /\ Len(drafts') = Len(drafts)
    BY DEF FinalizeSuccess, FinalizeFailure, Written, IInv, TypeOK
  <1> QED
    BY <1>2, <1>3, <1>4 DEF Gate!End, ApprovedRows

\* The subsystem implements the review gate: seen through the mapping, every
\* behaviour of the services is one of the gate.
THEOREM Refinement == Spec => ImplementsReviewGate
  <1>1. Init => Gate!Init
    <2> SUFFICES ASSUME Init PROVE Gate!Init
      OBVIOUS
    <2>1. RunningVersion = 0
      BY DEF Init, RunningVersion, HasActiveAttempt
    <2>2. Len(drafts) = 0 /\ ApprovedRows = {} /\ DOMAIN calls = {}
      BY DEF Init, ApprovedRows
    <2> QED
      BY <2>1, <2>2 DEF Gate!Init
  <1>2. IInv /\ IInv' /\ [Next]_vars => [Gate!Next]_Gate!vars
    <2> SUFFICES ASSUME IInv, IInv', [Next]_vars PROVE [Gate!Next]_Gate!vars
      OBVIOUS
    <2>1. CASE CreateTask \/ (\E u \in Users : UserStep(u)) \/ UNCHANGED vars
      BY <2>1, ReviewRefines DEF Gate!Next
    <2>2. ASSUME NEW s \in Sessions,
                 (\E key \in ExecKeys : ValidateRetry(s, key)) \/ RefuseRetry(s) \/ Abandon(s)
          PROVE  UNCHANGED Gate!vars
      BY <2>2 DEF ValidateRetry, RefuseRetry, Abandon, Gate!vars, RunningVersion,
                  HasActiveAttempt, ApprovedRows
    <2>3. ASSUME NEW s \in Sessions, SessionStep(s)
          PROVE  [Gate!Next]_Gate!vars
      BY <2>2, <2>3, PrepareRefines, CallRefines, FinalizeRefines
         DEF SessionStep, Respond, Execute, PrepareRetry, IInv, ValidatedHasKey, Gate!Next
    <2> QED
      BY <2>1, <2>3 DEF Next
  <1> QED
    BY <1>1, <1>2, Inductive, PTL DEF Spec, ImplementsReviewGate, Gate!Spec
===============================================================================
