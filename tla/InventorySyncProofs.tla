------------------------- MODULE InventorySyncProofs -------------------------
(***************************************************************************)
(* Theorems about InventorySync for every set of tasks, reapers and        *)
(* administrators, any number of workers, and every bound.                 *)
(*                                                                         *)
(* Everything rests on one habit of the code: whoever takes a row out of   *)
(* running clears locked_by in the same UPDATE (Owned). So a row that a    *)
(* worker still finds under its name and version is the one it claimed,    *)
(* and running, although its last UPDATE does not ask for the status. The  *)
(* counting is by lock_version: it grows with each claim, a claim needs a  *)
(* pending row, and a row is made pending once per request (Counted). The  *)
(* counter of deferrals is read in one call and added to in another: the   *)
(* workers between the two are counted with it (Overshoot).                *)
(***************************************************************************)
EXTENDS InventorySync, FiniteSetTheorems, TLAPS

-------------------------------------------------------------------------------
(* The inductive invariant *)

\* A row with a name on it is running.
Owned == \A t \in Tasks : row[t].owner # "none" => row[t].status = "running"

\* No more claims than requests, one fewer while a request waits for its claim;
\* and only claimed executions have reached the platform.
Counted ==
  \A t \in Tasks :
    /\ row[t].version <= asked[t]
    /\ row[t].status = "pending" => row[t].version < asked[t]
    /\ pushed[t] \subseteq 1 .. row[t].version

\* Whoever is busy is busy with a task, and an execution has a version of its own.
Busy ==
  /\ \A w \in Workers :
       /\ worker[w].pc # "idle" => worker[w].task \in Tasks
       /\ Executing(w) => worker[w].version \in 1 .. row[worker[w].task].version
  /\ \A a \in Admins : admin[a].pc # "idle" => admin[a].task \in Tasks

\* An outcome to be written is one.
Finishes ==
  \A w \in Workers : worker[w].pc \in {"done", "finishing"} => worker[w].result # "none"

\* A success to be written has been pushed.
Reached ==
  \A w \in Workers :
    worker[w].pc \in {"done", "finishing"} /\ worker[w].result = "success"
      => worker[w].version \in pushed[worker[w].task]

\* Until somebody writes over its row, an executing worker has it.
Held ==
  \A w \in Workers :
    Executing(w) /\ ~taken[worker[w].task] => Holds(w)

\* A worker that has found a counter below its limit adds one to it, whatever it has
\* become: the limit is passed by at most one for every other worker, and by what
\* failing calls read and write wrongly.
Counting(t) == {w \in Workers : worker[w].pc = "deferring" /\ worker[w].task = t}

Overshoot ==
  \A t \in Tasks :
    defers[t] + Cardinality(Counting(t)) <= MaxDefers + (Cardinality(Workers) - 1) + faults

IInv ==
  /\ TypeOK
  /\ Owned
  /\ Counted
  /\ Busy
  /\ Finishes
  /\ Reached
  /\ SuccessIsPushed
  /\ Held
  /\ Overshoot

-------------------------------------------------------------------------------
(* Types *)

LEMMA RowIsRow ==
  ASSUME NEW status \in Statuses, NEW owner \in Workers \union {"none"},
         NEW lock \in {"none", "live", "lapsed"}, NEW version \in Nat
  PROVE  /\ [status |-> status, owner |-> owner, lock |-> lock, version |-> version] \in Rows
         /\ Unlocked(status, version) \in Rows
  BY DEF Rows, Unlocked

LEMMA StatesAreStates ==
  /\ Idle \in WorkerStates
  /\ NoRequest \in AdminStates
  /\ \A pc \in Stages, t \in Tasks : [Idle EXCEPT !.pc = pc, !.task = t] \in WorkerStates
  /\ \A s \in WorkerStates, pc \in Stages, v \in Nat, res \in {"none", "success", "failed"} :
       /\ [s EXCEPT !.pc = pc] \in WorkerStates
       /\ [s EXCEPT !.pc = pc, !.version = v] \in WorkerStates
       /\ [s EXCEPT !.pc = pc, !.result = res] \in WorkerStates
  <1>1. Idle \in WorkerStates /\ NoRequest \in AdminStates
    BY DEF WorkerStates, AdminStates, Idle, NoRequest, Stages
  <1>2. \A pc \in Stages, t \in Tasks : [Idle EXCEPT !.pc = pc, !.task = t] \in WorkerStates
    BY DEF WorkerStates, Idle
  <1>3. ASSUME NEW s \in WorkerStates, NEW pc \in Stages, NEW v \in Nat,
               NEW res \in {"none", "success", "failed"}
        PROVE  /\ [s EXCEPT !.pc = pc] \in WorkerStates
               /\ [s EXCEPT !.pc = pc, !.version = v] \in WorkerStates
               /\ [s EXCEPT !.pc = pc, !.result = res] \in WorkerStates
    BY <1>3 DEF WorkerStates
  <1> QED
    BY <1>1, <1>2, <1>3

LEMMA RowType ==
  ASSUME IInv, Next
  PROVE  row' \in [Tasks -> Rows]
  <1> USE DEF IInv
  <1>0. \A t \in Tasks : /\ row[t] \in Rows /\ row[t].status \in Statuses
                         /\ row[t].owner \in Workers \union {"none"}
                         /\ row[t].lock \in {"none", "live", "lapsed"} /\ row[t].version \in Nat
    BY DEF TypeOK, Rows
  <1>1. CASE UNCHANGED row
    BY <1>1 DEF TypeOK
  <1>2. ASSUME NEW t \in Tasks, NEW new \in Rows, row' = [row EXCEPT ![t] = new]
        PROVE  row' \in [Tasks -> Rows]
    BY <1>2 DEF TypeOK
  <1>3. ASSUME NEW w \in Workers, GiveUp(w) PROVE row' \in [Tasks -> Rows]
    <2>1. \A t \in Tasks : [row[t] EXCEPT !.status = "failed"] \in Rows
      BY <1>0 DEF Rows, Statuses
    <2> QED
      BY <1>1, <1>2, <1>3, <2>1 DEF GiveUp, Busy
  <1>4. ASSUME NEW w \in Workers, Claim(w) PROVE row' \in [Tasks -> Rows]
    <2>1. \A t \in Tasks : [status |-> "running", owner |-> w, lock |-> "live",
                            version |-> row[t].version + 1] \in Rows
      BY <1>0 DEF Rows, Statuses
    <2> QED
      BY <1>1, <1>2, <1>4, <2>1 DEF Claim, Busy
  <1>5. \A t \in Tasks : [row[t] EXCEPT !.lock = "live"] \in Rows /\ [row[t] EXCEPT !.lock = "lapsed"] \in Rows
    BY <1>0 DEF Rows
  <1>6. ASSUME NEW w \in Workers, Renew(w) PROVE row' \in [Tasks -> Rows]
    BY <1>2, <1>5, <1>6 DEF Renew, Busy
  <1>7. ASSUME NEW t \in Tasks, LeaseLapses(t) \/ AbandonedLapses(t) PROVE row' \in [Tasks -> Rows]
    BY <1>2, <1>5, <1>7 DEF LeaseLapses, AbandonedLapses
  <1>8. \A t \in Tasks, status \in Statuses : Unlocked(status, row[t].version) \in Rows
    BY <1>0, RowIsRow
  <1>9. ASSUME NEW w \in Workers, Finish(w) PROVE row' \in [Tasks -> Rows]
    <2>1. CASE Holds(w)
      <3>1. worker[w].result \in Statuses
        BY <1>9, <2>1 DEF Finish, Finishes, TypeOK, WorkerStates, Statuses
      <3> QED
        BY <1>2, <1>8, <1>9, <2>1, <3>1 DEF Finish, Busy
    <2> QED
      BY <1>1, <1>9, <2>1 DEF Finish
  <1>10. ASSUME NEW t \in Tasks, NEW status \in Statuses, NEW victims, Overwrite(t, status, victims)
         PROVE  row' \in [Tasks -> Rows]
    BY <1>2, <1>8, <1>10 DEF Overwrite
  <1>11. ASSUME NEW w \in Workers, Block(w) \/ PanicWrite(w) PROVE row' \in [Tasks -> Rows]
    BY <1>10, <1>11 DEF Block, PanicWrite, Busy, Statuses
  <1>12. ASSUME NEW r \in Reapers, ReapWrite(r) PROVE row' \in [Tasks -> Rows]
    BY <1>10, <1>12 DEF ReapWrite, TypeOK, Statuses
  <1>13. ASSUME NEW a \in Admins, Reset(a) PROVE row' \in [Tasks -> Rows]
    BY <1>10, <1>13 DEF Reset, Busy, Statuses
  <1> QED
    BY <1>1, <1>3, <1>4, <1>6, <1>7, <1>9, <1>11, <1>12, <1>13
    DEF Next, WorkerStep, Take, Defer, ReadDefers, CountDefer, CounterFails, Requeue,
        DefersExpire, FailEarly, Push, Validate, Panic, Die,
        Reap, Retry, Enqueue, RunInline, Leave

LEMMA WorkerType ==
  ASSUME IInv, Next
  PROVE  worker' \in [Workers -> WorkerStates]
  <1> USE DEF IInv
  <1>0. /\ worker \in [Workers -> WorkerStates]
        /\ \A t \in Tasks : row[t].version \in Nat
        /\ {"taken", "deferring", "sleeping", "giving_up", "inline", "working", "done", "finishing",
            "panicking"} \subseteq Stages
    BY DEF TypeOK, Rows, Stages
  <1>1. CASE UNCHANGED worker
    BY <1>0, <1>1
  <1>2. ASSUME NEW w \in Workers, NEW new \in WorkerStates, worker' = [worker EXCEPT ![w] = new]
        PROVE  worker' \in [Workers -> WorkerStates]
    BY <1>0, <1>2
  <1>3. ASSUME NEW w \in Workers, NEW t \in Tasks, Take(w, t) PROVE worker' \in [Workers -> WorkerStates]
    BY <1>0, <1>2, <1>3, StatesAreStates DEF Take
  <1>4. ASSUME NEW w \in Workers, NEW a \in Admins, RunInline(a, w) PROVE worker' \in [Workers -> WorkerStates]
    BY <1>0, <1>2, <1>4, StatesAreStates DEF RunInline, Busy
  <1>5. ASSUME NEW w \in Workers,
               Defer(w) \/ GiveUp(w) \/ Block(w) \/ Finish(w) \/ PanicWrite(w) \/ Die(w)
        PROVE  worker' \in [Workers -> WorkerStates]
    <2>1. \A pc \in Stages : [worker[w] EXCEPT !.pc = pc] \in WorkerStates
      BY <1>0, StatesAreStates DEF WorkerStates
    <2> QED
      BY <1>0, <1>2, <1>5, <2>1, StatesAreStates
      DEF Defer, ReadDefers, CountDefer, CounterFails, Requeue, GiveUp, Block, Finish, PanicWrite,
          Die
  <1>6. ASSUME NEW w \in Workers, Claim(w) PROVE worker' \in [Workers -> WorkerStates]
    <2>1. row[worker[w].task].version + 1 \in Nat
      BY <1>0, <1>6 DEF Claim, Busy
    <2>2. [worker[w] EXCEPT !.pc = "working", !.version = row[worker[w].task].version + 1] \in WorkerStates
      BY <1>0, <2>1, StatesAreStates
    <2> QED
      BY <1>2, <1>6, <2>2, StatesAreStates DEF Claim
  <1>7. ASSUME NEW w \in Workers, FailEarly(w) \/ Push(w) PROVE worker' \in [Workers -> WorkerStates]
    <2>1. \A result \in {"success", "failed"} : [worker[w] EXCEPT !.pc = "done", !.result = result] \in WorkerStates
      BY <1>0, StatesAreStates
    <2> QED
      BY <1>2, <1>7, <2>1 DEF FailEarly, Push
  <1>8. ASSUME NEW w \in Workers, Validate(w) \/ Panic(w) PROVE worker' \in [Workers -> WorkerStates]
    <2>1. [worker[w] EXCEPT !.pc = "finishing"] \in WorkerStates /\ [worker[w] EXCEPT !.pc = "panicking"] \in WorkerStates
      BY <1>0, StatesAreStates
    <2> QED
      BY <1>2, <1>8, <2>1, StatesAreStates DEF Validate, Panic
  <1> QED
    BY <1>1, <1>3, <1>4, <1>5, <1>6, <1>7, <1>8
    DEF Next, WorkerStep, DefersExpire, Renew, LeaseLapses, AbandonedLapses, Reap, ReapWrite,
        Retry, Reset, Enqueue, Leave

LEMMA DeferLimitType == DeferLimit \in Nat
  <1>1. Cardinality(Workers) \in Nat \ {0}
    BY WorkersAssumption, FS_CardinalityType, FS_EmptySet
  <1> QED
    BY <1>1, BoundsAssumption DEF DeferLimit

LEMMA TypeStep ==
  ASSUME IInv, Next
  PROVE  TypeOK'
  <1> USE DEF IInv
  <1>1. queue' \in [Tasks -> Nat]
    <2>1. CASE UNCHANGED queue
      BY <2>1 DEF TypeOK
    <2>2. ASSUME NEW t \in Tasks, NEW n \in Nat, queue' = [queue EXCEPT ![t] = n]
          PROVE  queue' \in [Tasks -> Nat]
      BY <2>2 DEF TypeOK
    <2>3. ASSUME NEW w \in Workers, NEW t \in Tasks, Take(w, t) PROVE queue' \in [Tasks -> Nat]
      BY <2>2, <2>3 DEF Take, TypeOK
    <2>4. ASSUME NEW w \in Workers, Defer(w) PROVE queue' \in [Tasks -> Nat]
      BY <2>4 DEF Defer, ReadDefers, CountDefer, CounterFails, Requeue, Busy, TypeOK
    <2>5. ASSUME NEW a \in Admins, Enqueue(a) PROVE queue' \in [Tasks -> Nat]
      BY <2>5 DEF Enqueue, Busy, TypeOK
    <2>6. ASSUME NEW a \in Admins, NEW w \in Workers, RunInline(a, w) PROVE queue' \in [Tasks -> Nat]
      BY <2>6 DEF RunInline, TypeOK
    <2> QED
      BY <2>1, <2>3, <2>4, <2>5, <2>6
      DEF Next, WorkerStep, GiveUp, DefersExpire, Claim, Block, FailEarly, Push, Renew, Validate,
          Finish, Panic, PanicWrite, Die, LeaseLapses, AbandonedLapses, Reap, ReapWrite, Retry,
          Reset, Leave
  <1>2. defers' \in [Tasks -> 0 .. DeferLimit]
    <2>1. CASE UNCHANGED defers
      BY <2>1 DEF TypeOK
    <2>2. ASSUME NEW w \in Workers, CountDefer(w) PROVE defers' \in [Tasks -> 0 .. DeferLimit]
      <3>1. PICK t \in Tasks : t = worker[w].task
        BY <2>2 DEF CountDefer, Busy
      <3>2. Cardinality(Counting(t)) \in Nat \ {0}
        <4>1. Counting(t) \in SUBSET Workers /\ w \in Counting(t)
          BY <2>2, <3>1 DEF CountDefer, Counting
        <4>2. IsFiniteSet(Counting(t))
          BY <4>1, WorkersAssumption, FS_Subset
        <4> QED
          BY <4>1, <4>2, FS_CardinalityType, FS_EmptySet
      <3>3. defers[t] + Cardinality(Counting(t)) <= MaxDefers + (Cardinality(Workers) - 1) + faults
        BY DEF Overshoot
      <3>4. /\ defers[t] \in Nat /\ faults \in Nat /\ faults <= MaxFaults /\ MaxFaults \in Nat
            /\ Cardinality(Workers) \in Nat /\ MaxDefers \in Nat
        BY WorkersAssumption, FS_CardinalityType, BoundsAssumption DEF TypeOK
      <3>5. defers[t] + 1 \in 0 .. DeferLimit
        BY <3>2, <3>3, <3>4 DEF DeferLimit
      <3>6. defers' = [defers EXCEPT ![t] = defers[t] + 1]
        BY <2>2, <3>1 DEF CountDefer
      <3> QED
        BY <3>5, <3>6 DEF TypeOK
    <2>3. ASSUME NEW t \in Tasks, DefersExpire(t) PROVE defers' \in [Tasks -> 0 .. DeferLimit]
      BY <2>3, DeferLimitType DEF DefersExpire, TypeOK
    <2> QED
      BY <2>1, <2>2, <2>3
      DEF Next, WorkerStep, Take, Defer, ReadDefers, CounterFails, Requeue, GiveUp, Claim, Block,
          FailEarly, Push, Renew, Validate, Finish, Panic, PanicWrite, Die, LeaseLapses,
          AbandonedLapses, Reap, ReapWrite, Retry, Reset, Enqueue, RunInline, Leave
  <1>3. reaper' \in [Reapers -> Tasks \union {"none"}]
    BY DEF TypeOK, Next, WorkerStep, Take, Defer, ReadDefers, CountDefer, CounterFails,
       Requeue, GiveUp, DefersExpire, Claim, Block, FailEarly,
           Push, Renew, Validate, Finish, Panic, PanicWrite, Die, LeaseLapses, AbandonedLapses,
           Reap, ReapWrite, Retry, Reset, Enqueue, RunInline, Leave
  <1>4. admin' \in [Admins -> AdminStates]
    <2>1. CASE UNCHANGED admin
      BY <2>1 DEF TypeOK
    <2>2. ASSUME NEW a \in Admins, NEW new \in AdminStates, admin' = [admin EXCEPT ![a] = new]
          PROVE  admin' \in [Admins -> AdminStates]
      BY <2>2 DEF TypeOK
    <2>3. ASSUME NEW a \in Admins, NEW t \in Tasks, Retry(a, t) PROVE admin' \in [Admins -> AdminStates]
      BY <2>2, <2>3 DEF Retry, AdminStates
    <2>4. ASSUME NEW a \in Admins, Reset(a) PROVE admin' \in [Admins -> AdminStates]
      BY <2>4 DEF Reset, TypeOK, AdminStates
    <2>5. ASSUME NEW a \in Admins, Enqueue(a) \/ Leave(a) PROVE admin' \in [Admins -> AdminStates]
      BY <2>2, <2>5, StatesAreStates DEF Enqueue, Leave
    <2>6. ASSUME NEW a \in Admins, NEW w \in Workers, RunInline(a, w) PROVE admin' \in [Admins -> AdminStates]
      BY <2>2, <2>6, StatesAreStates DEF RunInline
    <2> QED
      BY <2>1, <2>3, <2>4, <2>5, <2>6
      DEF Next, WorkerStep, Take, Defer, ReadDefers, CountDefer, CounterFails, Requeue, GiveUp,
          DefersExpire, Claim, Block, FailEarly, Push,
          Renew, Validate, Finish, Panic, PanicWrite, Die, LeaseLapses, AbandonedLapses, Reap,
          ReapWrite
  <1>5. asked' \in [Tasks -> Nat]
    <2>1. CASE UNCHANGED asked
      BY <2>1 DEF TypeOK
    <2>2. ASSUME NEW a \in Admins, Reset(a) PROVE asked' \in [Tasks -> Nat]
      BY <2>2 DEF Reset, Busy, TypeOK
    <2> QED
      BY <2>1, <2>2
      DEF Next, WorkerStep, Take, Defer, ReadDefers, CountDefer, CounterFails, Requeue, GiveUp,
          DefersExpire, Claim, Block, FailEarly, Push,
          Renew, Validate, Finish, Panic, PanicWrite, Die, LeaseLapses, AbandonedLapses, Reap,
          ReapWrite, Retry, Enqueue, RunInline, Leave
  <1>6. pushed' \in [Tasks -> SUBSET Nat]
    <2>1. CASE UNCHANGED pushed
      BY <2>1 DEF TypeOK
    <2>2. ASSUME NEW w \in Workers, Push(w) PROVE pushed' \in [Tasks -> SUBSET Nat]
      <3>1. worker[w].version \in Nat
        BY DEF TypeOK, WorkerStates
      <3> QED
        BY <2>2, <3>1 DEF Push, TypeOK
    <2> QED
      BY <2>1, <2>2
      DEF Next, WorkerStep, Take, Defer, ReadDefers, CountDefer, CounterFails, Requeue, GiveUp,
          DefersExpire, Claim, Block, FailEarly, Renew,
          Validate, Finish, Panic, PanicWrite, Die, LeaseLapses, AbandonedLapses, Reap, ReapWrite,
          Retry, Reset, Enqueue, RunInline, Leave
  <1>7. taken' \in [Tasks -> BOOLEAN]
    BY DEF TypeOK, Overwrite, Next, WorkerStep, Take, Defer, ReadDefers, CountDefer,
       CounterFails, Requeue, GiveUp, DefersExpire, Claim, Block,
           FailEarly, Push, Renew, Validate, Finish, Panic, PanicWrite, Die, LeaseLapses,
           AbandonedLapses, Reap, ReapWrite, Retry, Reset, Enqueue, RunInline, Leave
  <1>8. faults' \in 0 .. MaxFaults
    <2>1. CASE UNCHANGED faults
      BY <2>1 DEF TypeOK
    <2>2. ASSUME NEW t \in Tasks, LeaseLapses(t) PROVE faults' \in 0 .. MaxFaults
      BY <2>2, BoundsAssumption DEF LeaseLapses, TypeOK
    <2>3. ASSUME NEW w \in Workers, CounterFails(w) PROVE faults' \in 0 .. MaxFaults
      BY <2>3, BoundsAssumption DEF CounterFails, TypeOK
    <2> QED
      BY <2>1, <2>2, <2>3
      DEF Next, WorkerStep, Take, Defer, ReadDefers, CountDefer, Requeue, GiveUp,
          DefersExpire, Claim, Block, FailEarly, Push,
          Renew, Validate, Finish, Panic, PanicWrite, Die, AbandonedLapses, Reap, ReapWrite, Retry,
          Reset, Enqueue, RunInline, Leave
  <1> QED
    BY <1>1, <1>2, <1>3, <1>4, <1>5, <1>6, <1>7, <1>8, RowType, WorkerType DEF TypeOK

-------------------------------------------------------------------------------
(* The steps that write a row, an account or a result, conjunct by conjunct *)

\* Whoever takes a row out of running takes the name off it.
LEMMA OwnedStep ==
  ASSUME IInv, Next
  PROVE  Owned'
  <1> USE DEF IInv
  <1>1. CASE UNCHANGED row
    BY <1>1 DEF Owned
  <1>2. ASSUME NEW t \in Tasks, NEW status, NEW victims, Overwrite(t, status, victims)
        PROVE  Owned'
    BY <1>2 DEF Overwrite, Unlocked, TypeOK, Owned
  <1>3. ASSUME NEW w \in Workers, GiveUp(w) PROVE Owned'
    BY <1>3 DEF GiveUp, TypeOK, Owned, Rows
  <1>4. ASSUME NEW w \in Workers, Claim(w) PROVE Owned'
    BY <1>4 DEF Claim, TypeOK, Owned, Rows
  <1>5. ASSUME NEW w \in Workers, Renew(w) PROVE Owned'
    BY <1>5 DEF Renew, TypeOK, Owned, Rows
  <1>6. ASSUME NEW w \in Workers, Finish(w) PROVE Owned'
    BY <1>6 DEF Finish, Unlocked, TypeOK, Owned, Rows
  <1>7. ASSUME NEW t \in Tasks, LeaseLapses(t) \/ AbandonedLapses(t) PROVE Owned'
    BY <1>7 DEF LeaseLapses, AbandonedLapses, TypeOK, Owned, Rows
  <1>8. ASSUME NEW w \in Workers, Block(w) \/ PanicWrite(w) PROVE Owned'
    BY <1>2, <1>8 DEF Block, PanicWrite, Busy
  <1>9. ASSUME NEW r \in Reapers, ReapWrite(r) PROVE Owned'
    BY <1>2, <1>9 DEF ReapWrite, TypeOK
  <1>10. ASSUME NEW a \in Admins, Reset(a) PROVE Owned'
    BY <1>2, <1>10 DEF Reset, Busy
  <1> QED
    BY <1>1, <1>3, <1>4, <1>5, <1>6, <1>7, <1>8, <1>9, <1>10
    DEF Next, WorkerStep, Take, Defer, ReadDefers, CountDefer, CounterFails, Requeue,
        DefersExpire, FailEarly, Push, Validate, Panic, Die, Reap,
        Retry, Enqueue, RunInline, Leave

LEMMA CountedStep ==
  ASSUME IInv, Next
  PROVE  Counted'
  <1> USE DEF IInv
  <1>1. CASE UNCHANGED <<row, asked, pushed>>
    BY <1>1 DEF Counted
  <1>2. ASSUME NEW t \in Tasks, NEW status, NEW victims, status # "pending",
               Overwrite(t, status, victims), UNCHANGED <<asked, pushed>>
        PROVE  Counted'
    BY <1>2 DEF Overwrite, Unlocked, TypeOK, Counted
  <1>3. ASSUME NEW w \in Workers, GiveUp(w) PROVE Counted'
    BY <1>3 DEF GiveUp, TypeOK, Counted, Rows
  <1>4. ASSUME NEW w \in Workers, Claim(w) PROVE Counted'
    BY <1>4 DEF Claim, Claimable, TypeOK, Counted, Rows, Busy
  <1>5. ASSUME NEW w \in Workers, Renew(w) PROVE Counted'
    BY <1>5 DEF Renew, TypeOK, Counted, Rows
  <1>6. ASSUME NEW w \in Workers, Finish(w) PROVE Counted'
    <2>1. worker[w].result # "pending"
      BY DEF TypeOK, WorkerStates
    <2> QED
      BY <1>6, <2>1 DEF Finish, Unlocked, TypeOK, Counted, Rows
  <1>7. ASSUME NEW t \in Tasks, LeaseLapses(t) \/ AbandonedLapses(t) PROVE Counted'
    BY <1>7 DEF LeaseLapses, AbandonedLapses, TypeOK, Counted, Rows
  <1>8. ASSUME NEW w \in Workers, Block(w) \/ PanicWrite(w) PROVE Counted'
    BY <1>2, <1>8 DEF Block, PanicWrite, Busy
  <1>9. ASSUME NEW r \in Reapers, ReapWrite(r) PROVE Counted'
    BY <1>2, <1>9 DEF ReapWrite, TypeOK
  <1>10. ASSUME NEW a \in Admins, Reset(a) PROVE Counted'
    BY <1>10 DEF Reset, Overwrite, Unlocked, TypeOK, Counted, Rows, Busy
  <1>11. ASSUME NEW w \in Workers, Push(w) PROVE Counted'
    BY <1>11 DEF Push, TypeOK, Counted, Busy, Executing
  <1> QED
    BY <1>1, <1>3, <1>4, <1>5, <1>6, <1>7, <1>8, <1>9, <1>10, <1>11
    DEF Next, WorkerStep, Take, Defer, ReadDefers, CountDefer, CounterFails, Requeue,
        DefersExpire, FailEarly, Validate, Panic, Die, Reap,
        Retry, Enqueue, RunInline, Leave

\* A claim leaves everybody else's execution and every other row alone.
LEMMA ClaimEffect ==
  ASSUME IInv, NEW w \in Workers, Claim(w)
  PROVE  /\ \A u \in Workers \ {w} : worker'[u] = worker[u]
         /\ \/ worker'[w] = Idle /\ row' = row
            \/ /\ Claimable(worker[w].task)
               /\ worker'[w].pc = "working"
               /\ worker'[w].task = worker[w].task
               /\ worker'[w].version = row[worker[w].task].version + 1
               /\ row'[worker[w].task].version = row[worker[w].task].version + 1
               /\ row'[worker[w].task].owner = w
               /\ \A t \in Tasks \ {worker[w].task} : row'[t] = row[t]
  <1> USE DEF IInv
  <1>1. worker[w].task \in Tasks /\ worker[w] \in WorkerStates /\ row[worker[w].task] \in Rows
    BY DEF Claim, TypeOK, Busy
  <1>2. CASE ~Claimable(worker[w].task)
    BY <1>2 DEF Claim, TypeOK
  <1>3. CASE Claimable(worker[w].task)
    <2>1. worker'[w] = [worker[w] EXCEPT !.pc = "working", !.version = row[worker[w].task].version + 1]
      BY <1>3 DEF Claim, TypeOK
    <2>2. /\ worker'[w].pc = "working"
          /\ worker'[w].task = worker[w].task
          /\ worker'[w].version = row[worker[w].task].version + 1
      BY <1>1, <2>1 DEF WorkerStates
    <2>3. /\ row'[worker[w].task].version = row[worker[w].task].version + 1
          /\ row'[worker[w].task].owner = w
          /\ \A t \in Tasks \ {worker[w].task} : row'[t] = row[t]
      BY <1>1, <1>3 DEF Claim, TypeOK
    <2>4. \A u \in Workers \ {w} : worker'[u] = worker[u]
      BY <1>3 DEF Claim, TypeOK
    <2> QED
      BY <1>3, <2>2, <2>3, <2>4
  <1> QED
    BY <1>2, <1>3

\* A deferral is the worker's own affair, and changes no row.
LEMMA DeferEffect ==
  ASSUME IInv, NEW w \in Workers, Defer(w)
  PROVE  /\ UNCHANGED <<row, admin, taken, pushed>>
         /\ \A u \in Workers \ {w} : worker'[u] = worker[u]
         /\ ~Executing(w)'
         /\ worker'[w].pc # "idle" => worker[w].pc # "idle" /\ worker'[w].task = worker[w].task
  <1> USE DEF IInv
  <1>1. worker \in [Workers -> WorkerStates]
    BY DEF TypeOK
  <1>2. UNCHANGED <<row, admin, taken, pushed>>
    BY DEF Defer, ReadDefers, CountDefer, CounterFails, Requeue
  <1>3. CASE Requeue(w)
    BY <1>1, <1>2, <1>3 DEF Requeue, Executing, Idle
  <1>4. ASSUME NEW pc \in {"deferring", "sleeping", "giving_up"}, worker[w].pc # "idle",
               worker' = [worker EXCEPT ![w].pc = pc]
        PROVE  /\ \A u \in Workers \ {w} : worker'[u] = worker[u]
               /\ ~Executing(w)'
               /\ worker'[w].task = worker[w].task
    BY <1>1, <1>4 DEF Executing, WorkerStates
  <1>5. CASE ReadDefers(w)
    BY <1>2, <1>4, <1>5 DEF ReadDefers
  <1>6. CASE CountDefer(w) \/ CounterFails(w)
    BY <1>2, <1>4, <1>6 DEF CountDefer, CounterFails
  <1> QED
    BY <1>3, <1>5, <1>6 DEF Defer

\* A version is never given back, and tasks are not exchanged in between.
LEMMA BusyStep ==
  ASSUME IInv, Next
  PROVE  Busy'
  <1> USE DEF IInv
  <1>1. ASSUME NEW w \in Workers, NEW t \in Tasks, Take(w, t) PROVE Busy'
    BY <1>1 DEF Take, TypeOK, Busy, Executing, Rows, WorkerStates, Idle, NoRequest
  <1>2. ASSUME NEW w \in Workers, Defer(w) PROVE Busy'
    BY <1>2, DeferEffect DEF Busy, Executing
  <1>3. ASSUME NEW w \in Workers, GiveUp(w) PROVE Busy'
    BY <1>3 DEF GiveUp, TypeOK, Busy, Executing, Rows, WorkerStates, Idle, NoRequest
  <1>4. ASSUME NEW t \in Tasks, DefersExpire(t) PROVE Busy'
    BY <1>4 DEF DefersExpire, TypeOK, Busy, Executing, Rows, WorkerStates, Idle, NoRequest
  <1>5. ASSUME NEW w \in Workers, Claim(w) PROVE Busy'
    <2>1. worker[w].task \in Tasks /\ \A s \in Tasks : row[s].version \in Nat
      BY <1>5 DEF Claim, TypeOK, Rows, Busy
    <2>2. ASSUME NEW u \in Workers
          PROVE  /\ worker'[u].pc # "idle" => worker'[u].task \in Tasks
                 /\ Executing(u)' => worker'[u].version \in 1 .. row'[worker'[u].task].version
      <3>1. CASE u = w
        BY <1>5, <2>1, <3>1, ClaimEffect DEF Executing, Idle
      <3>2. CASE u # w
        <4>1. worker'[u] = worker[u] /\ worker[u].version \in Nat
          BY <1>5, <3>2, ClaimEffect DEF TypeOK, WorkerStates
        <4>2. \A s \in Tasks : row'[s].version \in Nat /\ row'[s].version >= row[s].version
          BY <1>5, <2>1, ClaimEffect
        <4> QED
          BY <2>1, <4>1, <4>2 DEF Busy, Executing
      <3> QED
        BY <3>1, <3>2
    <2>3. admin' = admin
      BY <1>5 DEF Claim
    <2> QED
      BY <2>2, <2>3 DEF Busy
  <1>6. ASSUME NEW w \in Workers, Block(w) PROVE Busy'
    BY <1>6 DEF Block, Overwrite, Unlocked, TypeOK, Busy, Executing, Rows, WorkerStates, Idle, NoRequest
  <1>7. ASSUME NEW w \in Workers, FailEarly(w) PROVE Busy'
    BY <1>7 DEF FailEarly, TypeOK, Busy, Executing, Rows, WorkerStates, Idle, NoRequest
  <1>8. ASSUME NEW w \in Workers, Push(w) PROVE Busy'
    BY <1>8 DEF Push, TypeOK, Busy, Executing, Rows, WorkerStates, Idle, NoRequest
  <1>9. ASSUME NEW w \in Workers, Renew(w) PROVE Busy'
    BY <1>9 DEF Renew, TypeOK, Busy, Executing, Rows, WorkerStates, Idle, NoRequest
  <1>10. ASSUME NEW w \in Workers, Validate(w) PROVE Busy'
    BY <1>10 DEF Validate, TypeOK, Busy, Executing, Rows, WorkerStates, Idle, NoRequest
  <1>11. ASSUME NEW w \in Workers, Finish(w) PROVE Busy'
    BY <1>11 DEF Finish, Unlocked, Holds, TypeOK, Busy, Executing, Rows, WorkerStates, Idle, NoRequest
  <1>12. ASSUME NEW w \in Workers, Panic(w) PROVE Busy'
    BY <1>12 DEF Panic, TypeOK, Busy, Executing, Rows, WorkerStates, Idle, NoRequest
  <1>13. ASSUME NEW w \in Workers, PanicWrite(w) PROVE Busy'
    BY <1>13 DEF PanicWrite, Overwrite, Unlocked, TypeOK, Busy, Executing, Rows, WorkerStates, Idle, NoRequest
  <1>14. ASSUME NEW w \in Workers, Die(w) PROVE Busy'
    BY <1>14 DEF Die, TypeOK, Busy, Executing, Rows, WorkerStates, Idle, NoRequest
  <1>15. ASSUME NEW t \in Tasks, LeaseLapses(t) PROVE Busy'
    BY <1>15 DEF LeaseLapses, TypeOK, Busy, Executing, Rows, WorkerStates, Idle, NoRequest
  <1>16. ASSUME NEW t \in Tasks, AbandonedLapses(t) PROVE Busy'
    BY <1>16 DEF AbandonedLapses, TypeOK, Busy, Executing, Rows, WorkerStates, Idle, NoRequest
  <1>17. ASSUME NEW r \in Reapers, NEW t \in Tasks, Reap(r, t) PROVE Busy'
    BY <1>17 DEF Reap, TypeOK, Busy, Executing, Rows, WorkerStates, Idle, NoRequest
  <1>18. ASSUME NEW r \in Reapers, ReapWrite(r) PROVE Busy'
    BY <1>18 DEF ReapWrite, Overwrite, Unlocked, TypeOK, Busy, Executing, Rows, WorkerStates, Idle, NoRequest
  <1>19. ASSUME NEW a \in Admins, NEW t \in Tasks, Retry(a, t) PROVE Busy'
    BY <1>19 DEF Retry, TypeOK, Busy, Executing, Rows, WorkerStates, Idle, NoRequest
  <1>20. ASSUME NEW a \in Admins, Reset(a) PROVE Busy'
    BY <1>20 DEF Reset, Overwrite, Unlocked, TypeOK, Busy, Executing, Rows, WorkerStates, Idle, NoRequest
  <1>21. ASSUME NEW a \in Admins, Enqueue(a) PROVE Busy'
    BY <1>21 DEF Enqueue, TypeOK, Busy, Executing, Rows, WorkerStates, Idle, NoRequest
  <1>22. ASSUME NEW a \in Admins, NEW w \in Workers, RunInline(a, w) PROVE Busy'
    BY <1>22 DEF RunInline, TypeOK, Busy, Executing, Rows, WorkerStates, Idle, NoRequest
  <1>23. ASSUME NEW a \in Admins, Leave(a) PROVE Busy'
    BY <1>23 DEF Leave, TypeOK, Busy, Executing, Rows, WorkerStates, Idle, NoRequest
  <1> QED
    BY <1>1, <1>2, <1>3, <1>4, <1>5, <1>6, <1>7, <1>8, <1>9, <1>10, <1>11, <1>12, <1>13, <1>14, <1>15, <1>16, <1>17, <1>18, <1>19, <1>20, <1>21, <1>22, <1>23
    DEF Next, WorkerStep

\* A worker has an outcome before it writes one.
LEMMA FinishesStep ==
  ASSUME IInv, Next
  PROVE  Finishes'
  <1> USE DEF IInv
  <1>1. ASSUME NEW w \in Workers, NEW t \in Tasks, Take(w, t) PROVE Finishes'
    BY <1>1 DEF Take, TypeOK, Finishes, WorkerStates, Idle
  <1>2. ASSUME NEW w \in Workers, Defer(w) PROVE Finishes'
    BY <1>2 DEF Defer, ReadDefers, CountDefer, CounterFails, Requeue, TypeOK, Finishes,
       WorkerStates, Idle
  <1>3. ASSUME NEW w \in Workers, GiveUp(w) PROVE Finishes'
    BY <1>3 DEF GiveUp, TypeOK, Finishes, WorkerStates, Idle
  <1>4. ASSUME NEW t \in Tasks, DefersExpire(t) PROVE Finishes'
    BY <1>4 DEF DefersExpire, TypeOK, Finishes, WorkerStates, Idle
  <1>5. ASSUME NEW w \in Workers, Claim(w) PROVE Finishes'
    BY <1>5, ClaimEffect DEF Finishes, Idle
  <1>6. ASSUME NEW w \in Workers, Block(w) PROVE Finishes'
    BY <1>6 DEF Block, Overwrite, Unlocked, TypeOK, Finishes, WorkerStates, Idle
  <1>7. ASSUME NEW w \in Workers, FailEarly(w) PROVE Finishes'
    BY <1>7 DEF FailEarly, TypeOK, Finishes, WorkerStates, Idle
  <1>8. ASSUME NEW w \in Workers, Push(w) PROVE Finishes'
    BY <1>8 DEF Push, TypeOK, Finishes, WorkerStates, Idle
  <1>9. ASSUME NEW w \in Workers, Renew(w) PROVE Finishes'
    BY <1>9 DEF Renew, TypeOK, Finishes, WorkerStates, Idle
  <1>10. ASSUME NEW w \in Workers, Validate(w) PROVE Finishes'
    BY <1>10 DEF Validate, TypeOK, Finishes, WorkerStates, Idle
  <1>11. ASSUME NEW w \in Workers, Finish(w) PROVE Finishes'
    BY <1>11 DEF Finish, Unlocked, Holds, TypeOK, Finishes, WorkerStates, Idle
  <1>12. ASSUME NEW w \in Workers, Panic(w) PROVE Finishes'
    BY <1>12 DEF Panic, TypeOK, Finishes, WorkerStates, Idle
  <1>13. ASSUME NEW w \in Workers, PanicWrite(w) PROVE Finishes'
    BY <1>13 DEF PanicWrite, Overwrite, Unlocked, TypeOK, Finishes, WorkerStates, Idle
  <1>14. ASSUME NEW w \in Workers, Die(w) PROVE Finishes'
    BY <1>14 DEF Die, TypeOK, Finishes, WorkerStates, Idle
  <1>15. ASSUME NEW t \in Tasks, LeaseLapses(t) PROVE Finishes'
    BY <1>15 DEF LeaseLapses, TypeOK, Finishes, WorkerStates, Idle
  <1>16. ASSUME NEW t \in Tasks, AbandonedLapses(t) PROVE Finishes'
    BY <1>16 DEF AbandonedLapses, TypeOK, Finishes, WorkerStates, Idle
  <1>17. ASSUME NEW r \in Reapers, NEW t \in Tasks, Reap(r, t) PROVE Finishes'
    BY <1>17 DEF Reap, TypeOK, Finishes, WorkerStates, Idle
  <1>18. ASSUME NEW r \in Reapers, ReapWrite(r) PROVE Finishes'
    BY <1>18 DEF ReapWrite, Overwrite, Unlocked, TypeOK, Finishes, WorkerStates, Idle
  <1>19. ASSUME NEW a \in Admins, NEW t \in Tasks, Retry(a, t) PROVE Finishes'
    BY <1>19 DEF Retry, TypeOK, Finishes, WorkerStates, Idle
  <1>20. ASSUME NEW a \in Admins, Reset(a) PROVE Finishes'
    BY <1>20 DEF Reset, Overwrite, Unlocked, TypeOK, Finishes, WorkerStates, Idle
  <1>21. ASSUME NEW a \in Admins, Enqueue(a) PROVE Finishes'
    BY <1>21 DEF Enqueue, TypeOK, Finishes, WorkerStates, Idle
  <1>22. ASSUME NEW a \in Admins, NEW w \in Workers, RunInline(a, w) PROVE Finishes'
    BY <1>22 DEF RunInline, TypeOK, Finishes, WorkerStates, Idle
  <1>23. ASSUME NEW a \in Admins, Leave(a) PROVE Finishes'
    BY <1>23 DEF Leave, TypeOK, Finishes, WorkerStates, Idle
  <1> QED
    BY <1>1, <1>2, <1>3, <1>4, <1>5, <1>6, <1>7, <1>8, <1>9, <1>10, <1>11, <1>12, <1>13, <1>14, <1>15, <1>16, <1>17, <1>18, <1>19, <1>20, <1>21, <1>22, <1>23
    DEF Next, WorkerStep

\* What has reached the platform stays so; a worker's task and version are those of its claim.
LEMMA ReachedStep ==
  ASSUME IInv, Next
  PROVE  Reached'
  <1> USE DEF IInv
  <1>1. ASSUME NEW w \in Workers, NEW t \in Tasks, Take(w, t) PROVE Reached'
    BY <1>1 DEF Take, TypeOK, Busy, Reached, Executing, Idle, WorkerStates
  <1>2. ASSUME NEW w \in Workers, Defer(w) PROVE Reached'
    BY <1>2 DEF Defer, ReadDefers, CountDefer, CounterFails, Requeue, TypeOK, Busy, Reached,
       Executing, Idle, WorkerStates
  <1>3. ASSUME NEW w \in Workers, GiveUp(w) PROVE Reached'
    BY <1>3 DEF GiveUp, TypeOK, Busy, Reached, Executing, Idle, WorkerStates
  <1>4. ASSUME NEW t \in Tasks, DefersExpire(t) PROVE Reached'
    BY <1>4 DEF DefersExpire, TypeOK, Busy, Reached, Executing, Idle, WorkerStates
  <1>5. ASSUME NEW w \in Workers, Claim(w) PROVE Reached'
    <2>1. \A u \in Workers : worker'[u].pc \in {"done", "finishing"} => worker'[u] = worker[u]
      BY <1>5, ClaimEffect DEF Idle
    <2> QED
      BY <1>5, <2>1 DEF Claim, Reached
  <1>6. ASSUME NEW w \in Workers, Block(w) PROVE Reached'
    BY <1>6 DEF Block, Overwrite, Unlocked, TypeOK, Busy, Reached, Executing, Idle, WorkerStates
  <1>7. ASSUME NEW w \in Workers, FailEarly(w) PROVE Reached'
    BY <1>7 DEF FailEarly, TypeOK, Busy, Reached, Executing, Idle, WorkerStates
  <1>8. ASSUME NEW w \in Workers, Push(w) PROVE Reached'
    BY <1>8 DEF Push, TypeOK, Busy, Reached, Executing, Idle, WorkerStates
  <1>9. ASSUME NEW w \in Workers, Renew(w) PROVE Reached'
    BY <1>9 DEF Renew, TypeOK, Busy, Reached, Executing, Idle, WorkerStates
  <1>10. ASSUME NEW w \in Workers, Validate(w) PROVE Reached'
    BY <1>10 DEF Validate, TypeOK, Busy, Reached, Executing, Idle, WorkerStates
  <1>11. ASSUME NEW w \in Workers, Finish(w) PROVE Reached'
    BY <1>11 DEF Finish, Unlocked, Holds, TypeOK, Busy, Reached, Executing, Idle, WorkerStates
  <1>12. ASSUME NEW w \in Workers, Panic(w) PROVE Reached'
    BY <1>12 DEF Panic, TypeOK, Busy, Reached, Executing, Idle, WorkerStates
  <1>13. ASSUME NEW w \in Workers, PanicWrite(w) PROVE Reached'
    BY <1>13 DEF PanicWrite, Overwrite, Unlocked, TypeOK, Busy, Reached, Executing, Idle, WorkerStates
  <1>14. ASSUME NEW w \in Workers, Die(w) PROVE Reached'
    BY <1>14 DEF Die, TypeOK, Busy, Reached, Executing, Idle, WorkerStates
  <1>15. ASSUME NEW t \in Tasks, LeaseLapses(t) PROVE Reached'
    BY <1>15 DEF LeaseLapses, TypeOK, Busy, Reached, Executing, Idle, WorkerStates
  <1>16. ASSUME NEW t \in Tasks, AbandonedLapses(t) PROVE Reached'
    BY <1>16 DEF AbandonedLapses, TypeOK, Busy, Reached, Executing, Idle, WorkerStates
  <1>17. ASSUME NEW r \in Reapers, NEW t \in Tasks, Reap(r, t) PROVE Reached'
    BY <1>17 DEF Reap, TypeOK, Busy, Reached, Executing, Idle, WorkerStates
  <1>18. ASSUME NEW r \in Reapers, ReapWrite(r) PROVE Reached'
    BY <1>18 DEF ReapWrite, Overwrite, Unlocked, TypeOK, Busy, Reached, Executing, Idle, WorkerStates
  <1>19. ASSUME NEW a \in Admins, NEW t \in Tasks, Retry(a, t) PROVE Reached'
    BY <1>19 DEF Retry, TypeOK, Busy, Reached, Executing, Idle, WorkerStates
  <1>20. ASSUME NEW a \in Admins, Reset(a) PROVE Reached'
    BY <1>20 DEF Reset, Overwrite, Unlocked, TypeOK, Busy, Reached, Executing, Idle, WorkerStates
  <1>21. ASSUME NEW a \in Admins, Enqueue(a) PROVE Reached'
    BY <1>21 DEF Enqueue, TypeOK, Busy, Reached, Executing, Idle, WorkerStates
  <1>22. ASSUME NEW a \in Admins, NEW w \in Workers, RunInline(a, w) PROVE Reached'
    BY <1>22 DEF RunInline, TypeOK, Busy, Reached, Executing, Idle, WorkerStates
  <1>23. ASSUME NEW a \in Admins, Leave(a) PROVE Reached'
    BY <1>23 DEF Leave, TypeOK, Busy, Reached, Executing, Idle, WorkerStates
  <1> QED
    BY <1>1, <1>2, <1>3, <1>4, <1>5, <1>6, <1>7, <1>8, <1>9, <1>10, <1>11, <1>12, <1>13, <1>14, <1>15, <1>16, <1>17, <1>18, <1>19, <1>20, <1>21, <1>22, <1>23
    DEF Next, WorkerStep

\* Only Finish writes a success, on the row of its own execution.
LEMMA SuccessStep ==
  ASSUME IInv, Next
  PROVE  SuccessIsPushed'
  <1> USE DEF IInv
  <1>1. ASSUME NEW w \in Workers, NEW t \in Tasks, Take(w, t) PROVE SuccessIsPushed'
    BY <1>1 DEF Take, TypeOK, SuccessIsPushed, Reached, Busy, Executing, Rows, Holds
  <1>2. ASSUME NEW w \in Workers, Defer(w) PROVE SuccessIsPushed'
    BY <1>2 DEF Defer, ReadDefers, CountDefer, CounterFails, Requeue, TypeOK, SuccessIsPushed,
       Reached, Busy, Executing, Rows, Holds
  <1>3. ASSUME NEW w \in Workers, GiveUp(w) PROVE SuccessIsPushed'
    BY <1>3 DEF GiveUp, TypeOK, SuccessIsPushed, Reached, Busy, Executing, Rows, Holds
  <1>4. ASSUME NEW t \in Tasks, DefersExpire(t) PROVE SuccessIsPushed'
    BY <1>4 DEF DefersExpire, TypeOK, SuccessIsPushed, Reached, Busy, Executing, Rows, Holds
  <1>5. ASSUME NEW w \in Workers, Claim(w) PROVE SuccessIsPushed'
    BY <1>5 DEF Claim, Claimable, TypeOK, SuccessIsPushed, Reached, Busy, Executing, Rows, Holds
  <1>6. ASSUME NEW w \in Workers, Block(w) PROVE SuccessIsPushed'
    BY <1>6 DEF Block, Overwrite, Unlocked, TypeOK, SuccessIsPushed, Reached, Busy, Executing, Rows, Holds
  <1>7. ASSUME NEW w \in Workers, FailEarly(w) PROVE SuccessIsPushed'
    BY <1>7 DEF FailEarly, TypeOK, SuccessIsPushed, Reached, Busy, Executing, Rows, Holds
  <1>8. ASSUME NEW w \in Workers, Push(w) PROVE SuccessIsPushed'
    BY <1>8 DEF Push, TypeOK, SuccessIsPushed, Reached, Busy, Executing, Rows, Holds
  <1>9. ASSUME NEW w \in Workers, Renew(w) PROVE SuccessIsPushed'
    BY <1>9 DEF Renew, TypeOK, SuccessIsPushed, Reached, Busy, Executing, Rows, Holds
  <1>10. ASSUME NEW w \in Workers, Validate(w) PROVE SuccessIsPushed'
    BY <1>10 DEF Validate, TypeOK, SuccessIsPushed, Reached, Busy, Executing, Rows, Holds
  <1>11. ASSUME NEW w \in Workers, Finish(w) PROVE SuccessIsPushed'
    BY <1>11 DEF Finish, Unlocked, Holds, TypeOK, SuccessIsPushed, Reached, Busy, Executing, Rows
  <1>12. ASSUME NEW w \in Workers, Panic(w) PROVE SuccessIsPushed'
    BY <1>12 DEF Panic, TypeOK, SuccessIsPushed, Reached, Busy, Executing, Rows, Holds
  <1>13. ASSUME NEW w \in Workers, PanicWrite(w) PROVE SuccessIsPushed'
    BY <1>13 DEF PanicWrite, Overwrite, Unlocked, TypeOK, SuccessIsPushed, Reached, Busy, Executing, Rows, Holds
  <1>14. ASSUME NEW w \in Workers, Die(w) PROVE SuccessIsPushed'
    BY <1>14 DEF Die, TypeOK, SuccessIsPushed, Reached, Busy, Executing, Rows, Holds
  <1>15. ASSUME NEW t \in Tasks, LeaseLapses(t) PROVE SuccessIsPushed'
    BY <1>15 DEF LeaseLapses, TypeOK, SuccessIsPushed, Reached, Busy, Executing, Rows, Holds
  <1>16. ASSUME NEW t \in Tasks, AbandonedLapses(t) PROVE SuccessIsPushed'
    BY <1>16 DEF AbandonedLapses, TypeOK, SuccessIsPushed, Reached, Busy, Executing, Rows, Holds
  <1>17. ASSUME NEW r \in Reapers, NEW t \in Tasks, Reap(r, t) PROVE SuccessIsPushed'
    BY <1>17 DEF Reap, TypeOK, SuccessIsPushed, Reached, Busy, Executing, Rows, Holds
  <1>18. ASSUME NEW r \in Reapers, ReapWrite(r) PROVE SuccessIsPushed'
    BY <1>18 DEF ReapWrite, Overwrite, Unlocked, TypeOK, SuccessIsPushed, Reached, Busy, Executing, Rows, Holds
  <1>19. ASSUME NEW a \in Admins, NEW t \in Tasks, Retry(a, t) PROVE SuccessIsPushed'
    BY <1>19 DEF Retry, TypeOK, SuccessIsPushed, Reached, Busy, Executing, Rows, Holds
  <1>20. ASSUME NEW a \in Admins, Reset(a) PROVE SuccessIsPushed'
    BY <1>20 DEF Reset, Overwrite, Unlocked, TypeOK, SuccessIsPushed, Reached, Busy, Executing, Rows, Holds
  <1>21. ASSUME NEW a \in Admins, Enqueue(a) PROVE SuccessIsPushed'
    BY <1>21 DEF Enqueue, TypeOK, SuccessIsPushed, Reached, Busy, Executing, Rows, Holds
  <1>22. ASSUME NEW a \in Admins, NEW w \in Workers, RunInline(a, w) PROVE SuccessIsPushed'
    BY <1>22 DEF RunInline, TypeOK, SuccessIsPushed, Reached, Busy, Executing, Rows, Holds
  <1>23. ASSUME NEW a \in Admins, Leave(a) PROVE SuccessIsPushed'
    BY <1>23 DEF Leave, TypeOK, SuccessIsPushed, Reached, Busy, Executing, Rows, Holds
  <1> QED
    BY <1>1, <1>2, <1>3, <1>4, <1>5, <1>6, <1>7, <1>8, <1>9, <1>10, <1>11, <1>12, <1>13, <1>14, <1>15, <1>16, <1>17, <1>18, <1>19, <1>20, <1>21, <1>22, <1>23
    DEF Next, WorkerStep

LEMMA OverwriteHeld ==
  ASSUME IInv, NEW t \in Tasks, NEW status, Overwrite(t, status, Workers), worker' = worker
  PROVE  Held'
  <1> USE DEF IInv
  <1>1. ASSUME NEW w \in Workers, Executing(w), ~taken'[worker[w].task]
        PROVE  Holds(w)'
    <2>1. worker[w].task \in Tasks
      BY <1>1 DEF Busy, Executing
    <2>2. ~taken[worker[w].task] /\ worker[w].task # t
      <3>1. ~taken[worker[w].task]
        BY <1>1, <2>1 DEF Overwrite, TypeOK
      <3>2. row[worker[w].task].owner = w
        BY <1>1, <3>1 DEF Held, Holds
      <3> QED
        BY <1>1, <2>1, <3>1, <3>2 DEF Overwrite, TypeOK
    <2>3. Holds(w) /\ row'[worker[w].task] = row[worker[w].task]
      BY <1>1, <2>1, <2>2 DEF Held, Overwrite, TypeOK
    <2> QED
      BY <2>3 DEF Holds
  <1> QED
    BY <1>1 DEF Held, Executing

\* A claim takes a row that nobody has; an overwriting is recorded.
LEMMA HeldStep ==
  ASSUME IInv, Next
  PROVE  Held'
  <1> USE DEF IInv
  <1>1. ASSUME NEW w \in Workers, NEW t \in Tasks, Take(w, t) PROVE Held'
    BY <1>1 DEF Take, TypeOK, Held, Owned, Busy, Executing, Holds, Rows, Idle
  <1>2. ASSUME NEW w \in Workers, Defer(w) PROVE Held'
    BY <1>2, DeferEffect DEF Held, Holds, Executing
  <1>3. ASSUME NEW w \in Workers, GiveUp(w) PROVE Held'
    BY <1>3 DEF GiveUp, TypeOK, Held, Owned, Busy, Executing, Holds, Rows, Idle
  <1>4. ASSUME NEW t \in Tasks, DefersExpire(t) PROVE Held'
    BY <1>4 DEF DefersExpire, TypeOK, Held, Owned, Busy, Executing, Holds, Rows, Idle
  <1>5. ASSUME NEW w \in Workers, Claim(w) PROVE Held'
    <2>1. worker[w].task \in Tasks /\ UNCHANGED taken
      BY <1>5 DEF Claim, Busy
    <2>2. ASSUME NEW u \in Workers, Executing(u)', ~taken[worker'[u].task]
          PROVE  Holds(u)'
      <3>1. CASE u = w
        BY <1>5, <2>2, <3>1, ClaimEffect DEF Executing, Idle, Holds
      <3>2. CASE u # w
        <4>1. /\ worker'[u] = worker[u] /\ Holds(u) /\ worker[u].task \in Tasks
              /\ row[worker[u].task].status = "running"
          BY <1>5, <2>2, <3>2, ClaimEffect, NamesAssumption DEF Held, Executing, Busy, Holds, Owned
        <4>2. row'[worker[u].task] = row[worker[u].task]
          BY <1>5, <2>1, <4>1, ClaimEffect DEF Claimable
        <4> QED
          BY <4>1, <4>2 DEF Holds
      <3> QED
        BY <3>1, <3>2
    <2> QED
      BY <2>1, <2>2 DEF Held
  <1>6. ASSUME NEW w \in Workers, Block(w) PROVE Held'
    BY <1>6 DEF Block, Overwrite, Unlocked, TypeOK, Held, Owned, Busy, Executing, Holds, Rows, Idle
  <1>7. ASSUME NEW w \in Workers, FailEarly(w) PROVE Held'
    BY <1>7 DEF FailEarly, TypeOK, Held, Owned, Busy, Executing, Holds, Rows, Idle
  <1>8. ASSUME NEW w \in Workers, Push(w) PROVE Held'
    BY <1>8 DEF Push, TypeOK, Held, Owned, Busy, Executing, Holds, Rows, Idle
  <1>9. ASSUME NEW w \in Workers, Renew(w) PROVE Held'
    BY <1>9 DEF Renew, TypeOK, Held, Owned, Busy, Executing, Holds, Rows, Idle
  <1>10. ASSUME NEW w \in Workers, Validate(w) PROVE Held'
    BY <1>10 DEF Validate, TypeOK, Held, Owned, Busy, Executing, Holds, Rows, Idle
  <1>11. ASSUME NEW w \in Workers, Finish(w) PROVE Held'
    BY <1>11 DEF Finish, Unlocked, Holds, TypeOK, Held, Owned, Busy, Executing, Rows, Idle
  <1>12. ASSUME NEW w \in Workers, Panic(w) PROVE Held'
    BY <1>12 DEF Panic, TypeOK, Held, Owned, Busy, Executing, Holds, Rows, Idle
  <1>13. ASSUME NEW w \in Workers, PanicWrite(w) PROVE Held'
    BY <1>13 DEF PanicWrite, Overwrite, Unlocked, TypeOK, Held, Owned, Busy, Executing, Holds, Rows, Idle
  <1>14. ASSUME NEW w \in Workers, Die(w) PROVE Held'
    BY <1>14 DEF Die, TypeOK, Held, Owned, Busy, Executing, Holds, Rows, Idle
  <1>15. ASSUME NEW t \in Tasks, LeaseLapses(t) PROVE Held'
    BY <1>15 DEF LeaseLapses, TypeOK, Held, Owned, Busy, Executing, Holds, Rows, Idle
  <1>16. ASSUME NEW t \in Tasks, AbandonedLapses(t) PROVE Held'
    BY <1>16 DEF AbandonedLapses, TypeOK, Held, Owned, Busy, Executing, Holds, Rows, Idle
  <1>17. ASSUME NEW r \in Reapers, NEW t \in Tasks, Reap(r, t) PROVE Held'
    BY <1>17 DEF Reap, TypeOK, Held, Owned, Busy, Executing, Holds, Rows, Idle
  <1>18. ASSUME NEW r \in Reapers, ReapWrite(r) PROVE Held'
    <2> DEFINE t == reaper[r]
    <2>1. t \in Tasks /\ Overwrite(t, "failed", Workers) /\ worker' = worker
      BY <1>18 DEF ReapWrite, Busy, TypeOK
    <2> QED
      BY <2>1, OverwriteHeld
  <1>19. ASSUME NEW a \in Admins, NEW t \in Tasks, Retry(a, t) PROVE Held'
    BY <1>19 DEF Retry, TypeOK, Held, Owned, Busy, Executing, Holds, Rows, Idle
  <1>20. ASSUME NEW a \in Admins, Reset(a) PROVE Held'
    <2> DEFINE t == admin[a].task
    <2>1. t \in Tasks /\ Overwrite(t, "pending", Workers) /\ worker' = worker
      BY <1>20 DEF Reset, Busy, TypeOK
    <2> QED
      BY <2>1, OverwriteHeld
  <1>21. ASSUME NEW a \in Admins, Enqueue(a) PROVE Held'
    BY <1>21 DEF Enqueue, TypeOK, Held, Owned, Busy, Executing, Holds, Rows, Idle
  <1>22. ASSUME NEW a \in Admins, NEW w \in Workers, RunInline(a, w) PROVE Held'
    BY <1>22 DEF RunInline, TypeOK, Held, Owned, Busy, Executing, Holds, Rows, Idle
  <1>23. ASSUME NEW a \in Admins, Leave(a) PROVE Held'
    BY <1>23 DEF Leave, TypeOK, Held, Owned, Busy, Executing, Holds, Rows, Idle
  <1> QED
    BY <1>1, <1>2, <1>3, <1>4, <1>5, <1>6, <1>7, <1>8, <1>9, <1>10, <1>11, <1>12, <1>13, <1>14, <1>15, <1>16, <1>17, <1>18, <1>19, <1>20, <1>21, <1>22, <1>23
    DEF Next, WorkerStep

\* Whoever starts counting has read a counter below its limit, or failed to; the
\* others that are about to count are at most the other workers.
LEMMA OvershootStep ==
  ASSUME IInv, Next
  PROVE  Overshoot'
  <1> USE DEF IInv
  <1> DEFINE Limit == MaxDefers + (Cardinality(Workers) - 1)
  <1>0. /\ IsFiniteSet(Workers) /\ Cardinality(Workers) \in Nat /\ MaxDefers \in Nat
        /\ faults \in Nat /\ faults' \in Nat /\ faults' >= faults
        /\ \A t \in Tasks : defers[t] \in Nat
    <2>1. faults \in Nat /\ \A t \in Tasks : defers[t] \in Nat
      BY DEF TypeOK
    <2>2. faults' = faults \/ faults' = faults + 1
      BY DEF Next, WorkerStep, Take, Defer, ReadDefers, CountDefer, CounterFails, Requeue, GiveUp,
             DefersExpire, Claim, Block, FailEarly, Push, Renew, Validate, Finish, Panic, PanicWrite,
             Die, LeaseLapses, AbandonedLapses, Reap, ReapWrite, Retry, Reset, Enqueue, RunInline,
             Leave
    <2> QED
      BY <2>1, <2>2, WorkersAssumption, FS_CardinalityType, BoundsAssumption
  <1>1. \A t \in Tasks : /\ IsFiniteSet(Counting(t)) /\ Cardinality(Counting(t)) \in Nat
                         /\ IsFiniteSet(Counting(t)') /\ Cardinality(Counting(t)') \in Nat
                         /\ Cardinality(Counting(t)') <= Cardinality(Workers)
    <2> SUFFICES ASSUME NEW t \in Tasks
                 PROVE  /\ IsFiniteSet(Counting(t)) /\ Cardinality(Counting(t)) \in Nat
                        /\ IsFiniteSet(Counting(t)') /\ Cardinality(Counting(t)') \in Nat
                        /\ Cardinality(Counting(t)') <= Cardinality(Workers)
      OBVIOUS
    <2>1. Counting(t) \in SUBSET Workers /\ Counting(t)' \in SUBSET Workers
      BY DEF Counting
    <2>2. IsFiniteSet(Counting(t)) /\ IsFiniteSet(Counting(t)')
      BY <1>0, <2>1, FS_Subset
    <2>3. Cardinality(Counting(t)') <= Cardinality(Workers)
      BY <1>0, <2>1, FS_Subset
    <2> QED
      BY <2>2, <2>3, FS_CardinalityType
  \* It is enough that nobody joins, and no counter grows.
  <1>2. ASSUME NEW t \in Tasks, defers'[t] \in Nat, defers'[t] <= defers[t],
               Counting(t)' \subseteq Counting(t)
        PROVE  defers'[t] + Cardinality(Counting(t)') <= Limit + faults'
    <2>1. Cardinality(Counting(t)') <= Cardinality(Counting(t))
      BY <1>1, <1>2, FS_Subset
    <2>2. defers[t] + Cardinality(Counting(t)) <= Limit + faults
      BY DEF Overshoot
    <2> QED
      BY <1>0, <1>1, <1>2, <2>1, <2>2
  <1>3. ASSUME NEW w \in Workers, NEW t \in Tasks, ReadDefers(w)
        PROVE  defers'[t] + Cardinality(Counting(t)') <= Limit + faults'
    <2>1. defers' = defers /\ faults' = faults
      BY <1>3 DEF ReadDefers
    <2>2. CASE worker[w].task = t /\ defers[t] < MaxDefers
      BY <1>0, <1>1, <2>1, <2>2
    <2>3. CASE ~(worker[w].task = t /\ defers[t] < MaxDefers)
      <3>1. Counting(t)' \subseteq Counting(t)
        BY <1>3, <2>3 DEF ReadDefers, Counting, TypeOK, WorkerStates
      <3> QED
        BY <1>0, <1>2, <2>1, <3>1
    <2> QED
      BY <2>2, <2>3
  <1>4. ASSUME NEW w \in Workers, NEW t \in Tasks, CountDefer(w)
        PROVE  defers'[t] + Cardinality(Counting(t)') <= Limit + faults'
    <2>1. faults' = faults
      BY <1>4 DEF CountDefer
    <2>2. CASE worker[w].task = t
      <3>1. Counting(t)' = Counting(t) \ {w} /\ w \in Counting(t)
        BY <1>4, <2>2 DEF CountDefer, Counting, TypeOK, WorkerStates
      <3>2. Cardinality(Counting(t)') = Cardinality(Counting(t)) - 1
        BY <1>1, <3>1, FS_RemoveElement
      <3>3. defers'[t] = defers[t] + 1
        BY <1>4, <2>2 DEF CountDefer, TypeOK
      <3>4. defers[t] + Cardinality(Counting(t)) <= Limit + faults
        BY DEF Overshoot
      <3> QED
        BY <1>0, <1>1, <2>1, <3>2, <3>3, <3>4
    <2>3. CASE worker[w].task # t
      <3>1. defers'[t] = defers[t]
        BY <1>4, <2>3 DEF CountDefer, TypeOK
      <3>2. Counting(t)' \subseteq Counting(t)
        BY <1>4 DEF CountDefer, Counting, TypeOK, WorkerStates
      <3> QED
        BY <1>0, <1>2, <3>1, <3>2
    <2> QED
      BY <2>2, <2>3
  <1>5. ASSUME NEW w \in Workers, NEW t \in Tasks, CounterFails(w)
        PROVE  defers'[t] + Cardinality(Counting(t)') <= Limit + faults'
    <2>1. defers' = defers /\ faults' = faults + 1
      BY <1>5 DEF CounterFails
    <2>2. Counting(t)' \subseteq Counting(t) \union {w}
      BY <1>5 DEF CounterFails, Counting, TypeOK, WorkerStates
    <2>3. /\ IsFiniteSet(Counting(t) \union {w})
          /\ Cardinality(Counting(t) \union {w}) \in Nat
          /\ Cardinality(Counting(t) \union {w}) <= Cardinality(Counting(t)) + 1
      <3>1. IsFiniteSet(Counting(t) \union {w})
        BY <1>1, FS_AddElement
      <3>2. Cardinality(Counting(t) \union {w}) =
              IF w \in Counting(t) THEN Cardinality(Counting(t)) ELSE Cardinality(Counting(t)) + 1
        BY <1>1, FS_AddElement
      <3> QED
        BY <1>1, <3>1, <3>2, FS_CardinalityType
    <2>4. Cardinality(Counting(t)') <= Cardinality(Counting(t) \union {w})
      BY <2>2, <2>3, FS_Subset
    <2>5. defers[t] + Cardinality(Counting(t)) <= Limit + faults
      BY DEF Overshoot
    <2> QED
      BY <1>0, <1>1, <2>1, <2>3, <2>4, <2>5
  <1>6. ASSUME NEW t \in Tasks, NEW u \in Tasks, DefersExpire(u)
        PROVE  defers'[t] + Cardinality(Counting(t)') <= Limit + faults'
    <2>1. defers'[t] \in Nat /\ defers'[t] <= defers[t]
      BY <1>0, <1>6 DEF DefersExpire, TypeOK
    <2>2. Counting(t)' = Counting(t)
      BY <1>6 DEF DefersExpire, Counting
    <2> QED
      BY <1>2, <2>1, <2>2
  <1>7. ASSUME NEW t \in Tasks, UNCHANGED defers, Counting(t)' \subseteq Counting(t)
        PROVE  defers'[t] + Cardinality(Counting(t)') <= Limit + faults'
    BY <1>0, <1>2, <1>7
  <1>8. ASSUME NEW t \in Tasks, NEW w \in Workers,
               Requeue(w) \/ GiveUp(w) \/ Claim(w) \/ Block(w) \/ FailEarly(w) \/ Push(w) \/ Renew(w)
                 \/ Validate(w) \/ Finish(w) \/ Panic(w) \/ PanicWrite(w) \/ Die(w)
        PROVE  UNCHANGED defers /\ Counting(t)' \subseteq Counting(t)
    <2>1. UNCHANGED defers
      BY <1>8 DEF Requeue, GiveUp, Claim, Block, FailEarly, Push, Renew, Validate, Finish, Panic,
                  PanicWrite, Die
    <2>2. \A u \in Workers \ {w} : worker'[u] = worker[u]
      BY <1>8 DEF Requeue, GiveUp, Claim, Block, FailEarly, Push, Renew, Validate, Finish, Panic,
                  PanicWrite, Die, TypeOK
    <2>3. worker'[w].pc # "deferring" \/ worker'[w] = worker[w]
      <3>1. CASE Claim(w)
        BY <3>1, ClaimEffect DEF Idle
      <3>2. CASE Renew(w)
        BY <3>2 DEF Renew
      <3>3. CASE Requeue(w) \/ GiveUp(w) \/ Block(w) \/ Finish(w) \/ PanicWrite(w) \/ Die(w)
        BY <3>3 DEF Requeue, GiveUp, Block, Finish, PanicWrite, Die, TypeOK, Idle
      <3>4. CASE FailEarly(w) \/ Push(w) \/ Validate(w) \/ Panic(w)
        <4>1. worker[w] \in WorkerStates
          BY DEF TypeOK
        <4>2. CASE FailEarly(w)
          BY <4>1, <4>2 DEF FailEarly, TypeOK, WorkerStates
        <4>3. CASE Push(w)
          BY <4>1, <4>3 DEF Push, TypeOK, WorkerStates
        <4>4. CASE Validate(w)
          BY <4>1, <4>4 DEF Validate, TypeOK, WorkerStates, Idle
        <4>5. CASE Panic(w)
          BY <4>1, <4>5 DEF Panic, TypeOK, WorkerStates, Idle
        <4> QED
          BY <3>4, <4>2, <4>3, <4>4, <4>5
      <3> QED
        BY <1>8, <3>1, <3>2, <3>3, <3>4
    <2> QED
      BY <2>1, <2>2, <2>3 DEF Counting
  <1>9. ASSUME NEW t \in Tasks, NEW w \in Workers, NEW u \in Tasks, Take(w, u)
        PROVE  UNCHANGED defers /\ Counting(t)' \subseteq Counting(t)
    BY <1>9 DEF Take, Counting, TypeOK, Idle
  <1>10. ASSUME NEW t \in Tasks, NEW w \in Workers, NEW a \in Admins, RunInline(a, w)
         PROVE  UNCHANGED defers /\ Counting(t)' \subseteq Counting(t)
    BY <1>10 DEF RunInline, Counting, TypeOK, Idle
  <1>11. ASSUME NEW t \in Tasks, UNCHANGED <<defers, worker>>
         PROVE  UNCHANGED defers /\ Counting(t)' \subseteq Counting(t)
    BY <1>11 DEF Counting
  <1>12. ASSUME NEW t \in Tasks
         PROVE  defers'[t] + Cardinality(Counting(t)') <= Limit + faults'
    BY <1>3, <1>4, <1>5, <1>6, <1>7, <1>8, <1>9, <1>10, <1>11
    DEF Next, WorkerStep, Defer, LeaseLapses, AbandonedLapses, Reap, ReapWrite, Retry, Reset,
        Enqueue, Leave
  <1> QED
    BY <1>12 DEF Overshoot

-------------------------------------------------------------------------------
(* The theorems *)

LEMMA InitInv == Init => IInv
  <1> SUFFICES ASSUME Init PROVE IInv
    OBVIOUS
  <1>1. row \in [Tasks -> Rows]
    BY DEF Init, Unlocked, Rows, Statuses
  <1>2. TypeOK
    <2>1. worker \in [Workers -> WorkerStates] /\ admin \in [Admins -> AdminStates]
      BY StatesAreStates DEF Init
    <2>2. defers \in [Tasks -> 0 .. DeferLimit] /\ faults \in 0 .. MaxFaults
      BY BoundsAssumption, DeferLimitType DEF Init
    <2>3. /\ queue \in [Tasks -> Nat]
          /\ reaper \in [Reapers -> Tasks \union {"none"}]
          /\ asked \in [Tasks -> Nat]
          /\ pushed \in [Tasks -> SUBSET Nat]
          /\ taken \in [Tasks -> BOOLEAN]
      BY DEF Init
    <2> QED
      BY <1>1, <2>1, <2>2, <2>3 DEF TypeOK
  <1>3. Counted
    BY DEF Init, Counted, Unlocked
  <1>4. Overshoot
    <2>1. \A t \in Tasks : Counting(t) = {} /\ defers[t] = 0
      BY DEF Init, Counting, Idle
    <2>2. Cardinality(Workers) \in Nat \ {0}
      BY WorkersAssumption, FS_CardinalityType, FS_EmptySet
    <2>3. \A t \in Tasks : Cardinality(Counting(t)) = 0
      BY <2>1, FS_EmptySet
    <2> QED
      BY <2>1, <2>2, <2>3, BoundsAssumption DEF Init, Overshoot
  <1> QED
    BY <1>2, <1>3, <1>4 DEF Init, IInv, Owned, Busy, Finishes, Reached, SuccessIsPushed, Held, Executing,
                      Unlocked, Idle, NoRequest

LEMMA NextInv == IInv /\ [Next]_vars => IInv'
  <1>1. ASSUME IInv, Next PROVE IInv'
    BY <1>1, TypeStep, OwnedStep, CountedStep, BusyStep, FinishesStep, ReachedStep, SuccessStep,
       HeldStep, OvershootStep DEF IInv
  <1>2. ASSUME IInv, UNCHANGED vars PROVE IInv'
    BY <1>2 DEF vars, IInv, TypeOK, Owned, Counted, Busy, Finishes, Reached, SuccessIsPushed, Held,
                Executing, Holds, Overshoot, Counting
  <1> QED
    BY <1>1, <1>2

\* Everything the proofs rest on holds in every state.
THEOREM Inductive == Spec => []IInv
  BY InitInv, NextInv, PTL DEF Spec

\* The variables keep their types: rows, workers and requests are of the kinds the
\* columns and the code allow. A counter of deferrals, read in one call and added to in
\* another, may pass its limit, by one for every worker but one, and by what failing
\* calls misread, and by no more.
THEOREM TypeCorrect == Spec => []TypeOK
  BY Inductive, PTL DEF IInv

\* A task is pushed to the platform at most as often as it was asked for, however
\* messages are doubled, workers die and leases lapse.
THEOREM NoExtraPush == Spec => []PushedNoMoreThanAsked
  <1>1. IInv => PushedNoMoreThanAsked
    <2> SUFFICES ASSUME IInv, NEW t \in Tasks PROVE Cardinality(pushed[t]) <= asked[t]
      BY DEF PushedNoMoreThanAsked
    <2> DEFINE v == row[t].version
    <2>1. v \in Nat /\ asked[t] \in Nat /\ v <= asked[t] /\ pushed[t] \subseteq 1 .. v
      BY DEF IInv, TypeOK, Rows, Counted
    <2>2. IsFiniteSet(1 .. v) /\ Cardinality(1 .. v) = v
      <3>1. 1 \in Int /\ v \in Int
        BY <2>1
      <3>2. /\ IsFiniteSet(1 .. v)
            /\ Cardinality(1 .. v) = IF 1 > v THEN 0 ELSE v - 1 + 1
        BY <3>1, FS_Interval
      <3> QED
        BY <2>1, <3>2
    <2>3. Cardinality(pushed[t]) <= Cardinality(1 .. v) /\ Cardinality(pushed[t]) \in Nat
      BY <2>1, <2>2, FS_Subset, FS_CardinalityType
    <2> QED
      BY <2>1, <2>2, <2>3
  <1> QED
    BY <1>1, Inductive, PTL

\* A task that says success was pushed by the execution that last claimed it.
THEOREM SuccessWasPushed == Spec => []SuccessIsPushed
  BY Inductive, PTL DEF IInv

\* Two workers are at a task together only after its row was written over under one
\* of them.
THEOREM OneExecutorUnlessTaken == Spec => []OneExecutor
  <1>1. IInv => OneExecutor
    BY DEF IInv, OneExecutor, Held, Holds
  <1> QED
    BY <1>1, Inductive, PTL

\* What a worker writes at the end lands on its own, running, execution, although
\* the UPDATE asks neither for the status nor for the expiry.
THEOREM WorkersFinishTheirOwn == Spec => FinishesItsOwn
  <1> DEFINE Own(w) ==
        LET t == worker[w].task IN
        worker[w].pc = "finishing" /\ worker'[w].pc = "idle" /\ row' # row =>
          /\ row[t].status = "running"
          /\ row[t].version = worker[w].version
          /\ worker[w].result = "success" => worker[w].version \in pushed[t]
  <1>1. ASSUME IInv, Next, NEW w \in Workers, worker[w].pc = "finishing", worker'[w].pc = "idle",
               row' # row
        PROVE  Finish(w)
    <2>1. ASSUME NEW u \in Workers, WorkerStep(u) \/ Renew(u) \/ Die(u), u # w PROVE FALSE
      BY <1>1, <2>1 DEF IInv, TypeOK, WorkerStep, Defer, ReadDefers, CountDefer, CounterFails,
         Requeue, GiveUp, Claim, Block, FailEarly, Push, Renew,
                        Validate, Finish, Panic, PanicWrite, Die
    <2>2. ASSUME WorkerStep(w) \/ Renew(w) \/ Die(w) PROVE Finish(w)
      BY <1>1, <2>2 DEF IInv, TypeOK, WorkerStep, Defer, ReadDefers, CountDefer, CounterFails,
         Requeue, GiveUp, Claim, Block, FailEarly, Push, Renew,
                        Validate, Panic, PanicWrite, Die
    <2>3. ASSUME NEW u \in Workers, NEW t \in Tasks, Take(u, t) PROVE FALSE
      BY <1>1, <2>3 DEF Take
    <2>4. ASSUME NEW a \in Admins, NEW u \in Workers, RunInline(a, u) PROVE FALSE
      BY <1>1, <2>4 DEF RunInline
    <2>5. worker' # worker
      BY <1>1
    <2> QED
      BY <1>1, <2>1, <2>2, <2>3, <2>4, <2>5
      DEF Next, DefersExpire, LeaseLapses, AbandonedLapses, Reap, ReapWrite, Retry, Reset, Enqueue,
          Leave
  <1>2. ASSUME IInv, NEW w \in Workers, Finish(w), row' # row
        PROVE  Own(w)
    <2>1. Holds(w) /\ worker[w].task \in Tasks
      BY <1>2 DEF Finish, IInv, Busy
    <2> QED
      BY <1>2, <2>1, NamesAssumption DEF Finish, Holds, IInv, Owned, Reached
  <1>3. IInv /\ Next => \A w \in Workers : Own(w)
    BY <1>1, <1>2
  <1>4. IInv /\ [Next]_vars => [\A w \in Workers : Own(w)]_vars
    BY <1>3
  <1> QED
    BY <1>4, Inductive, PTL DEF Spec, FinishesItsOwn

-------------------------------------------------------------------------------
(* The abstract specification *)

Status == [t \in Tasks |-> row[t].status]
Holder == [t \in Tasks |-> row[t].owner]
Version == [t \in Tasks |-> row[t].version]

\* A row that is as it was to the abstract variables.
LEMMA RowStays ==
  ASSUME TypeOK, \A t \in Tasks : /\ row'[t].status = row[t].status
                                  /\ row'[t].owner = row[t].owner
                                  /\ row'[t].version = row[t].version
  PROVE  UNCHANGED <<Status, Holder, Version>>
  BY DEF Status, Holder, Version

\* Whoever writes without looking makes the holder lose the task.
LEMMA OverwriteLoses ==
  ASSUME TypeOK, NEW t \in Tasks, NEW victims,
         NEW s \in {"pending", "failed", "cancelled"}, Overwrite(t, s, victims)
  PROVE  Leased!Next
  <1>1. PICK r, v : /\ v = row[t].version /\ r = Unlocked(s, v)
                    /\ row' = [row EXCEPT ![t] = r]
    BY DEF Overwrite
  <1>2. r.status = s /\ r.owner = "none" /\ r.version = v
    BY <1>1 DEF Unlocked
  <1>3. /\ Status' = [Status EXCEPT ![t] = s]
        /\ Holder' = [Holder EXCEPT ![t] = "none"]
        /\ Version' = [Version EXCEPT ![t] = v]
    BY <1>1, <1>2 DEF TypeOK, Status, Holder, Version
  <1>4. Version' = Version
    BY <1>1, <1>3 DEF Version
  <1>5. Leased!Lose(t, s)
    BY <1>3, <1>4 DEF Leased!Lose, Status, Holder, Version
  <1> QED
    BY <1>5 DEF Leased!Next

\* A claim finds a pending row, and no name on it (Owned).
LEMMA ClaimClaims ==
  ASSUME IInv, NEW w \in Workers, Claim(w)
  PROVE  [Leased!Next]_Leased!vars
  <1>t. PICK t \in Tasks : t = worker[w].task
    BY DEF Claim, IInv, Busy
  <1>1. CASE ~Claimable(t)
    BY <1>1, <1>t DEF Claim, Leased!vars
  <1>2. CASE Claimable(t)
    <2>1. PICK r, v : /\ v = row[t].version + 1
                      /\ r = [status |-> "running", owner |-> w, lock |-> "live", version |-> v]
                      /\ row' = [row EXCEPT ![t] = r]
      BY <1>2, <1>t DEF Claim
    <2>2. row[t].status = "pending" /\ row[t].owner = "none"
      BY <1>2 DEF Claimable, IInv, Owned
    <2>3. TypeOK /\ r.status = "running" /\ r.owner = w /\ r.version = v
      BY <2>1 DEF IInv
    <2>4. /\ Status' = [Status EXCEPT ![t] = "running"]
          /\ Holder' = [Holder EXCEPT ![t] = w]
          /\ Version' = [Version EXCEPT ![t] = v]
      BY <2>1, <2>3 DEF TypeOK, Status, Holder, Version
    <2>5. Leased!Claim(t, w)
      BY <2>1, <2>2, <2>4 DEF Leased!Claim, Status, Holder, Version
    <2> QED
      BY <2>1, <2>5 DEF Leased!Next
  <1> QED
    BY <1>1, <1>2

\* The last UPDATE does not ask for the status; a row with the worker's name on it
\* is running all the same.
LEMMA FinishReports ==
  ASSUME IInv, NEW w \in Workers, Finish(w)
  PROVE  [Leased!Next]_Leased!vars
  <1>t. PICK t \in Tasks, o \in {"success", "failed"} : t = worker[w].task /\ o = worker[w].result
    BY DEF Finish, IInv, Busy, Finishes, TypeOK, WorkerStates
  <1>1. CASE ~Holds(w)
    BY <1>1 DEF Finish, Leased!vars
  <1>2. CASE Holds(w)
    <2>1. PICK r, v : /\ v = row[t].version /\ r = Unlocked(o, v)
                      /\ row' = [row EXCEPT ![t] = r]
      BY <1>2, <1>t DEF Finish
    <2>2. row[t].status = "running" /\ row[t].owner = w
      BY <1>2, <1>t, NamesAssumption DEF Holds, IInv, Owned
    <2>3. TypeOK /\ r.status = o /\ r.owner = "none" /\ r.version = v
      BY <2>1 DEF IInv, Unlocked
    <2>4. /\ Status' = [Status EXCEPT ![t] = o]
          /\ Holder' = [Holder EXCEPT ![t] = "none"]
          /\ Version' = [Version EXCEPT ![t] = v]
      BY <2>1, <2>3 DEF TypeOK, Status, Holder, Version
    <2>5. Version' = Version
      BY <2>1, <2>4 DEF Version
    <2>6. Leased!Report(t, w, o)
      BY <2>1, <2>2, <2>4, <2>5 DEF Leased!Report, Status, Holder, Version
    <2> QED
      BY <2>1, <2>6 DEF Leased!Next
  <1> QED
    BY <1>1, <1>2

\* A message is given up for a pending task, which nobody has.
LEMMA GiveUpLoses ==
  ASSUME IInv, NEW w \in Workers, GiveUp(w)
  PROVE  [Leased!Next]_Leased!vars
  <1>t. PICK t \in Tasks : t = worker[w].task
    BY DEF GiveUp, IInv, Busy
  <1>1. CASE row[t].status # "pending"
    BY <1>1, <1>t DEF GiveUp, Leased!vars
  <1>2. CASE row[t].status = "pending"
    <2>1. PICK r, v : /\ v = row[t].version /\ r = [row[t] EXCEPT !.status = "failed"]
                      /\ row' = [row EXCEPT ![t] = r]
      BY <1>2, <1>t DEF GiveUp
    <2>2. row[t].owner = "none"
      BY <1>2 DEF IInv, Owned
    <2>3. TypeOK /\ r.status = "failed" /\ r.owner = "none" /\ r.version = v
      BY <2>1, <2>2 DEF IInv, TypeOK, Rows
    <2>4. /\ Status' = [Status EXCEPT ![t] = "failed"]
          /\ Holder' = [Holder EXCEPT ![t] = "none"]
          /\ Version' = [Version EXCEPT ![t] = v]
      BY <2>1, <2>3 DEF TypeOK, Status, Holder, Version
    <2>5. Version' = Version
      BY <2>1, <2>4 DEF Version
    <2>6. Leased!Lose(t, "failed")
      BY <2>4, <2>5 DEF Leased!Lose, Status, Holder, Version
    <2> QED
      BY <2>1, <2>6 DEF Leased!Next
  <1> QED
    BY <1>1, <1>2

\* A lease that lapses or is renewed is nothing to the abstract task.
LEMMA LeaseIsNothing ==
  ASSUME TypeOK,
         \/ \E w \in Workers : Renew(w)
         \/ \E t \in Tasks : LeaseLapses(t) \/ AbandonedLapses(t)
  PROVE  [Leased!Next]_Leased!vars
  <1>1. PICK t, l : row' = [row EXCEPT ![t].lock = l]
    BY DEF Renew, LeaseLapses, AbandonedLapses
  <1>2. \A u \in Tasks : /\ row'[u].status = row[u].status
                         /\ row'[u].owner = row[u].owner
                         /\ row'[u].version = row[u].version
    BY <1>1 DEF TypeOK, Rows
  <1> QED
    BY <1>2, RowStays DEF Leased!vars, Status, Holder, Version

\* Every step of the services is one of the leased task's, or none.
LEMMA LeasedStep ==
  ASSUME IInv, [Next]_vars
  PROVE  [Leased!Next]_Leased!vars
  <1>t. TypeOK
    BY DEF IInv
  <1>1. ASSUME UNCHANGED row PROVE [Leased!Next]_Leased!vars
    BY <1>1 DEF Leased!vars
  <1>2. ASSUME NEW w \in Workers, Block(w) \/ PanicWrite(w)
        PROVE  [Leased!Next]_Leased!vars
    <2>1. worker[w].task \in Tasks
      BY <1>2 DEF Block, PanicWrite, IInv, Busy
    <2>2. \E s \in {"failed", "cancelled"} : Overwrite(worker[w].task, s, Workers \ {w})
      BY <1>2 DEF Block, PanicWrite
    <2> QED
      BY <1>t, <2>1, <2>2, OverwriteLoses
  <1>3. ASSUME NEW r \in Reapers, ReapWrite(r)
        PROVE  [Leased!Next]_Leased!vars
    <2>1. reaper[r] \in Tasks
      BY <1>t, <1>3 DEF ReapWrite, TypeOK
    <2> QED
      BY <1>t, <1>3, <2>1, OverwriteLoses DEF ReapWrite
  <1>4. ASSUME NEW a \in Admins, Reset(a)
        PROVE  [Leased!Next]_Leased!vars
    <2>1. admin[a].task \in Tasks
      BY <1>4 DEF Reset, IInv, Busy
    <2> QED
      BY <1>t, <1>4, <2>1, OverwriteLoses DEF Reset
  <1>5. ASSUME NEW w \in Workers, WorkerStep(w) \/ Renew(w) \/ Die(w)
        PROVE  [Leased!Next]_Leased!vars
    BY <1>t, <1>1, <1>2, <1>5, ClaimClaims, FinishReports, GiveUpLoses, LeaseIsNothing
    DEF WorkerStep, Defer, ReadDefers, CountDefer, CounterFails, Requeue, FailEarly, Push,
        Validate, Panic, Die
  <1>6. ASSUME NEW w \in Workers, NEW t \in Tasks, Take(w, t)
        PROVE  [Leased!Next]_Leased!vars
    BY <1>1, <1>6 DEF Take
  <1>7. ASSUME NEW t \in Tasks, DefersExpire(t) \/ LeaseLapses(t) \/ AbandonedLapses(t)
        PROVE  [Leased!Next]_Leased!vars
    BY <1>t, <1>1, <1>7, LeaseIsNothing DEF DefersExpire
  <1>8. ASSUME NEW r \in Reapers, NEW t \in Tasks, Reap(r, t)
        PROVE  [Leased!Next]_Leased!vars
    BY <1>1, <1>8 DEF Reap
  <1>9. ASSUME NEW a \in Admins, Enqueue(a) \/ Leave(a) \/ \E t \in Tasks : Retry(a, t)
        PROVE  [Leased!Next]_Leased!vars
    BY <1>1, <1>9 DEF Enqueue, Leave, Retry
  <1>10. ASSUME NEW a \in Admins, NEW w \in Workers, RunInline(a, w)
         PROVE  [Leased!Next]_Leased!vars
    BY <1>1, <1>10 DEF RunInline
  <1>11. CASE UNCHANGED vars
    BY <1>1, <1>11 DEF vars
  <1> QED
    BY <1>3, <1>4, <1>5, <1>6, <1>7, <1>8, <1>9, <1>10, <1>11 DEF Next

\* Refinement: for any number of tasks, workers, reapers and administrators, only
\* the holder of a running version reports its outcome.
THEOREM KeepsTheLease == Spec => ImplementsLeasedTask
  <1>1. Init => Leased!Init
    BY DEF Init, Leased!Init, Unlocked
  <1>2. IInv /\ [Next]_vars => [Leased!Next]_Leased!vars
    BY LeasedStep
  <1> QED
    BY <1>1, <1>2, Inductive, PTL DEF Spec, ImplementsLeasedTask, Leased!Spec
===============================================================================
