--------------------------- MODULE OrderIntakeProofs ---------------------------
(***************************************************************************)
(* Proofs about OrderIntake: types, one worker at an event, one digest of  *)
(* a revision, and that what is processed is reflected in the order.       *)
(***************************************************************************)
EXTENDS OrderIntake, TLAPS

EventStages == {"store", "create_store", "insert", "stored",
                "handle", "create_handle", "claim", "mark", "handled",
                "mark_failed", "fail"}
ImportStages == {"import", "create_import", "look", "write", "complete"}

\* A process that stores, handles or marks is at an event; one that imports is
\* at a payload, and a worker that imports is at both.
WellPlaced(x) ==
  {s \in Processing :
     /\ s.at \in EventStages => s.event \in Events
     /\ s.at \in ImportStages => s.payload \in Payloads
     /\ s.at \in ImportStages /\ x \in Workers => s.event \in Events}

Placed == \A x \in Processes : proc[x] \in WellPlaced(x)

TypeInv == TypeOK /\ Placed

Hashes == Payloads \union {Nothing}

-------------------------------------------------------------------------------
(* Types *)

\* What is done to a key's record leaves a record.
LEMMA KeysAreKeys ==
  ASSUME NEW H
  PROVE  /\ NoKey \in KeysOver(H)
         /\ \A h \in H : Key("held", h) \in KeysOver(H)
         /\ \A k \in KeysOver(H) :
              /\ Taken(k) \in KeysOver(H)
              /\ Completed(k) \in KeysOver(H)
              /\ FailedKey(k) \in KeysOver(H)
              /\ Lapsed(k) \in KeysOver(H)
  BY DEF NoKey, Key, KeysOver, KeyStatuses, Taken, Completed, Completes, FailedKey, Lapsed

\* A process that begins
LEMMA Beginnings ==
  ASSUME NEW x
  PROVE  /\ Idle \in WellPlaced(x)
         /\ \A e \in Events : [Idle EXCEPT !.at = "store", !.event = e] \in WellPlaced(x)
         /\ \A b \in SUBSET Events : [Idle EXCEPT !.at = "next", !.batch = b] \in WellPlaced(x)
         /\ x \notin Workers => \A p \in Payloads :
              [Idle EXCEPT !.at = "import", !.payload = p] \in WellPlaced(x)
  BY DEF WellPlaced, Processing, Idle, Stages, EventStages, ImportStages

\* A process that goes on
LEMMA Moves ==
  ASSUME NEW x, NEW s \in WellPlaced(x)
  PROVE  /\ s \in Processing
         /\ s.at \in EventStages =>
              \A t \in EventStages : [s EXCEPT !.at = t] \in WellPlaced(x)
         /\ s.at \in ImportStages =>
              /\ \A t \in ImportStages : [s EXCEPT !.at = t] \in WellPlaced(x)
              /\ \A t \in ImportStages, o \in Payloads \union {Nothing} :
                   [s EXCEPT !.saw = o, !.at = t] \in WellPlaced(x)
              /\ x \in Workers =>
                   \A t \in {"mark", "mark_failed"} :
                     [s EXCEPT !.at = t, !.saw = Nothing] \in WellPlaced(x)
  BY DEF WellPlaced, Processing, Stages, EventStages, ImportStages

\* A worker that comes to an event, and to what it carries
LEMMA WorkerMoves ==
  ASSUME NEW x, NEW s \in WellPlaced(x), NEW b \in SUBSET Events
  PROVE  /\ s.at = "next" => [s EXCEPT !.batch = b] \in WellPlaced(x)
         /\ \A e \in Events :
              [s EXCEPT !.at = "handle", !.event = e, !.batch = b] \in WellPlaced(x)
         /\ s.at = "claim" => \A c \in Payloads \union {Nothing} :
              [s EXCEPT !.payload = c, !.at = IF c = Nothing THEN "mark" ELSE "import"]
                \in WellPlaced(x)
  BY DEF WellPlaced, Processing, Stages, EventStages, ImportStages

\* What a process that is where it may be is at.
LEMMA Fields ==
  ASSUME NEW x, NEW s \in WellPlaced(x)
  PROVE  /\ s \in Processing
         /\ s.batch \in SUBSET Events
         /\ s.at \in EventStages => s.event \in Events
         /\ s.at \in ImportStages => s.payload \in Payloads
         /\ s.at \in ImportStages /\ x \in Workers => s.event \in Events
  BY DEF WellPlaced, Processing

\* What a changed process reads
LEMMA Reads ==
  ASSUME NEW s \in Processing, NEW t, NEW u, NEW v
  PROVE  /\ [s EXCEPT !.at = t].at = t
         /\ [s EXCEPT !.at = t].event = s.event
         /\ [s EXCEPT !.at = t].payload = s.payload
         /\ [s EXCEPT !.at = t, !.saw = u].at = t
         /\ [s EXCEPT !.at = t, !.saw = u].event = s.event
         /\ [s EXCEPT !.at = t, !.saw = u].payload = s.payload
         /\ [s EXCEPT !.saw = u, !.at = t].at = t
         /\ [s EXCEPT !.saw = u, !.at = t].event = s.event
         /\ [s EXCEPT !.saw = u, !.at = t].payload = s.payload
         /\ [s EXCEPT !.batch = t].at = s.at
         /\ [s EXCEPT !.at = t, !.event = u, !.batch = v].at = t
         /\ [s EXCEPT !.payload = u, !.at = t].at = t
         /\ [s EXCEPT !.payload = u, !.at = t].event = s.event
         /\ [s EXCEPT !.payload = u, !.at = t].payload = u
  BY DEF Processing

\* What a process that begins its work reads.
LEMMA IdleReads ==
  ASSUME NEW t, NEW u
  PROVE  /\ Idle.at = "idle"
         /\ [Idle EXCEPT !.at = t, !.batch = u].at = t
         /\ [Idle EXCEPT !.at = t, !.event = u].at = t
         /\ [Idle EXCEPT !.at = t, !.payload = u].at = t
         /\ [Idle EXCEPT !.at = t, !.payload = u].payload = u
  BY DEF Idle

\* Where an importer is sent with its answer
LEMMA Answers ==
  ASSUME proc \in [Processes -> Processing], NEW i \in Processes
  PROVE  /\ Succeed(i) => proc'[i].at \in {"idle", "mark"}
         /\ Err(i) => proc'[i].at \in {"idle", "mark_failed"}
<1>1. proc[i] \in Processing
  OBVIOUS
<1>2. CASE i \in Pollers
  <2>1. Succeed(i) => proc'[i] = Idle
    BY <1>2 DEF Succeed
  <2>2. Err(i) => proc'[i] = Idle
    BY <1>2 DEF Err
  <2>3. Idle.at = "idle"
    BY DEF Idle
  <2> QED  BY <2>1, <2>2, <2>3
<1>3. CASE ~(i \in Pollers)
  <2>1. Succeed(i) => proc'[i] = [proc[i] EXCEPT !.at = "mark", !.saw = Nothing]
    BY <1>3 DEF Succeed
  <2>2. Err(i) => proc'[i] = [proc[i] EXCEPT !.at = "mark_failed", !.saw = Nothing]
    BY <1>3 DEF Err
  <2>3. [proc[i] EXCEPT !.at = "mark", !.saw = Nothing].at = "mark"
    BY <1>1 DEF Processing
  <2>4. [proc[i] EXCEPT !.at = "mark_failed", !.saw = Nothing].at = "mark_failed"
    BY <1>1 DEF Processing
  <2> QED  BY <2>1, <2>2, <2>3, <2>4
<1> QED  BY <1>2, <1>3

\* The keys stay keys when one of them is changed.
LEMMA KeyUpdates ==
  ASSUME NEW D, NEW H, NEW f \in [D -> KeysOver(H)], NEW d \in D
  PROVE  /\ [f EXCEPT ![d] = Taken(@)] \in [D -> KeysOver(H)]
         /\ [f EXCEPT ![d] = Completed(@)] \in [D -> KeysOver(H)]
         /\ [f EXCEPT ![d] = FailedKey(@)] \in [D -> KeysOver(H)]
         /\ [f EXCEPT ![d] = Lapsed(@)] \in [D -> KeysOver(H)]
         /\ \A h \in H : [f EXCEPT ![d] = Key("held", h)] \in [D -> KeysOver(H)]
  BY KeysAreKeys

\* A fault is counted within its bound.
LEMMA FaultStep ==
  ASSUME faults \in 0 .. MaxFaults, Fault
  PROVE  faults' \in 0 .. MaxFaults
  BY FaultsAssumption DEF Fault

\* One process that moves to where it may be leaves all where they may be.
LEMMA ProcStep ==
  ASSUME TypeInv, NEW x \in Processes, NEW s \in WellPlaced(x),
         proc' = [proc EXCEPT ![x] = s]
  PROVE  proc' \in [Processes -> Processing] /\ Placed'
  BY DEF TypeInv, TypeOK, Placed, WellPlaced

\* Every step leaves the processes where they may be ...
LEMMA PlaceStep ==
  ASSUME TypeInv, [Next]_vars
  PROVE  proc' \in [Processes -> Processing] /\ Placed'
<1> DEFINE Goal == proc' \in [Processes -> Processing] /\ Placed'
<1>0. /\ proc \in [Processes -> Processing] /\ order \in Payloads \union {Nothing}
      /\ \A e \in Events : content[e] \in Payloads \union {Nothing}
      /\ \A x \in Processes : proc[x] \in WellPlaced(x)
      /\ \A x \in Processes : [proc EXCEPT ![x] = proc[x]] = proc
  BY ContentsAssumption DEF TypeInv, TypeOK, Placed
<1>a. ASSUME NEW x \in Processes, NEW s \in WellPlaced(x), proc' = [proc EXCEPT ![x] = s]
      PROVE  Goal
  BY <1>a, ProcStep
<1>1. ASSUME NEW r \in Requests, NEW e \in Events, ReceiveAgain(r, e) PROVE Goal
  BY <1>1 DEF ReceiveAgain, TypeInv, TypeOK, Placed
<1>2. ASSUME NEW r \in Requests, NEW e \in Events, Receive(r, e) PROVE Goal
  <2>1. r \in Processes
    BY DEF Processes, Importers
  <2>2. proc[r] \in WellPlaced(r)
    BY <1>0, <2>1
  <2>3. \E s \in WellPlaced(r) : proc' = [proc EXCEPT ![r] = s]
    BY <1>0, <1>2, <2>1, <2>2, Beginnings DEF Receive, EventStages, ImportStages,
      Importers
  <2> QED  BY <1>a, <2>1, <2>3
<1>3. ASSUME NEW r \in Requests, AcquireStore(r) PROVE Goal
  <2>1. r \in Processes
    BY DEF Processes, Importers
  <2>2. proc[r] \in WellPlaced(r)
    BY <1>0, <2>1
  <2>3. \E s \in WellPlaced(r) : proc' = [proc EXCEPT ![r] = s]
    BY <1>0, <1>3, <2>1, <2>2, Moves, Beginnings DEF AcquireStore, Goto, EventStages,
      ImportStages, Importers
  <2> QED  BY <1>a, <2>1, <2>3
<1>4. ASSUME NEW r \in Requests, CreateStore(r) PROVE Goal
  <2>1. r \in Processes
    BY DEF Processes, Importers
  <2>2. proc[r] \in WellPlaced(r)
    BY <1>0, <2>1
  <2>3. \E s \in WellPlaced(r) : proc' = [proc EXCEPT ![r] = s]
    BY <1>0, <1>4, <2>1, <2>2, Moves, Beginnings DEF CreateStore, Goto, EventStages,
      ImportStages, Importers
  <2> QED  BY <1>a, <2>1, <2>3
<1>5. ASSUME NEW r \in Requests, Insert(r) PROVE Goal
  <2>1. r \in Processes
    BY DEF Processes, Importers
  <2>2. proc[r] \in WellPlaced(r)
    BY <1>0, <2>1
  <2>3. \E s \in WellPlaced(r) : proc' = [proc EXCEPT ![r] = s]
    BY <1>0, <1>5, <2>1, <2>2, Moves, Beginnings DEF Insert, Goto, EventStages,
      ImportStages, Importers
  <2> QED  BY <1>a, <2>1, <2>3
<1>6. ASSUME NEW r \in Requests, InsertFails(r) PROVE Goal
  <2>1. r \in Processes
    BY DEF Processes, Importers
  <2>2. proc[r] \in WellPlaced(r)
    BY <1>0, <2>1
  <2>3. \E s \in WellPlaced(r) : proc' = [proc EXCEPT ![r] = s]
    BY <1>0, <1>6, <2>1, <2>2, Beginnings DEF InsertFails, EventStages, ImportStages,
      Importers
  <2> QED  BY <1>a, <2>1, <2>3
<1>7. ASSUME NEW r \in Requests, CompleteStore(r) PROVE Goal
  <2>1. r \in Processes
    BY DEF Processes, Importers
  <2>2. proc[r] \in WellPlaced(r)
    BY <1>0, <2>1
  <2>3. \E s \in WellPlaced(r) : proc' = [proc EXCEPT ![r] = s]
    BY <1>0, <1>7, <2>1, <2>2, Beginnings DEF CompleteStore, EventStages,
      ImportStages, Importers
  <2> QED  BY <1>a, <2>1, <2>3
<1>8. ASSUME NEW w \in Workers, Poll(w) PROVE Goal
  <2>1. w \in Processes
    BY DEF Processes, Importers
  <2>2. proc[w] \in WellPlaced(w)
    BY <1>0, <2>1
  <2>3. \E s \in WellPlaced(w) : proc' = [proc EXCEPT ![w] = s]
    BY <1>0, <1>8, <2>1, <2>2, Beginnings DEF Poll, Pollable, EventStages,
      ImportStages, Importers
  <2> QED  BY <1>a, <2>1, <2>3
<1>9. ASSUME NEW w \in Workers, NEW e \in Events, Load(w, e) PROVE Goal
  <2>1. w \in Processes
    BY DEF Processes, Importers
  <2>2. proc[w] \in WellPlaced(w)
    BY <1>0, <2>1
  <2>3. \E s \in WellPlaced(w) : proc' = [proc EXCEPT ![w] = s]
    BY <1>0, <1>9, <2>1, <2>2, WorkerMoves, Beginnings, Fields DEF Load, EventStages,
      ImportStages, Importers
  <2> QED  BY <1>a, <2>1, <2>3
<1>10. ASSUME NEW w \in Workers, AcquireHandle(w) PROVE Goal
  <2>1. w \in Processes
    BY DEF Processes, Importers
  <2>2. proc[w] \in WellPlaced(w)
    BY <1>0, <2>1
  <2>3. \E s \in WellPlaced(w) : proc' = [proc EXCEPT ![w] = s]
    BY <1>0, <1>10, <2>1, <2>2, Moves, Beginnings, Fields DEF AcquireHandle, Goto,
      NextOfBatch, EventStages, ImportStages, Importers
  <2> QED  BY <1>a, <2>1, <2>3
<1>11. ASSUME NEW w \in Workers, CreateHandle(w) PROVE Goal
  <2>1. w \in Processes
    BY DEF Processes, Importers
  <2>2. proc[w] \in WellPlaced(w)
    BY <1>0, <2>1
  <2>3. \E s \in WellPlaced(w) : proc' = [proc EXCEPT ![w] = s]
    BY <1>0, <1>11, <2>1, <2>2, Moves, Beginnings, Fields DEF CreateHandle, Goto,
      NextOfBatch, EventStages, ImportStages, Importers
  <2> QED  BY <1>a, <2>1, <2>3
<1>12. ASSUME NEW w \in Workers, Claim(w) PROVE Goal
  <2>1. w \in Processes
    BY DEF Processes, Importers
  <2>2. proc[w] \in WellPlaced(w)
    BY <1>0, <2>1
  <2>3. \E s \in WellPlaced(w) : proc' = [proc EXCEPT ![w] = s]
    BY <1>0, <1>12, <2>1, <2>2, WorkerMoves, Fields DEF Claim, Claimable, EventStages,
      ImportStages, Importers
  <2> QED  BY <1>a, <2>1, <2>3
<1>13. ASSUME NEW w \in Workers, ClaimNothing(w) PROVE Goal
  <2>1. w \in Processes
    BY DEF Processes, Importers
  <2>2. proc[w] \in WellPlaced(w)
    BY <1>0, <2>1
  <2>3. \E s \in WellPlaced(w) : proc' = [proc EXCEPT ![w] = s]
    BY <1>0, <1>13, <2>1, <2>2, Beginnings, Fields DEF ClaimNothing, NextOfBatch,
      Claimable, EventStages, ImportStages, Importers
  <2> QED  BY <1>a, <2>1, <2>3
<1>14. ASSUME NEW w \in Workers, MarkProcessed(w) PROVE Goal
  <2>1. w \in Processes
    BY DEF Processes, Importers
  <2>2. proc[w] \in WellPlaced(w)
    BY <1>0, <2>1
  <2>3. \E s \in WellPlaced(w) : proc' = [proc EXCEPT ![w] = s]
    BY <1>0, <1>14, <2>1, <2>2, Moves DEF MarkProcessed, Goto, EventStages,
      ImportStages, Importers
  <2> QED  BY <1>a, <2>1, <2>3
<1>15. ASSUME NEW w \in Workers, CompleteHandle(w) PROVE Goal
  <2>1. w \in Processes
    BY DEF Processes, Importers
  <2>2. proc[w] \in WellPlaced(w)
    BY <1>0, <2>1
  <2>3. \E s \in WellPlaced(w) : proc' = [proc EXCEPT ![w] = s]
    BY <1>0, <1>15, <2>1, <2>2, Beginnings, Fields DEF CompleteHandle, NextOfBatch,
      EventStages, ImportStages, Importers
  <2> QED  BY <1>a, <2>1, <2>3
<1>16. ASSUME NEW w \in Workers, MarkFailed(w) PROVE Goal
  <2>1. w \in Processes
    BY DEF Processes, Importers
  <2>2. proc[w] \in WellPlaced(w)
    BY <1>0, <2>1
  <2>3. \E s \in WellPlaced(w) : proc' = [proc EXCEPT ![w] = s]
    BY <1>0, <1>16, <2>1, <2>2, Moves DEF MarkFailed, Goto, EventStages, ImportStages,
      Importers
  <2> QED  BY <1>a, <2>1, <2>3
<1>17. ASSUME NEW w \in Workers, FailHandle(w) PROVE Goal
  <2>1. w \in Processes
    BY DEF Processes, Importers
  <2>2. proc[w] \in WellPlaced(w)
    BY <1>0, <2>1
  <2>3. \E s \in WellPlaced(w) : proc' = [proc EXCEPT ![w] = s]
    BY <1>0, <1>17, <2>1, <2>2, Beginnings, Fields DEF FailHandle, NextOfBatch,
      EventStages, ImportStages, Importers
  <2> QED  BY <1>a, <2>1, <2>3
<1>18. ASSUME NEW w \in Workers, HandlerFails(w) PROVE Goal
  <2>1. w \in Processes
    BY DEF Processes, Importers
  <2>2. proc[w] \in WellPlaced(w)
    BY <1>0, <2>1
  <2>3. \E s \in WellPlaced(w) : proc' = [proc EXCEPT ![w] = s]
    BY <1>0, <1>18, <2>1, <2>2, Moves, ProcessAssumption DEF HandlerFails, Err,
      EventStages, ImportStages, Importers
  <2> QED  BY <1>a, <2>1, <2>3
<1>19. ASSUME NEW w \in Workers, MarkFails(w) PROVE Goal
  <2>1. w \in Processes
    BY DEF Processes, Importers
  <2>2. proc[w] \in WellPlaced(w)
    BY <1>0, <2>1
  <2>3. \E s \in WellPlaced(w) : proc' = [proc EXCEPT ![w] = s]
    BY <1>0, <1>19, <2>1, <2>2, Beginnings, Fields DEF MarkFails, NextOfBatch,
      EventStages, ImportStages, Importers
  <2> QED  BY <1>a, <2>1, <2>3
<1>20. ASSUME NEW i \in Importers, AcquireImport(i) PROVE Goal
  <2>1. i \in Processes
    BY DEF Processes, Importers
  <2>2. proc[i] \in WellPlaced(i)
    BY <1>0, <2>1
  <2>3. \E s \in WellPlaced(i) : proc' = [proc EXCEPT ![i] = s]
    BY <1>0, <1>20, <2>1, <2>2, Moves, Beginnings DEF AcquireImport, Goto, Succeed,
      Err, EventStages, ImportStages, Importers
  <2> QED  BY <1>a, <2>1, <2>3
<1>21. ASSUME NEW i \in Importers, CreateImport(i) PROVE Goal
  <2>1. i \in Processes
    BY DEF Processes, Importers
  <2>2. proc[i] \in WellPlaced(i)
    BY <1>0, <2>1
  <2>3. \E s \in WellPlaced(i) : proc' = [proc EXCEPT ![i] = s]
    BY <1>0, <1>21, <2>1, <2>2, Moves, Beginnings DEF CreateImport, Goto, Err,
      EventStages, ImportStages, Importers
  <2> QED  BY <1>a, <2>1, <2>3
<1>22. ASSUME NEW i \in Importers, Look(i) PROVE Goal
  <2>1. i \in Processes
    BY DEF Processes, Importers
  <2>2. proc[i] \in WellPlaced(i)
    BY <1>0, <2>1
  <2>3. \E s \in WellPlaced(i) : proc' = [proc EXCEPT ![i] = s]
    BY <1>0, <1>22, <2>1, <2>2, Moves DEF Look, EventStages, ImportStages, Importers
  <2> QED  BY <1>a, <2>1, <2>3
<1>23. ASSUME NEW i \in Importers, Write(i) PROVE Goal
  <2>1. i \in Processes
    BY DEF Processes, Importers
  <2>2. proc[i] \in WellPlaced(i)
    BY <1>0, <2>1
  <2>3. \E s \in WellPlaced(i) : proc' = [proc EXCEPT ![i] = s]
    BY <1>0, <1>23, <2>1, <2>2, Moves DEF Write, Goto, EventStages, ImportStages,
      Importers
  <2> QED  BY <1>a, <2>1, <2>3
<1>24. ASSUME NEW i \in Importers, WriteFails(i) PROVE Goal
  <2>1. i \in Processes
    BY DEF Processes, Importers
  <2>2. proc[i] \in WellPlaced(i)
    BY <1>0, <2>1
  <2>3. \E s \in WellPlaced(i) : proc' = [proc EXCEPT ![i] = s]
    BY <1>0, <1>24, <2>1, <2>2, Moves, Beginnings DEF WriteFails, Err, EventStages,
      ImportStages, Importers
  <2> QED  BY <1>a, <2>1, <2>3
<1>25. ASSUME NEW i \in Importers, CompleteImport(i) PROVE Goal
  <2>1. i \in Processes
    BY DEF Processes, Importers
  <2>2. proc[i] \in WellPlaced(i)
    BY <1>0, <2>1
  <2>3. \E s \in WellPlaced(i) : proc' = [proc EXCEPT ![i] = s]
    BY <1>0, <1>25, <2>1, <2>2, Moves, Beginnings DEF CompleteImport, Succeed, Err,
      EventStages, ImportStages, Importers
  <2> QED  BY <1>a, <2>1, <2>3
<1>26. ASSUME NEW i \in Pollers, NEW p \in Polled, PollOrder(i, p) PROVE Goal
  <2>1. i \in Processes
    BY DEF Processes, Importers
  <2>2. proc[i] \in WellPlaced(i)
    BY <1>0, <2>1
  <2>3. \E s \in WellPlaced(i) : proc' = [proc EXCEPT ![i] = s]
    BY <1>0, <1>26, <2>1, <2>2, Beginnings, ProcessAssumption, PayloadAssumption DEF
      PollOrder, EventStages, ImportStages, Importers
  <2> QED  BY <1>a, <2>1, <2>3
<1>27. ASSUME NEW x \in Processes, Crash(x) PROVE Goal
  <2>1. x \in Processes
    BY DEF Processes, Importers
  <2>2. proc[x] \in WellPlaced(x)
    BY <1>0, <2>1
  <2>3. \E s \in WellPlaced(x) : proc' = [proc EXCEPT ![x] = s]
    BY <1>0, <1>27, <2>1, <2>2, Beginnings DEF Crash, EventStages, ImportStages,
      Importers
  <2> QED  BY <1>a, <2>1, <2>3
<1>28. ASSUME LeaseLapses PROVE Goal
  BY <1>28 DEF LeaseLapses, TypeInv, TypeOK, Placed
<1>29. ASSUME UNCHANGED vars PROVE Goal
  BY <1>29 DEF vars, TypeInv, TypeOK, Placed
<1>q. QED
  BY <1>1, <1>2, <1>3, <1>4, <1>5, <1>6, <1>7, <1>8, <1>9, <1>10, <1>11, <1>12, <1>13,
    <1>14, <1>15, <1>16, <1>17, <1>18, <1>19, <1>20, <1>21, <1>22, <1>23, <1>24, <1>25,
    <1>26, <1>27, <1>28, <1>29 DEF Next, WorkerStep, Import, Importers

\* ... and the other variables in their types.
LEMMA TypeStep ==
  ASSUME TypeInv, [Next]_vars
  PROVE  TypeInv'
<1>0. proc' \in [Processes -> Processing] /\ Placed'
  BY PlaceStep
<1>a. /\ \A x \in Processes : proc[x] \in WellPlaced(x)
      /\ content \in [Events -> Hashes]
      /\ stored \in [Events -> KeysOver(Hashes)]
      /\ handled \in [Events -> KeysOver(Hashes)]
  BY ContentsAssumption DEF TypeInv, TypeOK, Placed, Hashes
<1>1. ASSUME NEW r \in Requests, NEW e \in Events, ReceiveAgain(r, e)
      PROVE  TypeInv'
  BY <1>0, <1>1 DEF ReceiveAgain, TypeInv, TypeOK, keys
<1>2. ASSUME NEW r \in Requests, NEW e \in Events, Receive(r, e)
      PROVE  TypeInv'
  BY <1>0, <1>2 DEF Receive, TypeInv, TypeOK, keys
<1>3. ASSUME NEW r \in Requests, AcquireStore(r)
      PROVE  TypeInv'
  <2>1. proc[r] \in WellPlaced(r) /\ r \in Processes
    BY <1>a DEF Processes, Importers
  <2>2. proc[r].event \in Events
    BY <1>3, <2>1, Fields DEF AcquireStore, EventStages, ImportStages
  <2>3. stored' \in [Events -> KeysOver(Hashes)]
    BY <1>3, <1>a, <2>2, KeyUpdates DEF AcquireStore, TypeInv, TypeOK, Revisions, keys
  <2> QED
    BY <1>0, <1>3, <1>a, <2>2, <2>3 DEF AcquireStore, TypeInv, TypeOK, Hashes, keys
<1>4. ASSUME NEW r \in Requests, CreateStore(r)
      PROVE  TypeInv'
  <2>1. proc[r] \in WellPlaced(r) /\ r \in Processes
    BY <1>a DEF Processes, Importers
  <2>2. proc[r].event \in Events
    BY <1>4, <2>1, Fields DEF CreateStore, EventStages, ImportStages
  <2>3. stored' \in [Events -> KeysOver(Hashes)]
    BY <1>4, <1>a, <2>2, KeyUpdates DEF CreateStore, TypeInv, TypeOK, Revisions, keys
  <2> QED
    BY <1>0, <1>4, <1>a, <2>2, <2>3 DEF CreateStore, TypeInv, TypeOK, Hashes, keys
<1>5. ASSUME NEW r \in Requests, Insert(r)
      PROVE  TypeInv'
  <2>1. proc[r] \in WellPlaced(r) /\ r \in Processes
    BY <1>a DEF Processes, Importers
  <2>2. proc[r].event \in Events
    BY <1>5, <2>1, Fields DEF Insert, EventStages, ImportStages
  <2>3. stored' \in [Events -> KeysOver(Hashes)]
    BY <1>5, <1>a, <2>2, KeyUpdates DEF Insert, TypeInv, TypeOK, Revisions, keys
  <2> QED
    BY <1>0, <1>5, <1>a, <2>2, <2>3 DEF Insert, TypeInv, TypeOK, Hashes, keys,
      EventStatuses
<1>6. ASSUME NEW r \in Requests, InsertFails(r)
      PROVE  TypeInv'
  <2>1. proc[r] \in WellPlaced(r) /\ r \in Processes
    BY <1>a DEF Processes, Importers
  <2>2. proc[r].event \in Events
    BY <1>6, <2>1, Fields DEF InsertFails, EventStages, ImportStages
  <2>3. stored' \in [Events -> KeysOver(Hashes)]
    BY <1>6, <1>a, <2>2, KeyUpdates DEF InsertFails, TypeInv, TypeOK, Revisions, keys
  <2>4. faults' \in 0 .. MaxFaults
    BY <1>6, FaultStep DEF InsertFails, TypeInv, TypeOK
  <2> QED
    BY <1>0, <1>6, <1>a, <2>2, <2>3, <2>4 DEF InsertFails, TypeInv, TypeOK, Hashes,
      keys
<1>7. ASSUME NEW r \in Requests, CompleteStore(r)
      PROVE  TypeInv'
  <2>1. proc[r] \in WellPlaced(r) /\ r \in Processes
    BY <1>a DEF Processes, Importers
  <2>2. proc[r].event \in Events
    BY <1>7, <2>1, Fields DEF CompleteStore, EventStages, ImportStages
  <2>3. stored' \in [Events -> KeysOver(Hashes)]
    BY <1>7, <1>a, <2>2, KeyUpdates DEF CompleteStore, TypeInv, TypeOK, Revisions,
      keys
  <2> QED
    BY <1>0, <1>7, <1>a, <2>2, <2>3 DEF CompleteStore, TypeInv, TypeOK, Hashes, keys
<1>8. ASSUME NEW w \in Workers, Poll(w)
      PROVE  TypeInv'
  BY <1>0, <1>8 DEF Poll, TypeInv, TypeOK, keys
<1>9. ASSUME NEW w \in Workers, NEW e \in Events, Load(w, e)
      PROVE  TypeInv'
  BY <1>0, <1>9 DEF Load, TypeInv, TypeOK, keys
<1>10. ASSUME NEW w \in Workers, AcquireHandle(w)
      PROVE  TypeInv'
  <2>1. proc[w] \in WellPlaced(w) /\ w \in Processes
    BY <1>a DEF Processes, Importers
  <2>2. proc[w].event \in Events
    BY <1>10, <2>1, Fields DEF AcquireHandle, EventStages, ImportStages
  <2>3. handled' \in [Events -> KeysOver(Hashes)]
    BY <1>10, <1>a, <2>2, KeyUpdates DEF AcquireHandle, TypeInv, TypeOK, Revisions,
      keys
  <2> QED
    BY <1>0, <1>10, <1>a, <2>2, <2>3 DEF AcquireHandle, TypeInv, TypeOK, Hashes, keys
<1>11. ASSUME NEW w \in Workers, CreateHandle(w)
      PROVE  TypeInv'
  <2>1. proc[w] \in WellPlaced(w) /\ w \in Processes
    BY <1>a DEF Processes, Importers
  <2>2. proc[w].event \in Events
    BY <1>11, <2>1, Fields DEF CreateHandle, EventStages, ImportStages
  <2>3. handled' \in [Events -> KeysOver(Hashes)]
    BY <1>11, <1>a, <2>2, KeyUpdates DEF CreateHandle, TypeInv, TypeOK, Revisions,
      keys
  <2> QED
    BY <1>0, <1>11, <1>a, <2>2, <2>3 DEF CreateHandle, TypeInv, TypeOK, Hashes, keys
<1>12. ASSUME NEW w \in Workers, Claim(w)
      PROVE  TypeInv'
  BY <1>0, <1>12, <1>a, Fields DEF Claim, TypeInv, TypeOK, keys, Processes, Importers,
    EventStages, ImportStages, EventStatuses
<1>13. ASSUME NEW w \in Workers, ClaimNothing(w)
      PROVE  TypeInv'
  <2>1. proc[w] \in WellPlaced(w) /\ w \in Processes
    BY <1>a DEF Processes, Importers
  <2>2. proc[w].event \in Events
    BY <1>13, <2>1, Fields DEF ClaimNothing, EventStages, ImportStages
  <2>3. handled' \in [Events -> KeysOver(Hashes)]
    BY <1>13, <1>a, <2>2, KeyUpdates DEF ClaimNothing, TypeInv, TypeOK, Revisions,
      keys
  <2> QED
    BY <1>0, <1>13, <1>a, <2>2, <2>3 DEF ClaimNothing, TypeInv, TypeOK, Hashes, keys
<1>14. ASSUME NEW w \in Workers, MarkProcessed(w)
      PROVE  TypeInv'
  BY <1>0, <1>14, <1>a, Fields DEF MarkProcessed, TypeInv, TypeOK, keys, Processes,
    Importers, EventStages, ImportStages, EventStatuses
<1>15. ASSUME NEW w \in Workers, CompleteHandle(w)
      PROVE  TypeInv'
  <2>1. proc[w] \in WellPlaced(w) /\ w \in Processes
    BY <1>a DEF Processes, Importers
  <2>2. proc[w].event \in Events
    BY <1>15, <2>1, Fields DEF CompleteHandle, EventStages, ImportStages
  <2>3. handled' \in [Events -> KeysOver(Hashes)]
    BY <1>15, <1>a, <2>2, KeyUpdates DEF CompleteHandle, TypeInv, TypeOK, Revisions,
      keys
  <2> QED
    BY <1>0, <1>15, <1>a, <2>2, <2>3 DEF CompleteHandle, TypeInv, TypeOK, Hashes, keys
<1>16. ASSUME NEW w \in Workers, MarkFailed(w)
      PROVE  TypeInv'
  BY <1>0, <1>16, <1>a, Fields DEF MarkFailed, TypeInv, TypeOK, keys, Processes,
    Importers, EventStages, ImportStages, EventStatuses
<1>17. ASSUME NEW w \in Workers, FailHandle(w)
      PROVE  TypeInv'
  <2>1. proc[w] \in WellPlaced(w) /\ w \in Processes
    BY <1>a DEF Processes, Importers
  <2>2. proc[w].event \in Events
    BY <1>17, <2>1, Fields DEF FailHandle, EventStages, ImportStages
  <2>3. handled' \in [Events -> KeysOver(Hashes)]
    BY <1>17, <1>a, <2>2, KeyUpdates DEF FailHandle, TypeInv, TypeOK, Revisions, keys
  <2> QED
    BY <1>0, <1>17, <1>a, <2>2, <2>3 DEF FailHandle, TypeInv, TypeOK, Hashes, keys
<1>18. ASSUME NEW w \in Workers, HandlerFails(w)
      PROVE  TypeInv'
  <2>1. faults' \in 0 .. MaxFaults
    BY <1>18, FaultStep DEF HandlerFails, TypeInv, TypeOK
  <2> QED
    BY <1>0, <1>18, <2>1 DEF HandlerFails, TypeInv, TypeOK, keys
<1>19. ASSUME NEW w \in Workers, MarkFails(w)
      PROVE  TypeInv'
  <2>1. proc[w] \in WellPlaced(w) /\ w \in Processes
    BY <1>a DEF Processes, Importers
  <2>2. proc[w].event \in Events
    BY <1>19, <2>1, Fields DEF MarkFails, EventStages, ImportStages
  <2>3. handled' \in [Events -> KeysOver(Hashes)]
    BY <1>19, <1>a, <2>2, KeyUpdates DEF MarkFails, TypeInv, TypeOK, Revisions, keys
  <2>4. faults' \in 0 .. MaxFaults
    BY <1>19, FaultStep DEF MarkFails, TypeInv, TypeOK
  <2> QED
    BY <1>0, <1>19, <1>a, <2>2, <2>3, <2>4 DEF MarkFails, TypeInv, TypeOK, Hashes,
      keys
<1>20. ASSUME NEW i \in Importers, AcquireImport(i)
      PROVE  TypeInv'
  <2>1. proc[i] \in WellPlaced(i) /\ i \in Processes
    BY <1>a DEF Processes, Importers
  <2>2. proc[i].payload \in Payloads /\ Digest[proc[i].payload] \in Digests
    BY <1>20, <2>1, Fields DEF AcquireImport, EventStages, ImportStages, Digests
  <2>3. imported' \in [Revisions -> KeysOver(Digests)]
    BY <1>20, <1>a, <2>2, KeyUpdates DEF AcquireImport, TypeInv, TypeOK, Revisions,
      keys
  <2> QED
    BY <1>0, <1>20, <1>a, <2>2, <2>3 DEF AcquireImport, TypeInv, TypeOK, Hashes, keys
<1>21. ASSUME NEW i \in Importers, CreateImport(i)
      PROVE  TypeInv'
  <2>1. proc[i] \in WellPlaced(i) /\ i \in Processes
    BY <1>a DEF Processes, Importers
  <2>2. proc[i].payload \in Payloads /\ Digest[proc[i].payload] \in Digests
    BY <1>21, <2>1, Fields DEF CreateImport, EventStages, ImportStages, Digests
  <2>3. imported' \in [Revisions -> KeysOver(Digests)]
    BY <1>21, <1>a, <2>2, KeyUpdates DEF CreateImport, TypeInv, TypeOK, Revisions,
      keys
  <2> QED
    BY <1>0, <1>21, <1>a, <2>2, <2>3 DEF CreateImport, TypeInv, TypeOK, Hashes, keys
<1>22. ASSUME NEW i \in Importers, Look(i)
      PROVE  TypeInv'
  BY <1>0, <1>22 DEF Look, TypeInv, TypeOK, keys
<1>23. ASSUME NEW i \in Importers, Write(i)
      PROVE  TypeInv'
  BY <1>0, <1>23, <1>a, Fields DEF Write, TypeInv, TypeOK, keys, Processes, Importers,
    EventStages, ImportStages, EventStatuses
<1>24. ASSUME NEW i \in Importers, WriteFails(i)
      PROVE  TypeInv'
  <2>1. proc[i] \in WellPlaced(i) /\ i \in Processes
    BY <1>a DEF Processes, Importers
  <2>2. proc[i].payload \in Payloads /\ Digest[proc[i].payload] \in Digests
    BY <1>24, <2>1, Fields DEF WriteFails, EventStages, ImportStages, Digests
  <2>3. imported' \in [Revisions -> KeysOver(Digests)]
    BY <1>24, <1>a, <2>2, KeyUpdates DEF WriteFails, TypeInv, TypeOK, Revisions, keys
  <2>4. faults' \in 0 .. MaxFaults
    BY <1>24, FaultStep DEF WriteFails, TypeInv, TypeOK
  <2> QED
    BY <1>0, <1>24, <1>a, <2>2, <2>3, <2>4 DEF WriteFails, TypeInv, TypeOK, Hashes,
      keys
<1>25. ASSUME NEW i \in Importers, CompleteImport(i)
      PROVE  TypeInv'
  <2>1. proc[i] \in WellPlaced(i) /\ i \in Processes
    BY <1>a DEF Processes, Importers
  <2>2. proc[i].payload \in Payloads /\ Digest[proc[i].payload] \in Digests
    BY <1>25, <2>1, Fields DEF CompleteImport, EventStages, ImportStages, Digests
  <2>3. imported' \in [Revisions -> KeysOver(Digests)]
    BY <1>25, <1>a, <2>2, KeyUpdates DEF CompleteImport, TypeInv, TypeOK, Revisions,
      keys
  <2> QED
    BY <1>0, <1>25, <1>a, <2>2, <2>3 DEF CompleteImport, TypeInv, TypeOK, Hashes, keys
<1>26. ASSUME NEW i \in Pollers, NEW p \in Polled, PollOrder(i, p)
      PROVE  TypeInv'
  BY <1>0, <1>26 DEF PollOrder, TypeInv, TypeOK, keys
<1>27. ASSUME NEW x \in Processes, Crash(x)
      PROVE  TypeInv'
  <2>1. faults' \in 0 .. MaxFaults
    BY <1>27, FaultStep DEF Crash, TypeInv, TypeOK
  <2> QED
    BY <1>0, <1>27, <2>1 DEF Crash, TypeInv, TypeOK, keys
<1>28. ASSUME LeaseLapses
      PROVE  TypeInv'
  <2>1. faults' \in 0 .. MaxFaults
    BY <1>28, FaultStep DEF LeaseLapses, TypeInv, TypeOK
  <2>2. /\ stored' \in [Events -> KeysOver(Hashes)]
        /\ handled' \in [Events -> KeysOver(Hashes)]
        /\ imported' \in [Revisions -> KeysOver(Digests)]
    BY <1>28, <1>a, KeyUpdates DEF LeaseLapses, TypeInv, TypeOK
  <2> QED
    BY <1>0, <1>28, <2>1, <2>2 DEF LeaseLapses, TypeInv, TypeOK, Hashes, keys
<1>29. ASSUME UNCHANGED vars
      PROVE  TypeInv'
  BY <1>0, <1>29 DEF vars, keys, TypeInv, TypeOK
<1>q. QED
  BY <1>1, <1>2, <1>3, <1>4, <1>5, <1>6, <1>7, <1>8, <1>9, <1>10, <1>11, <1>12, <1>13,
    <1>14, <1>15, <1>16, <1>17, <1>18, <1>19, <1>20, <1>21, <1>22, <1>23, <1>24, <1>25,
    <1>26, <1>27, <1>28, <1>29 DEF Next, WorkerStep, Import, Importers

-------------------------------------------------------------------------------
(* One worker at an event *)

\* What a worker handles is marked as being processed: the claim takes only
\* rows that are not, and nobody else writes the status until it is marked.
Exclusive ==
  /\ \A w \in Workers, e \in Events : Handles(w, e) => event[e] = "processing"
  /\ HandledByOne

\* No step lets a second worker at an event.
LEMMA ExclusiveStep ==
  ASSUME TypeInv, Exclusive, [Next]_vars
  PROVE  Exclusive'
<1>0. proc \in [Processes -> Processing] /\ event \in [Events -> EventStatuses]
  BY DEF TypeInv, TypeOK
<1>1. ASSUME NEW r \in Requests, NEW e \in Events, ReceiveAgain(r, e)
      PROVE  Exclusive'
  BY <1>0, <1>1, ProcessAssumption DEF ReceiveAgain, Exclusive, HandledByOne, Handles,
    Processes, Importers, Processing
<1>2. ASSUME NEW r \in Requests, NEW e \in Events, Receive(r, e)
      PROVE  Exclusive'
  BY <1>0, <1>2, ProcessAssumption DEF Receive, Idle, Exclusive, HandledByOne,
    Handles, Processes, Importers, Processing
<1>3. ASSUME NEW r \in Requests, AcquireStore(r)
      PROVE  Exclusive'
  BY <1>0, <1>3, ProcessAssumption DEF AcquireStore, Goto, Idle, Exclusive,
    HandledByOne, Handles, Processes, Importers, Processing
<1>4. ASSUME NEW r \in Requests, CreateStore(r)
      PROVE  Exclusive'
  BY <1>0, <1>4, ProcessAssumption DEF CreateStore, Goto, Idle, Exclusive,
    HandledByOne, Handles, Processes, Importers, Processing
<1>5. ASSUME NEW r \in Requests, Insert(r)
      PROVE  Exclusive'
  BY <1>0, <1>5, ProcessAssumption DEF Insert, Goto, Idle, Exclusive, HandledByOne,
    Handles, Processes, Importers, Processing
<1>6. ASSUME NEW r \in Requests, InsertFails(r)
      PROVE  Exclusive'
  BY <1>0, <1>6, ProcessAssumption DEF InsertFails, Fault, Idle, Exclusive,
    HandledByOne, Handles, Processes, Importers, Processing
<1>7. ASSUME NEW r \in Requests, CompleteStore(r)
      PROVE  Exclusive'
  BY <1>0, <1>7, ProcessAssumption DEF CompleteStore, Idle, Exclusive, HandledByOne,
    Handles, Processes, Importers, Processing
<1>8. ASSUME NEW w \in Workers, Poll(w)
      PROVE  Exclusive'
  BY <1>0, <1>8, ProcessAssumption DEF Poll, Idle, Pollable, Exclusive, HandledByOne,
    Handles, Processes, Importers, Processing
<1>9. ASSUME NEW w \in Workers, NEW e \in Events, Load(w, e)
      PROVE  Exclusive'
  <2>0. proc[w] \in Processing /\ w \in Processes
    BY <1>0 DEF Processes, Importers
  <2>1. \/ proc'[w] = Idle
        \/ proc'[w] = [proc[w] EXCEPT !.batch = proc[w].batch \ {e}]
        \/ proc'[w] = [proc[w] EXCEPT !.at = "handle", !.event = e, !.batch = proc[w].batch \ {e}]
    BY <1>0, <1>9, <2>0 DEF Load
  <2>2. event' = event /\ \A y \in Workers : y # w => proc'[y] = proc[y]
    BY <1>0, <1>9 DEF Load, Processes, Importers
  <2>3. proc'[w].at \in {"idle", "next", "handle", "create_handle", "claim"}
    <3>1. CASE proc'[w] = Idle
      BY <1>9, <3>1, <2>0, Reads, IdleReads DEF Load
    <3>2. CASE proc'[w] = [proc[w] EXCEPT !.batch = proc[w].batch \ {e}]
      BY <1>9, <3>2, <2>0, Reads, IdleReads DEF Load
    <3>3. CASE proc'[w] = [proc[w] EXCEPT !.at = "handle", !.event = e, !.batch = proc[w].batch \ {e}]
      BY <1>9, <3>3, <2>0, Reads, IdleReads DEF Load
    <3> QED  BY <2>1, <3>1, <3>2, <3>3
  <2>4. \A y \in Workers, f \in Events : Handles(y, f)' => Handles(y, f)
    BY <1>9, <2>2, <2>3 DEF Load, Handles
  <2> QED
    BY <2>2, <2>4 DEF Exclusive, HandledByOne
<1>10. ASSUME NEW w \in Workers, AcquireHandle(w)
      PROVE  Exclusive'
  <2>0. proc[w] \in Processing /\ w \in Processes
    BY <1>0 DEF Processes, Importers
  <2>1. \/ proc'[w] = [proc[w] EXCEPT !.at = "create_handle"]
        \/ proc'[w] = [proc[w] EXCEPT !.at = "claim"]
        \/ proc'[w] = Idle
        \/ proc'[w] = [Idle EXCEPT !.at = "next", !.batch = proc[w].batch]
    BY <1>0, <1>10, <2>0 DEF AcquireHandle, Goto, NextOfBatch
  <2>2. event' = event /\ \A y \in Workers : y # w => proc'[y] = proc[y]
    BY <1>0, <1>10 DEF AcquireHandle, Goto, NextOfBatch, Processes, Importers
  <2>3. proc'[w].at \in {"idle", "next", "handle", "create_handle", "claim"}
    <3>1. CASE proc'[w] = [proc[w] EXCEPT !.at = "create_handle"]
      BY <1>10, <3>1, <2>0, Reads, IdleReads DEF AcquireHandle
    <3>2. CASE proc'[w] = [proc[w] EXCEPT !.at = "claim"]
      BY <1>10, <3>2, <2>0, Reads, IdleReads DEF AcquireHandle
    <3>3. CASE proc'[w] = Idle
      BY <1>10, <3>3, <2>0, Reads, IdleReads DEF AcquireHandle
    <3>4. CASE proc'[w] = [Idle EXCEPT !.at = "next", !.batch = proc[w].batch]
      BY <1>10, <3>4, <2>0, Reads, IdleReads DEF AcquireHandle
    <3> QED  BY <2>1, <3>1, <3>2, <3>3, <3>4
  <2>4. \A y \in Workers, f \in Events : Handles(y, f)' => Handles(y, f)
    BY <1>10, <2>2, <2>3 DEF AcquireHandle, Handles
  <2> QED
    BY <2>2, <2>4 DEF Exclusive, HandledByOne
<1>11. ASSUME NEW w \in Workers, CreateHandle(w)
      PROVE  Exclusive'
  <2>0. proc[w] \in Processing /\ w \in Processes
    BY <1>0 DEF Processes, Importers
  <2>1. \/ proc'[w] = [proc[w] EXCEPT !.at = "claim"]
        \/ proc'[w] = Idle
        \/ proc'[w] = [Idle EXCEPT !.at = "next", !.batch = proc[w].batch]
    BY <1>0, <1>11, <2>0 DEF CreateHandle, Goto, NextOfBatch
  <2>2. event' = event /\ \A y \in Workers : y # w => proc'[y] = proc[y]
    BY <1>0, <1>11 DEF CreateHandle, Goto, NextOfBatch, Processes, Importers
  <2>3. proc'[w].at \in {"idle", "next", "handle", "create_handle", "claim"}
    <3>1. CASE proc'[w] = [proc[w] EXCEPT !.at = "claim"]
      BY <1>11, <3>1, <2>0, Reads, IdleReads DEF CreateHandle
    <3>2. CASE proc'[w] = Idle
      BY <1>11, <3>2, <2>0, Reads, IdleReads DEF CreateHandle
    <3>3. CASE proc'[w] = [Idle EXCEPT !.at = "next", !.batch = proc[w].batch]
      BY <1>11, <3>3, <2>0, Reads, IdleReads DEF CreateHandle
    <3> QED  BY <2>1, <3>1, <3>2, <3>3
  <2>4. \A y \in Workers, f \in Events : Handles(y, f)' => Handles(y, f)
    BY <1>11, <2>2, <2>3 DEF CreateHandle, Handles
  <2> QED
    BY <2>2, <2>4 DEF Exclusive, HandledByOne
<1>12. ASSUME NEW w \in Workers, Claim(w)
      PROVE  Exclusive'
  BY <1>0, <1>12, ProcessAssumption DEF Claim, Claimable, Exclusive, HandledByOne,
    Handles, Processes, Importers, Processing
<1>13. ASSUME NEW w \in Workers, ClaimNothing(w)
      PROVE  Exclusive'
  BY <1>0, <1>13, ProcessAssumption DEF ClaimNothing, NextOfBatch, Idle, Claimable,
    Exclusive, HandledByOne, Handles, Processes, Importers, Processing
<1>14. ASSUME NEW w \in Workers, MarkProcessed(w)
      PROVE  Exclusive'
  BY <1>0, <1>14, ProcessAssumption DEF MarkProcessed, Goto, Exclusive, HandledByOne,
    Handles, Processes, Importers, Processing
<1>15. ASSUME NEW w \in Workers, CompleteHandle(w)
      PROVE  Exclusive'
  BY <1>0, <1>15, ProcessAssumption DEF CompleteHandle, NextOfBatch, Idle, Exclusive,
    HandledByOne, Handles, Processes, Importers, Processing
<1>16. ASSUME NEW w \in Workers, MarkFailed(w)
      PROVE  Exclusive'
  BY <1>0, <1>16, ProcessAssumption DEF MarkFailed, Goto, Exclusive, HandledByOne,
    Handles, Processes, Importers, Processing
<1>17. ASSUME NEW w \in Workers, FailHandle(w)
      PROVE  Exclusive'
  BY <1>0, <1>17, ProcessAssumption DEF FailHandle, NextOfBatch, Idle, Exclusive,
    HandledByOne, Handles, Processes, Importers, Processing
<1>18. ASSUME NEW w \in Workers, HandlerFails(w)
      PROVE  Exclusive'
  BY <1>0, <1>18, ProcessAssumption DEF HandlerFails, Fault, Err, Idle, Exclusive,
    HandledByOne, Handles, Processes, Importers, Processing
<1>19. ASSUME NEW w \in Workers, MarkFails(w)
      PROVE  Exclusive'
  BY <1>0, <1>19, ProcessAssumption DEF MarkFails, Fault, NextOfBatch, Idle,
    Exclusive, HandledByOne, Handles, Processes, Importers, Processing
<1>20. ASSUME NEW i \in Importers, AcquireImport(i)
      PROVE  Exclusive'
  <2>0. proc[i] \in Processing /\ i \in Processes
    BY <1>0 DEF Processes, Importers
  <2>1. \/ proc'[i] = [proc[i] EXCEPT !.at = "create_import"]
        \/ proc'[i] = [proc[i] EXCEPT !.at = "look"]
        \/ proc'[i] = Idle
        \/ proc'[i] = [proc[i] EXCEPT !.at = "mark", !.saw = Nothing]
        \/ proc'[i] = [proc[i] EXCEPT !.at = "mark_failed", !.saw = Nothing]
    BY <1>0, <1>20, <2>0 DEF AcquireImport, Goto, Succeed, Err
  <2>2. event' = event /\ \A y \in Workers : y # i => proc'[y] = proc[y]
    BY <1>0, <1>20 DEF AcquireImport, Goto, Succeed, Err, Processes, Importers
  <2>3. proc'[i].at = "idle" \/ proc'[i].event = proc[i].event
    <3>1. CASE proc'[i] = [proc[i] EXCEPT !.at = "create_import"]
      BY <1>20, <3>1, <2>0, Reads, IdleReads DEF AcquireImport
    <3>2. CASE proc'[i] = [proc[i] EXCEPT !.at = "look"]
      BY <1>20, <3>2, <2>0, Reads, IdleReads DEF AcquireImport
    <3>3. CASE proc'[i] = Idle
      BY <1>20, <3>3, <2>0, Reads, IdleReads DEF AcquireImport
    <3>4. CASE proc'[i] = [proc[i] EXCEPT !.at = "mark", !.saw = Nothing]
      BY <1>20, <3>4, <2>0, Reads, IdleReads DEF AcquireImport
    <3>5. CASE proc'[i] = [proc[i] EXCEPT !.at = "mark_failed", !.saw = Nothing]
      BY <1>20, <3>5, <2>0, Reads, IdleReads DEF AcquireImport
    <3> QED  BY <2>1, <3>1, <3>2, <3>3, <3>4, <3>5
  <2>4. \A y \in Workers, f \in Events : Handles(y, f)' => Handles(y, f)
    BY <1>20, <2>2, <2>3 DEF AcquireImport, Handles
  <2> QED
    BY <2>2, <2>4 DEF Exclusive, HandledByOne
<1>21. ASSUME NEW i \in Importers, CreateImport(i)
      PROVE  Exclusive'
  <2>0. proc[i] \in Processing /\ i \in Processes
    BY <1>0 DEF Processes, Importers
  <2>1. \/ proc'[i] = [proc[i] EXCEPT !.at = "look"]
        \/ proc'[i] = Idle
        \/ proc'[i] = [proc[i] EXCEPT !.at = "mark_failed", !.saw = Nothing]
    BY <1>0, <1>21, <2>0 DEF CreateImport, Goto, Err
  <2>2. event' = event /\ \A y \in Workers : y # i => proc'[y] = proc[y]
    BY <1>0, <1>21 DEF CreateImport, Goto, Err, Processes, Importers
  <2>3. proc'[i].at = "idle" \/ proc'[i].event = proc[i].event
    <3>1. CASE proc'[i] = [proc[i] EXCEPT !.at = "look"]
      BY <1>21, <3>1, <2>0, Reads, IdleReads DEF CreateImport
    <3>2. CASE proc'[i] = Idle
      BY <1>21, <3>2, <2>0, Reads, IdleReads DEF CreateImport
    <3>3. CASE proc'[i] = [proc[i] EXCEPT !.at = "mark_failed", !.saw = Nothing]
      BY <1>21, <3>3, <2>0, Reads, IdleReads DEF CreateImport
    <3> QED  BY <2>1, <3>1, <3>2, <3>3
  <2>4. \A y \in Workers, f \in Events : Handles(y, f)' => Handles(y, f)
    BY <1>21, <2>2, <2>3 DEF CreateImport, Handles
  <2> QED
    BY <2>2, <2>4 DEF Exclusive, HandledByOne
<1>22. ASSUME NEW i \in Importers, Look(i)
      PROVE  Exclusive'
  BY <1>0, <1>22, ProcessAssumption DEF Look, Exclusive, HandledByOne, Handles,
    Processes, Importers, Processing
<1>23. ASSUME NEW i \in Importers, Write(i)
      PROVE  Exclusive'
  BY <1>0, <1>23, ProcessAssumption DEF Write, Goto, Exclusive, HandledByOne, Handles,
    Processes, Importers, Processing
<1>24. ASSUME NEW i \in Importers, WriteFails(i)
      PROVE  Exclusive'
  BY <1>0, <1>24, ProcessAssumption DEF WriteFails, Fault, Err, Idle, Exclusive,
    HandledByOne, Handles, Processes, Importers, Processing
<1>25. ASSUME NEW i \in Importers, CompleteImport(i)
      PROVE  Exclusive'
  <2>0. proc[i] \in Processing /\ i \in Processes
    BY <1>0 DEF Processes, Importers
  <2>1. \/ proc'[i] = Idle
        \/ proc'[i] = [proc[i] EXCEPT !.at = "mark", !.saw = Nothing]
        \/ proc'[i] = [proc[i] EXCEPT !.at = "mark_failed", !.saw = Nothing]
    BY <1>0, <1>25, <2>0 DEF CompleteImport, Succeed, Err
  <2>2. event' = event /\ \A y \in Workers : y # i => proc'[y] = proc[y]
    BY <1>0, <1>25 DEF CompleteImport, Succeed, Err, Processes, Importers
  <2>3. proc'[i].at = "idle" \/ proc'[i].event = proc[i].event
    <3>1. CASE proc'[i] = Idle
      BY <1>25, <3>1, <2>0, Reads, IdleReads DEF CompleteImport
    <3>2. CASE proc'[i] = [proc[i] EXCEPT !.at = "mark", !.saw = Nothing]
      BY <1>25, <3>2, <2>0, Reads, IdleReads DEF CompleteImport
    <3>3. CASE proc'[i] = [proc[i] EXCEPT !.at = "mark_failed", !.saw = Nothing]
      BY <1>25, <3>3, <2>0, Reads, IdleReads DEF CompleteImport
    <3> QED  BY <2>1, <3>1, <3>2, <3>3
  <2>4. \A y \in Workers, f \in Events : Handles(y, f)' => Handles(y, f)
    BY <1>25, <2>2, <2>3 DEF CompleteImport, Handles
  <2> QED
    BY <2>2, <2>4 DEF Exclusive, HandledByOne
<1>26. ASSUME NEW i \in Pollers, NEW p \in Polled, PollOrder(i, p)
      PROVE  Exclusive'
  BY <1>0, <1>26, ProcessAssumption DEF PollOrder, Idle, Exclusive, HandledByOne,
    Handles, Processes, Importers, Processing
<1>27. ASSUME NEW x \in Processes, Crash(x)
      PROVE  Exclusive'
  BY <1>0, <1>27, ProcessAssumption DEF Crash, Fault, Idle, Exclusive, HandledByOne,
    Handles, Processes, Importers, Processing
<1>28. ASSUME LeaseLapses
      PROVE  Exclusive'
  BY <1>0, <1>28, ProcessAssumption DEF LeaseLapses, Fault, Exclusive, HandledByOne,
    Handles, Processes, Importers, Processing
<1>29. ASSUME UNCHANGED vars
      PROVE  Exclusive'
  BY <1>0, <1>29 DEF vars, keys, Exclusive, HandledByOne, Handles, Processes,
    Importers, Processing
<1>q. QED
  BY <1>1, <1>2, <1>3, <1>4, <1>5, <1>6, <1>7, <1>8, <1>9, <1>10, <1>11, <1>12, <1>13,
    <1>14, <1>15, <1>16, <1>17, <1>18, <1>19, <1>20, <1>21, <1>22, <1>23, <1>24, <1>25,
    <1>26, <1>27, <1>28, <1>29 DEF Next, WorkerStep, Import, Importers

-------------------------------------------------------------------------------
(* One digest of a revision *)

\* Once a revision's key is made its hash stays.
LEMMA KeysKeep ==
  ASSUME TypeInv, [Next]_vars, NEW v \in Revisions, imported[v].status # "absent"
  PROVE  imported'[v].status # "absent" /\ imported'[v].hash = imported[v].hash
<1>0. imported \in [Revisions -> KeysOver(Digests)]
  BY DEF TypeInv, TypeOK
<1>1. ASSUME NEW r \in Requests, NEW e \in Events, ReceiveAgain(r, e)
      PROVE  imported'[v].status # "absent" /\ imported'[v].hash = imported[v].hash
  BY <1>0, <1>1 DEF ReceiveAgain, keys
<1>2. ASSUME NEW r \in Requests, NEW e \in Events, Receive(r, e)
      PROVE  imported'[v].status # "absent" /\ imported'[v].hash = imported[v].hash
  BY <1>0, <1>2 DEF Receive, keys
<1>3. ASSUME NEW r \in Requests, AcquireStore(r)
      PROVE  imported'[v].status # "absent" /\ imported'[v].hash = imported[v].hash
  BY <1>0, <1>3 DEF AcquireStore, keys
<1>4. ASSUME NEW r \in Requests, CreateStore(r)
      PROVE  imported'[v].status # "absent" /\ imported'[v].hash = imported[v].hash
  BY <1>0, <1>4 DEF CreateStore, keys
<1>5. ASSUME NEW r \in Requests, Insert(r)
      PROVE  imported'[v].status # "absent" /\ imported'[v].hash = imported[v].hash
  BY <1>0, <1>5 DEF Insert, keys
<1>6. ASSUME NEW r \in Requests, InsertFails(r)
      PROVE  imported'[v].status # "absent" /\ imported'[v].hash = imported[v].hash
  BY <1>0, <1>6 DEF InsertFails, keys
<1>7. ASSUME NEW r \in Requests, CompleteStore(r)
      PROVE  imported'[v].status # "absent" /\ imported'[v].hash = imported[v].hash
  BY <1>0, <1>7 DEF CompleteStore, keys
<1>8. ASSUME NEW w \in Workers, Poll(w)
      PROVE  imported'[v].status # "absent" /\ imported'[v].hash = imported[v].hash
  BY <1>0, <1>8 DEF Poll, keys
<1>9. ASSUME NEW w \in Workers, NEW e \in Events, Load(w, e)
      PROVE  imported'[v].status # "absent" /\ imported'[v].hash = imported[v].hash
  BY <1>0, <1>9 DEF Load, keys
<1>10. ASSUME NEW w \in Workers, AcquireHandle(w)
      PROVE  imported'[v].status # "absent" /\ imported'[v].hash = imported[v].hash
  BY <1>0, <1>10 DEF AcquireHandle, keys
<1>11. ASSUME NEW w \in Workers, CreateHandle(w)
      PROVE  imported'[v].status # "absent" /\ imported'[v].hash = imported[v].hash
  BY <1>0, <1>11 DEF CreateHandle, keys
<1>12. ASSUME NEW w \in Workers, Claim(w)
      PROVE  imported'[v].status # "absent" /\ imported'[v].hash = imported[v].hash
  BY <1>0, <1>12 DEF Claim, keys
<1>13. ASSUME NEW w \in Workers, ClaimNothing(w)
      PROVE  imported'[v].status # "absent" /\ imported'[v].hash = imported[v].hash
  BY <1>0, <1>13 DEF ClaimNothing, keys
<1>14. ASSUME NEW w \in Workers, MarkProcessed(w)
      PROVE  imported'[v].status # "absent" /\ imported'[v].hash = imported[v].hash
  BY <1>0, <1>14 DEF MarkProcessed, keys
<1>15. ASSUME NEW w \in Workers, CompleteHandle(w)
      PROVE  imported'[v].status # "absent" /\ imported'[v].hash = imported[v].hash
  BY <1>0, <1>15 DEF CompleteHandle, keys
<1>16. ASSUME NEW w \in Workers, MarkFailed(w)
      PROVE  imported'[v].status # "absent" /\ imported'[v].hash = imported[v].hash
  BY <1>0, <1>16 DEF MarkFailed, keys
<1>17. ASSUME NEW w \in Workers, FailHandle(w)
      PROVE  imported'[v].status # "absent" /\ imported'[v].hash = imported[v].hash
  BY <1>0, <1>17 DEF FailHandle, keys
<1>18. ASSUME NEW w \in Workers, HandlerFails(w)
      PROVE  imported'[v].status # "absent" /\ imported'[v].hash = imported[v].hash
  BY <1>0, <1>18 DEF HandlerFails, keys
<1>19. ASSUME NEW w \in Workers, MarkFails(w)
      PROVE  imported'[v].status # "absent" /\ imported'[v].hash = imported[v].hash
  BY <1>0, <1>19 DEF MarkFails, keys
<1>20. ASSUME NEW i \in Importers, AcquireImport(i)
      PROVE  imported'[v].status # "absent" /\ imported'[v].hash = imported[v].hash
  BY <1>0, <1>20 DEF AcquireImport, keys, KeysOver, Taken
<1>21. ASSUME NEW i \in Importers, CreateImport(i)
      PROVE  imported'[v].status # "absent" /\ imported'[v].hash = imported[v].hash
  BY <1>0, <1>21 DEF CreateImport, keys, KeysOver, Key
<1>22. ASSUME NEW i \in Importers, Look(i)
      PROVE  imported'[v].status # "absent" /\ imported'[v].hash = imported[v].hash
  BY <1>0, <1>22 DEF Look, keys
<1>23. ASSUME NEW i \in Importers, Write(i)
      PROVE  imported'[v].status # "absent" /\ imported'[v].hash = imported[v].hash
  BY <1>0, <1>23 DEF Write, keys
<1>24. ASSUME NEW i \in Importers, WriteFails(i)
      PROVE  imported'[v].status # "absent" /\ imported'[v].hash = imported[v].hash
  BY <1>0, <1>24 DEF WriteFails, keys, KeysOver, FailedKey
<1>25. ASSUME NEW i \in Importers, CompleteImport(i)
      PROVE  imported'[v].status # "absent" /\ imported'[v].hash = imported[v].hash
  BY <1>0, <1>25 DEF CompleteImport, keys, KeysOver, Completed
<1>26. ASSUME NEW i \in Pollers, NEW p \in Polled, PollOrder(i, p)
      PROVE  imported'[v].status # "absent" /\ imported'[v].hash = imported[v].hash
  BY <1>0, <1>26 DEF PollOrder, keys
<1>27. ASSUME NEW x \in Processes, Crash(x)
      PROVE  imported'[v].status # "absent" /\ imported'[v].hash = imported[v].hash
  BY <1>0, <1>27 DEF Crash, keys
<1>28. ASSUME LeaseLapses
      PROVE  imported'[v].status # "absent" /\ imported'[v].hash = imported[v].hash
  BY <1>0, <1>28 DEF LeaseLapses, keys, KeysOver, Lapsed
<1>29. CASE UNCHANGED vars
  BY <1>29 DEF vars, keys
<1>q. QED
  BY <1>1, <1>2, <1>3, <1>4, <1>5, <1>6, <1>7, <1>8, <1>9, <1>10, <1>11, <1>12, <1>13,
    <1>14, <1>15, <1>16, <1>17, <1>18, <1>19, <1>20, <1>21, <1>22, <1>23, <1>24, <1>25,
    <1>26, <1>27, <1>28, <1>29 DEF Next, WorkerStep, Import, Importers

\* What a step may do to a process that can import: what it knows of the order
\* when it comes to a stage that matters.
Goes(i) ==
  \/ proc'[i] = proc[i]
  \/ proc'[i].at \notin ImportStages \union {"mark"}
  \/ /\ proc'[i].at = "import"
     /\ i \in Workers => /\ content[proc'[i].event] # Nothing
                         /\ proc'[i].payload = content[proc'[i].event]
  \/ proc'[i].at = "mark" /\ content[proc'[i].event] = Nothing
  \/ /\ proc'[i].payload = proc[i].payload
     /\ proc'[i].event = proc[i].event
     /\ \/ proc[i].at = "import" /\ proc'[i].at = "create_import"
        \/ /\ proc[i].at \in {"import", "create_import"} /\ proc'[i].at = "look"
           /\ imported'[Revision[proc[i].payload]].status # "absent"
           /\ imported'[Revision[proc[i].payload]].hash = Digest[proc[i].payload]
        \/ proc[i].at = "look" /\ proc'[i].at = "write"
        \/ /\ proc[i].at = "look" /\ proc'[i].at = "complete"
           /\ Stale(proc[i].payload, order)
        \/ /\ proc[i].at = "write" /\ proc'[i].at = "complete"
           /\ proc[i].payload \in written'
        \/ /\ proc[i].at = "import" /\ proc'[i].at = "mark"
           /\ imported[Revision[proc[i].payload]].status = "succeeded"
           /\ imported[Revision[proc[i].payload]].hash = Digest[proc[i].payload]
        \/ proc[i].at = "complete" /\ proc'[i].at = "mark"

\* Every step is one of these to every importer.
LEMMA ImporterGoes ==
  ASSUME TypeInv, [Next]_vars, NEW j \in Importers
  PROVE  Goes(j)
<1>0. /\ proc \in [Processes -> Processing]
      /\ \A x \in Processes : proc[x] \in WellPlaced(x)
      /\ imported \in [Revisions -> KeysOver(Digests)]
  BY DEF TypeInv, TypeOK, Placed
<1>1. ASSUME NEW r \in Requests, NEW e \in Events, ReceiveAgain(r, e) PROVE Goes(j)
  BY <1>0, <1>1 DEF ReceiveAgain, Goes
<1>2. ASSUME NEW r \in Requests, NEW e \in Events, Receive(r, e) PROVE Goes(j)
  <2>0. proc[r] \in Processing /\ r \in Processes /\ j \in Processes
    BY <1>0 DEF Processes, Importers
  <2>1. proc'[j] = proc[j]
    BY <1>0, <1>2, <2>0, ProcessAssumption DEF Receive, Importers
  <2> QED  BY <2>1 DEF Goes
<1>3. ASSUME NEW r \in Requests, AcquireStore(r) PROVE Goes(j)
  <2>0. proc[r] \in Processing /\ r \in Processes /\ j \in Processes
    BY <1>0 DEF Processes, Importers
  <2>1. proc'[j] = proc[j]
    BY <1>0, <1>3, <2>0, ProcessAssumption DEF AcquireStore, Goto, Importers
  <2> QED  BY <2>1 DEF Goes
<1>4. ASSUME NEW r \in Requests, CreateStore(r) PROVE Goes(j)
  <2>0. proc[r] \in Processing /\ r \in Processes /\ j \in Processes
    BY <1>0 DEF Processes, Importers
  <2>1. proc'[j] = proc[j]
    BY <1>0, <1>4, <2>0, ProcessAssumption DEF CreateStore, Goto, Importers
  <2> QED  BY <2>1 DEF Goes
<1>5. ASSUME NEW r \in Requests, Insert(r) PROVE Goes(j)
  <2>0. proc[r] \in Processing /\ r \in Processes /\ j \in Processes
    BY <1>0 DEF Processes, Importers
  <2>1. proc'[j] = proc[j]
    BY <1>0, <1>5, <2>0, ProcessAssumption DEF Insert, Goto, Importers
  <2> QED  BY <2>1 DEF Goes
<1>6. ASSUME NEW r \in Requests, InsertFails(r) PROVE Goes(j)
  <2>0. proc[r] \in Processing /\ r \in Processes /\ j \in Processes
    BY <1>0 DEF Processes, Importers
  <2>1. proc'[j] = proc[j]
    BY <1>0, <1>6, <2>0, ProcessAssumption DEF InsertFails, Importers
  <2> QED  BY <2>1 DEF Goes
<1>7. ASSUME NEW r \in Requests, CompleteStore(r) PROVE Goes(j)
  <2>0. proc[r] \in Processing /\ r \in Processes /\ j \in Processes
    BY <1>0 DEF Processes, Importers
  <2>1. proc'[j] = proc[j]
    BY <1>0, <1>7, <2>0, ProcessAssumption DEF CompleteStore, Importers
  <2> QED  BY <2>1 DEF Goes
<1>8. ASSUME NEW w \in Workers, Poll(w) PROVE Goes(j)
  <2>0. proc[w] \in Processing /\ w \in Processes /\ j \in Processes
    BY <1>0 DEF Processes, Importers
  <2>1. CASE j # w
    <3>1. proc'[j] = proc[j]
      BY <1>0, <1>8, <2>0, <2>1 DEF Poll
    <3> QED  BY <3>1 DEF Goes
  <2>2. CASE j = w
    <3>0. proc'[w] = [Idle EXCEPT !.at = "next", !.batch = Pollable]
      BY <1>0, <1>8, <2>0 DEF Poll
    <3>1. CASE proc'[w] = [Idle EXCEPT !.at = "next", !.batch = Pollable]
      BY <1>0, <1>8, <2>0, <2>2, <3>1 DEF Poll, Goes, Processing, Idle, ImportStages
    <3> QED  BY <3>0, <3>1
  <2> QED  BY <2>1, <2>2
<1>9. ASSUME NEW w \in Workers, NEW e \in Events, Load(w, e) PROVE Goes(j)
  <2>0. proc[w] \in Processing /\ w \in Processes /\ j \in Processes
    BY <1>0 DEF Processes, Importers
  <2>1. CASE j # w
    <3>1. proc'[j] = proc[j]
      BY <1>0, <1>9, <2>0, <2>1 DEF Load
    <3> QED  BY <3>1 DEF Goes
  <2>2. CASE j = w
    <3>0. \/ proc'[w] = Idle
          \/ proc'[w] = [proc[w] EXCEPT !.batch = proc[w].batch \ {e}]
          \/ proc'[w] = [proc[w] EXCEPT !.at = "handle", !.event = e, !.batch = proc[w].batch \ {e}]
      BY <1>0, <1>9, <2>0 DEF Load
    <3>1. CASE proc'[w] = Idle
      BY <1>0, <1>9, <2>0, <2>2, <3>1 DEF Load, Goes, Processing, Idle, ImportStages
    <3>2. CASE proc'[w] = [proc[w] EXCEPT !.batch = proc[w].batch \ {e}]
      BY <1>0, <1>9, <2>0, <2>2, <3>2 DEF Load, Goes, Processing, Idle, ImportStages
    <3>3. CASE proc'[w] = [proc[w] EXCEPT !.at = "handle", !.event = e, !.batch = proc[w].batch \ {e}]
      BY <1>0, <1>9, <2>0, <2>2, <3>3 DEF Load, Goes, Processing, Idle, ImportStages
    <3> QED  BY <3>0, <3>1, <3>2, <3>3
  <2> QED  BY <2>1, <2>2
<1>10. ASSUME NEW w \in Workers, AcquireHandle(w) PROVE Goes(j)
  <2>0. proc[w] \in Processing /\ w \in Processes /\ j \in Processes
    BY <1>0 DEF Processes, Importers
  <2>1. CASE j # w
    <3>1. proc'[j] = proc[j]
      BY <1>0, <1>10, <2>0, <2>1 DEF AcquireHandle, Goto, NextOfBatch
    <3> QED  BY <3>1 DEF Goes
  <2>2. CASE j = w
    <3>0. \/ proc'[w] = [proc[w] EXCEPT !.at = "create_handle"]
          \/ proc'[w] = [proc[w] EXCEPT !.at = "claim"]
          \/ proc'[w] = Idle
          \/ proc'[w] = [Idle EXCEPT !.at = "next", !.batch = proc[w].batch]
      BY <1>0, <1>10, <2>0 DEF AcquireHandle, Goto, NextOfBatch
    <3>1. CASE proc'[w] = [proc[w] EXCEPT !.at = "create_handle"]
      BY <1>0, <1>10, <2>0, <2>2, <3>1 DEF AcquireHandle, Goes, Processing, Idle,
        ImportStages
    <3>2. CASE proc'[w] = [proc[w] EXCEPT !.at = "claim"]
      BY <1>0, <1>10, <2>0, <2>2, <3>2 DEF AcquireHandle, Goes, Processing, Idle,
        ImportStages
    <3>3. CASE proc'[w] = Idle
      BY <1>0, <1>10, <2>0, <2>2, <3>3 DEF AcquireHandle, Goes, Processing, Idle,
        ImportStages
    <3>4. CASE proc'[w] = [Idle EXCEPT !.at = "next", !.batch = proc[w].batch]
      BY <1>0, <1>10, <2>0, <2>2, <3>4 DEF AcquireHandle, Goes, Processing, Idle,
        ImportStages
    <3> QED  BY <3>0, <3>1, <3>2, <3>3, <3>4
  <2> QED  BY <2>1, <2>2
<1>11. ASSUME NEW w \in Workers, CreateHandle(w) PROVE Goes(j)
  <2>0. proc[w] \in Processing /\ w \in Processes /\ j \in Processes
    BY <1>0 DEF Processes, Importers
  <2>1. CASE j # w
    <3>1. proc'[j] = proc[j]
      BY <1>0, <1>11, <2>0, <2>1 DEF CreateHandle, Goto, NextOfBatch
    <3> QED  BY <3>1 DEF Goes
  <2>2. CASE j = w
    <3>0. \/ proc'[w] = [proc[w] EXCEPT !.at = "claim"]
          \/ proc'[w] = Idle
          \/ proc'[w] = [Idle EXCEPT !.at = "next", !.batch = proc[w].batch]
      BY <1>0, <1>11, <2>0 DEF CreateHandle, Goto, NextOfBatch
    <3>1. CASE proc'[w] = [proc[w] EXCEPT !.at = "claim"]
      BY <1>0, <1>11, <2>0, <2>2, <3>1 DEF CreateHandle, Goes, Processing, Idle,
        ImportStages
    <3>2. CASE proc'[w] = Idle
      BY <1>0, <1>11, <2>0, <2>2, <3>2 DEF CreateHandle, Goes, Processing, Idle,
        ImportStages
    <3>3. CASE proc'[w] = [Idle EXCEPT !.at = "next", !.batch = proc[w].batch]
      BY <1>0, <1>11, <2>0, <2>2, <3>3 DEF CreateHandle, Goes, Processing, Idle,
        ImportStages
    <3> QED  BY <3>0, <3>1, <3>2, <3>3
  <2> QED  BY <2>1, <2>2
<1>12. ASSUME NEW w \in Workers, Claim(w) PROVE Goes(j)
  <2>0. proc[w] \in Processing /\ w \in Processes /\ j \in Processes
    BY <1>0 DEF Processes, Importers
  <2>1. CASE j # w
    <3>1. proc'[j] = proc[j]
      BY <1>0, <1>12, <2>0, <2>1 DEF Claim
    <3> QED  BY <3>1 DEF Goes
  <2>2. CASE j = w
    <3>0. proc'[w] = [proc[w] EXCEPT !.payload = content[proc[w].event], !.at = IF content[proc[w].event] = Nothing THEN "mark" ELSE "import"]
      BY <1>0, <1>12, <2>0 DEF Claim
    <3>1. CASE proc'[w] = [proc[w] EXCEPT !.payload = content[proc[w].event], !.at = IF content[proc[w].event] = Nothing THEN "mark" ELSE "import"]
      BY <1>0, <1>12, <2>0, <2>2, <3>1 DEF Claim, Goes, Processing, Idle, ImportStages
    <3> QED  BY <3>0, <3>1
  <2> QED  BY <2>1, <2>2
<1>13. ASSUME NEW w \in Workers, ClaimNothing(w) PROVE Goes(j)
  <2>0. proc[w] \in Processing /\ w \in Processes /\ j \in Processes
    BY <1>0 DEF Processes, Importers
  <2>1. CASE j # w
    <3>1. proc'[j] = proc[j]
      BY <1>0, <1>13, <2>0, <2>1 DEF ClaimNothing, NextOfBatch
    <3> QED  BY <3>1 DEF Goes
  <2>2. CASE j = w
    <3>0. \/ proc'[w] = Idle
          \/ proc'[w] = [Idle EXCEPT !.at = "next", !.batch = proc[w].batch]
      BY <1>0, <1>13, <2>0 DEF ClaimNothing, NextOfBatch
    <3>1. CASE proc'[w] = Idle
      BY <1>0, <1>13, <2>0, <2>2, <3>1 DEF ClaimNothing, Goes, Processing, Idle,
        ImportStages
    <3>2. CASE proc'[w] = [Idle EXCEPT !.at = "next", !.batch = proc[w].batch]
      BY <1>0, <1>13, <2>0, <2>2, <3>2 DEF ClaimNothing, Goes, Processing, Idle,
        ImportStages
    <3> QED  BY <3>0, <3>1, <3>2
  <2> QED  BY <2>1, <2>2
<1>14. ASSUME NEW w \in Workers, MarkProcessed(w) PROVE Goes(j)
  <2>0. proc[w] \in Processing /\ w \in Processes /\ j \in Processes
    BY <1>0 DEF Processes, Importers
  <2>1. CASE j # w
    <3>1. proc'[j] = proc[j]
      BY <1>0, <1>14, <2>0, <2>1 DEF MarkProcessed, Goto
    <3> QED  BY <3>1 DEF Goes
  <2>2. CASE j = w
    <3>0. proc'[w] = [proc[w] EXCEPT !.at = "handled"]
      BY <1>0, <1>14, <2>0 DEF MarkProcessed, Goto
    <3>1. CASE proc'[w] = [proc[w] EXCEPT !.at = "handled"]
      BY <1>0, <1>14, <2>0, <2>2, <3>1 DEF MarkProcessed, Goes, Processing, Idle,
        ImportStages
    <3> QED  BY <3>0, <3>1
  <2> QED  BY <2>1, <2>2
<1>15. ASSUME NEW w \in Workers, CompleteHandle(w) PROVE Goes(j)
  <2>0. proc[w] \in Processing /\ w \in Processes /\ j \in Processes
    BY <1>0 DEF Processes, Importers
  <2>1. CASE j # w
    <3>1. proc'[j] = proc[j]
      BY <1>0, <1>15, <2>0, <2>1 DEF CompleteHandle, NextOfBatch
    <3> QED  BY <3>1 DEF Goes
  <2>2. CASE j = w
    <3>0. \/ proc'[w] = Idle
          \/ proc'[w] = [Idle EXCEPT !.at = "next", !.batch = proc[w].batch]
      BY <1>0, <1>15, <2>0 DEF CompleteHandle, NextOfBatch
    <3>1. CASE proc'[w] = Idle
      BY <1>0, <1>15, <2>0, <2>2, <3>1 DEF CompleteHandle, Goes, Processing, Idle,
        ImportStages
    <3>2. CASE proc'[w] = [Idle EXCEPT !.at = "next", !.batch = proc[w].batch]
      BY <1>0, <1>15, <2>0, <2>2, <3>2 DEF CompleteHandle, Goes, Processing, Idle,
        ImportStages
    <3> QED  BY <3>0, <3>1, <3>2
  <2> QED  BY <2>1, <2>2
<1>16. ASSUME NEW w \in Workers, MarkFailed(w) PROVE Goes(j)
  <2>0. proc[w] \in Processing /\ w \in Processes /\ j \in Processes
    BY <1>0 DEF Processes, Importers
  <2>1. CASE j # w
    <3>1. proc'[j] = proc[j]
      BY <1>0, <1>16, <2>0, <2>1 DEF MarkFailed, Goto
    <3> QED  BY <3>1 DEF Goes
  <2>2. CASE j = w
    <3>0. proc'[w] = [proc[w] EXCEPT !.at = "fail"]
      BY <1>0, <1>16, <2>0 DEF MarkFailed, Goto
    <3>1. CASE proc'[w] = [proc[w] EXCEPT !.at = "fail"]
      BY <1>0, <1>16, <2>0, <2>2, <3>1 DEF MarkFailed, Goes, Processing, Idle,
        ImportStages
    <3> QED  BY <3>0, <3>1
  <2> QED  BY <2>1, <2>2
<1>17. ASSUME NEW w \in Workers, FailHandle(w) PROVE Goes(j)
  <2>0. proc[w] \in Processing /\ w \in Processes /\ j \in Processes
    BY <1>0 DEF Processes, Importers
  <2>1. CASE j # w
    <3>1. proc'[j] = proc[j]
      BY <1>0, <1>17, <2>0, <2>1 DEF FailHandle, NextOfBatch
    <3> QED  BY <3>1 DEF Goes
  <2>2. CASE j = w
    <3>0. \/ proc'[w] = Idle
          \/ proc'[w] = [Idle EXCEPT !.at = "next", !.batch = proc[w].batch]
      BY <1>0, <1>17, <2>0 DEF FailHandle, NextOfBatch
    <3>1. CASE proc'[w] = Idle
      BY <1>0, <1>17, <2>0, <2>2, <3>1 DEF FailHandle, Goes, Processing, Idle,
        ImportStages
    <3>2. CASE proc'[w] = [Idle EXCEPT !.at = "next", !.batch = proc[w].batch]
      BY <1>0, <1>17, <2>0, <2>2, <3>2 DEF FailHandle, Goes, Processing, Idle,
        ImportStages
    <3> QED  BY <3>0, <3>1, <3>2
  <2> QED  BY <2>1, <2>2
<1>18. ASSUME NEW w \in Workers, HandlerFails(w) PROVE Goes(j)
  <2>0. proc[w] \in Processing /\ w \in Processes /\ j \in Processes
    BY <1>0 DEF Processes, Importers
  <2>1. CASE j # w
    <3>1. proc'[j] = proc[j]
      BY <1>0, <1>18, <2>0, <2>1 DEF HandlerFails, Err
    <3> QED  BY <3>1 DEF Goes
  <2>2. CASE j = w
    <3>0. \/ proc'[w] = Idle
          \/ proc'[w] = [proc[w] EXCEPT !.at = "mark_failed", !.saw = Nothing]
      BY <1>0, <1>18, <2>0 DEF HandlerFails, Err
    <3>1. CASE proc'[w] = Idle
      BY <1>0, <1>18, <2>0, <2>2, <3>1 DEF HandlerFails, Goes, Processing, Idle,
        ImportStages
    <3>2. CASE proc'[w] = [proc[w] EXCEPT !.at = "mark_failed", !.saw = Nothing]
      BY <1>0, <1>18, <2>0, <2>2, <3>2 DEF HandlerFails, Goes, Processing, Idle,
        ImportStages
    <3> QED  BY <3>0, <3>1, <3>2
  <2> QED  BY <2>1, <2>2
<1>19. ASSUME NEW w \in Workers, MarkFails(w) PROVE Goes(j)
  <2>0. proc[w] \in Processing /\ w \in Processes /\ j \in Processes
    BY <1>0 DEF Processes, Importers
  <2>1. CASE j # w
    <3>1. proc'[j] = proc[j]
      BY <1>0, <1>19, <2>0, <2>1 DEF MarkFails, NextOfBatch
    <3> QED  BY <3>1 DEF Goes
  <2>2. CASE j = w
    <3>0. \/ proc'[w] = Idle
          \/ proc'[w] = [Idle EXCEPT !.at = "next", !.batch = proc[w].batch]
      BY <1>0, <1>19, <2>0 DEF MarkFails, NextOfBatch
    <3>1. CASE proc'[w] = Idle
      BY <1>0, <1>19, <2>0, <2>2, <3>1 DEF MarkFails, Goes, Processing, Idle,
        ImportStages
    <3>2. CASE proc'[w] = [Idle EXCEPT !.at = "next", !.batch = proc[w].batch]
      BY <1>0, <1>19, <2>0, <2>2, <3>2 DEF MarkFails, Goes, Processing, Idle,
        ImportStages
    <3> QED  BY <3>0, <3>1, <3>2
  <2> QED  BY <2>1, <2>2
<1>20. ASSUME NEW i \in Importers, AcquireImport(i) PROVE Goes(j)
  <2>0. proc[i] \in Processing /\ i \in Processes /\ j \in Processes
    BY <1>0 DEF Processes, Importers
  <2>1. CASE j # i
    <3>1. proc'[j] = proc[j]
      BY <1>0, <1>20, <2>0, <2>1 DEF AcquireImport, Goto, Succeed, Err
    <3> QED  BY <3>1 DEF Goes
  <2>2. CASE j = i
    <3>0. \/ proc'[i] = [proc[i] EXCEPT !.at = "create_import"]
          \/ proc'[i] = [proc[i] EXCEPT !.at = "look"]
          \/ proc'[i] = Idle
          \/ proc'[i] = [proc[i] EXCEPT !.at = "mark", !.saw = Nothing]
          \/ proc'[i] = [proc[i] EXCEPT !.at = "mark_failed", !.saw = Nothing]
      BY <1>0, <1>20, <2>0 DEF AcquireImport, Goto, Succeed, Err
    <3>r. proc[i].payload \in Payloads /\ Revision[proc[i].payload] \in Revisions
      BY <1>0, <1>20, <2>0, Fields DEF AcquireImport, ImportStages, Revisions
    <3>1. CASE proc'[i] = [proc[i] EXCEPT !.at = "create_import"]
      BY <1>0, <1>20, <2>0, <2>2, <3>1, <3>r DEF AcquireImport, Goes, Processing,
        Idle, ImportStages, Answer, Goto, Succeed, Err, Key, Taken, KeysOver, Revisions
    <3>2. CASE proc'[i] = [proc[i] EXCEPT !.at = "look"]
      <4>1. proc'[i].at = "look" /\ proc'[i].payload = proc[i].payload /\ proc'[i].event = proc[i].event
        BY <2>0, <3>2 DEF Processing
      <4>2. Answer(imported[Revision[proc[i].payload]], Digest[proc[i].payload]) = "acquired"
        <5>1. CASE Answer(imported[Revision[proc[i].payload]], Digest[proc[i].payload]) = "missing"
          BY <1>0, <1>20, <2>0, <4>1, <5>1 DEF AcquireImport, Goto, Processing
        <5>2. CASE Answer(imported[Revision[proc[i].payload]], Digest[proc[i].payload]) = "key_conflict"
          BY <1>0, <1>20, <2>0, <4>1, <5>2, Answers DEF AcquireImport
        <5>3. CASE Answer(imported[Revision[proc[i].payload]], Digest[proc[i].payload]) = "already_succeeded"
          BY <1>0, <1>20, <2>0, <4>1, <5>3, Answers DEF AcquireImport
        <5> QED  BY <1>20, <5>1, <5>2, <5>3 DEF AcquireImport
      <4>3. imported'[Revision[proc[i].payload]] = Taken(imported[Revision[proc[i].payload]])
        BY <1>0, <1>20, <3>r, <4>2 DEF AcquireImport
      <4>4. imported'[Revision[proc[i].payload]].status # "absent" /\ imported'[Revision[proc[i].payload]].hash = Digest[proc[i].payload]
        BY <1>0, <3>r, <4>2, <4>3 DEF Answer, Taken, KeysOver
      <4> QED  BY <1>20, <2>2, <4>1, <4>4 DEF Goes, AcquireImport
    <3>3. CASE proc'[i] = Idle
      BY <1>0, <1>20, <2>0, <2>2, <3>3, <3>r DEF AcquireImport, Goes, Processing,
        Idle, ImportStages, Answer, Goto, Succeed, Err, Key, Taken, KeysOver, Revisions
    <3>4. CASE proc'[i] = [proc[i] EXCEPT !.at = "mark", !.saw = Nothing]
      <4>1. proc'[i].at = "mark" /\ proc'[i].payload = proc[i].payload /\ proc'[i].event = proc[i].event
        BY <2>0, <3>4 DEF Processing
      <4>2. Answer(imported[Revision[proc[i].payload]], Digest[proc[i].payload]) = "already_succeeded"
        <5>1. CASE Answer(imported[Revision[proc[i].payload]], Digest[proc[i].payload]) = "missing"
          BY <1>0, <1>20, <2>0, <4>1, <5>1 DEF AcquireImport, Goto, Processing
        <5>2. CASE Answer(imported[Revision[proc[i].payload]], Digest[proc[i].payload]) = "key_conflict"
          BY <1>0, <1>20, <2>0, <4>1, <5>2, Answers DEF AcquireImport
        <5>3. CASE Answer(imported[Revision[proc[i].payload]], Digest[proc[i].payload]) = "acquired"
          BY <1>0, <1>20, <2>0, <4>1, <5>3, Answers DEF AcquireImport, Goto, Processing
        <5> QED  BY <1>20, <5>1, <5>2, <5>3 DEF AcquireImport
      <4>3. imported[Revision[proc[i].payload]].status = "succeeded" /\ imported[Revision[proc[i].payload]].hash = Digest[proc[i].payload]
        BY <1>0, <3>r, <4>2 DEF Answer, KeysOver
      <4> QED  BY <1>20, <2>2, <4>1, <4>3 DEF Goes, AcquireImport
    <3>5. CASE proc'[i] = [proc[i] EXCEPT !.at = "mark_failed", !.saw = Nothing]
      BY <1>0, <1>20, <2>0, <2>2, <3>5, <3>r DEF AcquireImport, Goes, Processing,
        Idle, ImportStages, Answer, Goto, Succeed, Err, Key, Taken, KeysOver, Revisions
    <3> QED  BY <3>0, <3>1, <3>2, <3>3, <3>4, <3>5
  <2> QED  BY <2>1, <2>2
<1>21. ASSUME NEW i \in Importers, CreateImport(i) PROVE Goes(j)
  <2>0. proc[i] \in Processing /\ i \in Processes /\ j \in Processes
    BY <1>0 DEF Processes, Importers
  <2>1. CASE j # i
    <3>1. proc'[j] = proc[j]
      BY <1>0, <1>21, <2>0, <2>1 DEF CreateImport, Goto, Err
    <3> QED  BY <3>1 DEF Goes
  <2>2. CASE j = i
    <3>0. \/ proc'[i] = [proc[i] EXCEPT !.at = "look"]
          \/ proc'[i] = Idle
          \/ proc'[i] = [proc[i] EXCEPT !.at = "mark_failed", !.saw = Nothing]
      BY <1>0, <1>21, <2>0 DEF CreateImport, Goto, Err
    <3>r. proc[i].payload \in Payloads /\ Revision[proc[i].payload] \in Revisions
      BY <1>0, <1>21, <2>0, Fields DEF CreateImport, ImportStages, Revisions
    <3>1. CASE proc'[i] = [proc[i] EXCEPT !.at = "look"]
      <4>1. proc'[i].at = "look" /\ proc'[i].payload = proc[i].payload /\ proc'[i].event = proc[i].event
        BY <2>0, <3>1 DEF Processing
      <4>2. imported[Revision[proc[i].payload]].status = "absent"
        BY <1>0, <1>21, <2>0, <4>1, Answers DEF CreateImport
      <4>3. imported'[Revision[proc[i].payload]] = Key("held", Digest[proc[i].payload])
        BY <1>0, <1>21, <3>r, <4>2 DEF CreateImport
      <4> QED  BY <1>21, <2>2, <4>1, <4>3 DEF Goes, CreateImport, Key
    <3>2. CASE proc'[i] = Idle
      BY <1>0, <1>21, <2>0, <2>2, <3>2, <3>r DEF CreateImport, Goes, Processing, Idle,
        ImportStages, Answer, Goto, Succeed, Err, Key, Taken, KeysOver, Revisions
    <3>3. CASE proc'[i] = [proc[i] EXCEPT !.at = "mark_failed", !.saw = Nothing]
      BY <1>0, <1>21, <2>0, <2>2, <3>3, <3>r DEF CreateImport, Goes, Processing, Idle,
        ImportStages, Answer, Goto, Succeed, Err, Key, Taken, KeysOver, Revisions
    <3> QED  BY <3>0, <3>1, <3>2, <3>3
  <2> QED  BY <2>1, <2>2
<1>22. ASSUME NEW i \in Importers, Look(i) PROVE Goes(j)
  <2>0. proc[i] \in Processing /\ i \in Processes /\ j \in Processes
    BY <1>0 DEF Processes, Importers
  <2>1. CASE j # i
    <3>1. proc'[j] = proc[j]
      BY <1>0, <1>22, <2>0, <2>1 DEF Look
    <3> QED  BY <3>1 DEF Goes
  <2>2. CASE j = i
    <3>0. proc'[i] = [proc[i] EXCEPT !.saw = order, !.at = IF Stale(proc[i].payload, order) THEN "complete" ELSE "write"]
      BY <1>0, <1>22, <2>0 DEF Look
    <3>1. CASE proc'[i] = [proc[i] EXCEPT !.saw = order, !.at = IF Stale(proc[i].payload, order) THEN "complete" ELSE "write"]
      BY <1>0, <1>22, <2>0, <2>2, <3>1 DEF Look, Goes, Processing, Idle, ImportStages
    <3> QED  BY <3>0, <3>1
  <2> QED  BY <2>1, <2>2
<1>23. ASSUME NEW i \in Importers, Write(i) PROVE Goes(j)
  <2>0. proc[i] \in Processing /\ i \in Processes /\ j \in Processes
    BY <1>0 DEF Processes, Importers
  <2>1. CASE j # i
    <3>1. proc'[j] = proc[j]
      BY <1>0, <1>23, <2>0, <2>1 DEF Write, Goto
    <3> QED  BY <3>1 DEF Goes
  <2>2. CASE j = i
    <3>0. proc'[i] = [proc[i] EXCEPT !.at = "complete"]
      BY <1>0, <1>23, <2>0 DEF Write, Goto
    <3>1. CASE proc'[i] = [proc[i] EXCEPT !.at = "complete"]
      BY <1>0, <1>23, <2>0, <2>2, <3>1 DEF Write, Goes, Processing, Idle, ImportStages
    <3> QED  BY <3>0, <3>1
  <2> QED  BY <2>1, <2>2
<1>24. ASSUME NEW i \in Importers, WriteFails(i) PROVE Goes(j)
  <2>0. proc[i] \in Processing /\ i \in Processes /\ j \in Processes
    BY <1>0 DEF Processes, Importers
  <2>1. CASE j # i
    <3>1. proc'[j] = proc[j]
      BY <1>0, <1>24, <2>0, <2>1 DEF WriteFails, Err
    <3> QED  BY <3>1 DEF Goes
  <2>2. CASE j = i
    <3>0. \/ proc'[i] = Idle
          \/ proc'[i] = [proc[i] EXCEPT !.at = "mark_failed", !.saw = Nothing]
      BY <1>0, <1>24, <2>0 DEF WriteFails, Err
    <3>1. CASE proc'[i] = Idle
      BY <1>0, <1>24, <2>0, <2>2, <3>1 DEF WriteFails, Goes, Processing, Idle,
        ImportStages
    <3>2. CASE proc'[i] = [proc[i] EXCEPT !.at = "mark_failed", !.saw = Nothing]
      BY <1>0, <1>24, <2>0, <2>2, <3>2 DEF WriteFails, Goes, Processing, Idle,
        ImportStages
    <3> QED  BY <3>0, <3>1, <3>2
  <2> QED  BY <2>1, <2>2
<1>25. ASSUME NEW i \in Importers, CompleteImport(i) PROVE Goes(j)
  <2>0. proc[i] \in Processing /\ i \in Processes /\ j \in Processes
    BY <1>0 DEF Processes, Importers
  <2>1. CASE j # i
    <3>1. proc'[j] = proc[j]
      BY <1>0, <1>25, <2>0, <2>1 DEF CompleteImport, Succeed, Err
    <3> QED  BY <3>1 DEF Goes
  <2>2. CASE j = i
    <3>0. \/ proc'[i] = Idle
          \/ proc'[i] = [proc[i] EXCEPT !.at = "mark", !.saw = Nothing]
          \/ proc'[i] = [proc[i] EXCEPT !.at = "mark_failed", !.saw = Nothing]
      BY <1>0, <1>25, <2>0 DEF CompleteImport, Succeed, Err
    <3>r. proc[i].payload \in Payloads /\ Revision[proc[i].payload] \in Revisions
      BY <1>0, <1>25, <2>0, Fields DEF CompleteImport, ImportStages, Revisions
    <3>1. CASE proc'[i] = Idle
      BY <1>0, <1>25, <2>0, <2>2, <3>1, <3>r DEF CompleteImport, Goes, Processing,
        Idle, ImportStages, Answer, Goto, Succeed, Err, Key, Taken, KeysOver, Revisions
    <3>2. CASE proc'[i] = [proc[i] EXCEPT !.at = "mark", !.saw = Nothing]
      BY <1>0, <1>25, <2>0, <2>2, <3>2, <3>r DEF CompleteImport, Goes, Processing,
        Idle, ImportStages, Answer, Goto, Succeed, Err, Key, Taken, KeysOver, Revisions
    <3>3. CASE proc'[i] = [proc[i] EXCEPT !.at = "mark_failed", !.saw = Nothing]
      BY <1>0, <1>25, <2>0, <2>2, <3>3, <3>r DEF CompleteImport, Goes, Processing,
        Idle, ImportStages, Answer, Goto, Succeed, Err, Key, Taken, KeysOver, Revisions
    <3> QED  BY <3>0, <3>1, <3>2, <3>3
  <2> QED  BY <2>1, <2>2
<1>26. ASSUME NEW i \in Pollers, NEW p \in Polled, PollOrder(i, p) PROVE Goes(j)
  <2>0. proc[i] \in Processing /\ i \in Processes /\ j \in Processes
    BY <1>0 DEF Processes, Importers
  <2>1. CASE j # i
    <3>1. proc'[j] = proc[j]
      BY <1>0, <1>26, <2>0, <2>1 DEF PollOrder
    <3> QED  BY <3>1 DEF Goes
  <2>2. CASE j = i
    <3>0. proc'[i] = [Idle EXCEPT !.at = "import", !.payload = p]
      BY <1>0, <1>26, <2>0 DEF PollOrder
    <3>1. CASE proc'[i] = [Idle EXCEPT !.at = "import", !.payload = p]
      BY <1>0, <1>26, <2>0, <2>2, <3>1, ProcessAssumption DEF PollOrder, Goes,
        Processing, Idle, ImportStages
    <3> QED  BY <3>0, <3>1
  <2> QED  BY <2>1, <2>2
<1>27. ASSUME NEW x \in Processes, Crash(x) PROVE Goes(j)
  <2>0. proc[x] \in Processing /\ x \in Processes /\ j \in Processes
    BY <1>0 DEF Processes, Importers
  <2>1. CASE j # x
    <3>1. proc'[j] = proc[j]
      BY <1>0, <1>27, <2>0, <2>1 DEF Crash
    <3> QED  BY <3>1 DEF Goes
  <2>2. CASE j = x
    <3>0. proc'[x] = Idle
      BY <1>0, <1>27, <2>0 DEF Crash
    <3>1. CASE proc'[x] = Idle
      BY <1>0, <1>27, <2>0, <2>2, <3>1 DEF Crash, Goes, Processing, Idle, ImportStages
    <3> QED  BY <3>0, <3>1
  <2> QED  BY <2>1, <2>2
<1>28. ASSUME LeaseLapses PROVE Goes(j)
  BY <1>0, <1>28 DEF LeaseLapses, Goes
<1>29. ASSUME UNCHANGED vars PROVE Goes(j)
  BY <1>29 DEF vars, Goes
<1>q. QED
  BY <1>1, <1>2, <1>3, <1>4, <1>5, <1>6, <1>7, <1>8, <1>9, <1>10, <1>11, <1>12, <1>13,
    <1>14, <1>15, <1>16, <1>17, <1>18, <1>19, <1>20, <1>21, <1>22, <1>23, <1>24, <1>25,
    <1>26, <1>27, <1>28, <1>29 DEF Next, WorkerStep, Import, Importers

\* The order is written by an importer, from its payload.
LEMMA WhoWrites ==
  ASSUME TypeInv, [Next]_vars
  PROVE  \/ order' = order /\ written' = written
         \/ \E i \in Importers :
              /\ proc[i].at = "write" /\ order' = proc[i].payload
              /\ written' = written \union {proc[i].payload}
<1> DEFINE Wrote ==
             \/ order' = order /\ written' = written
             \/ \E i \in Importers :
                  /\ proc[i].at = "write" /\ order' = proc[i].payload
                  /\ written' = written \union {proc[i].payload}
<1>1. ASSUME NEW r \in Requests, NEW e \in Events, ReceiveAgain(r, e) PROVE Wrote
  BY <1>1 DEF ReceiveAgain, keys
<1>2. ASSUME NEW r \in Requests, NEW e \in Events, Receive(r, e) PROVE Wrote
  BY <1>2 DEF Receive, keys
<1>3. ASSUME NEW r \in Requests, AcquireStore(r) PROVE Wrote
  BY <1>3 DEF AcquireStore, keys
<1>4. ASSUME NEW r \in Requests, CreateStore(r) PROVE Wrote
  BY <1>4 DEF CreateStore, keys
<1>5. ASSUME NEW r \in Requests, Insert(r) PROVE Wrote
  BY <1>5 DEF Insert, keys
<1>6. ASSUME NEW r \in Requests, InsertFails(r) PROVE Wrote
  BY <1>6 DEF InsertFails, keys
<1>7. ASSUME NEW r \in Requests, CompleteStore(r) PROVE Wrote
  BY <1>7 DEF CompleteStore, keys
<1>8. ASSUME NEW w \in Workers, Poll(w) PROVE Wrote
  BY <1>8 DEF Poll, keys
<1>9. ASSUME NEW w \in Workers, NEW e \in Events, Load(w, e) PROVE Wrote
  BY <1>9 DEF Load, keys
<1>10. ASSUME NEW w \in Workers, AcquireHandle(w) PROVE Wrote
  BY <1>10 DEF AcquireHandle, keys
<1>11. ASSUME NEW w \in Workers, CreateHandle(w) PROVE Wrote
  BY <1>11 DEF CreateHandle, keys
<1>12. ASSUME NEW w \in Workers, Claim(w) PROVE Wrote
  BY <1>12 DEF Claim, keys
<1>13. ASSUME NEW w \in Workers, ClaimNothing(w) PROVE Wrote
  BY <1>13 DEF ClaimNothing, keys
<1>14. ASSUME NEW w \in Workers, MarkProcessed(w) PROVE Wrote
  BY <1>14 DEF MarkProcessed, keys
<1>15. ASSUME NEW w \in Workers, CompleteHandle(w) PROVE Wrote
  BY <1>15 DEF CompleteHandle, keys
<1>16. ASSUME NEW w \in Workers, MarkFailed(w) PROVE Wrote
  BY <1>16 DEF MarkFailed, keys
<1>17. ASSUME NEW w \in Workers, FailHandle(w) PROVE Wrote
  BY <1>17 DEF FailHandle, keys
<1>18. ASSUME NEW w \in Workers, HandlerFails(w) PROVE Wrote
  BY <1>18 DEF HandlerFails, keys
<1>19. ASSUME NEW w \in Workers, MarkFails(w) PROVE Wrote
  BY <1>19 DEF MarkFails, keys
<1>20. ASSUME NEW i \in Importers, AcquireImport(i) PROVE Wrote
  BY <1>20 DEF AcquireImport, keys
<1>21. ASSUME NEW i \in Importers, CreateImport(i) PROVE Wrote
  BY <1>21 DEF CreateImport, keys
<1>22. ASSUME NEW i \in Importers, Look(i) PROVE Wrote
  BY <1>22 DEF Look, keys
<1>23. ASSUME NEW i \in Importers, Write(i) PROVE Wrote
  BY <1>23 DEF Write, keys
<1>24. ASSUME NEW i \in Importers, WriteFails(i) PROVE Wrote
  BY <1>24 DEF WriteFails, keys
<1>25. ASSUME NEW i \in Importers, CompleteImport(i) PROVE Wrote
  BY <1>25 DEF CompleteImport, keys
<1>26. ASSUME NEW i \in Pollers, NEW p \in Polled, PollOrder(i, p) PROVE Wrote
  BY <1>26 DEF PollOrder, keys
<1>27. ASSUME NEW x \in Processes, Crash(x) PROVE Wrote
  BY <1>27 DEF Crash, keys
<1>28. ASSUME LeaseLapses PROVE Wrote
  BY <1>28 DEF LeaseLapses, keys
<1>29. CASE UNCHANGED vars
  BY <1>29 DEF vars, keys
<1>q. QED
  BY <1>1, <1>2, <1>3, <1>4, <1>5, <1>6, <1>7, <1>8, <1>9, <1>10, <1>11, <1>12, <1>13,
    <1>14, <1>15, <1>16, <1>17, <1>18, <1>19, <1>20, <1>21, <1>22, <1>23, <1>24, <1>25,
    <1>26, <1>27, <1>28, <1>29 DEF Next, WorkerStep, Import, Importers

\* A revision's key is completed by an importer that has come to that.
LEMMA WhoCompletes ==
  ASSUME TypeInv, [Next]_vars, NEW v \in Revisions
  PROVE  imported'[v].status = "succeeded" /\ imported[v].status # "succeeded"
           => \E j \in Importers : proc[j].at = "complete" /\ v = Revision[proc[j].payload]
<1> DEFINE ByImporter == imported'[v].status = "succeeded" /\ imported[v].status # "succeeded"
              => \E j \in Importers : proc[j].at = "complete" /\ v = Revision[proc[j].payload]
<1>0. imported \in [Revisions -> KeysOver(Digests)]
  BY DEF TypeInv, TypeOK
<1>1. ASSUME NEW r \in Requests, NEW e \in Events, ReceiveAgain(r, e) PROVE ByImporter
  BY <1>1, <1>0 DEF ReceiveAgain, keys
<1>2. ASSUME NEW r \in Requests, NEW e \in Events, Receive(r, e) PROVE ByImporter
  BY <1>2, <1>0 DEF Receive, keys
<1>3. ASSUME NEW r \in Requests, AcquireStore(r) PROVE ByImporter
  BY <1>3, <1>0 DEF AcquireStore, keys
<1>4. ASSUME NEW r \in Requests, CreateStore(r) PROVE ByImporter
  BY <1>4, <1>0 DEF CreateStore, keys
<1>5. ASSUME NEW r \in Requests, Insert(r) PROVE ByImporter
  BY <1>5, <1>0 DEF Insert, keys
<1>6. ASSUME NEW r \in Requests, InsertFails(r) PROVE ByImporter
  BY <1>6, <1>0 DEF InsertFails, keys
<1>7. ASSUME NEW r \in Requests, CompleteStore(r) PROVE ByImporter
  BY <1>7, <1>0 DEF CompleteStore, keys
<1>8. ASSUME NEW w \in Workers, Poll(w) PROVE ByImporter
  BY <1>8, <1>0 DEF Poll, keys
<1>9. ASSUME NEW w \in Workers, NEW e \in Events, Load(w, e) PROVE ByImporter
  BY <1>9, <1>0 DEF Load, keys
<1>10. ASSUME NEW w \in Workers, AcquireHandle(w) PROVE ByImporter
  BY <1>10, <1>0 DEF AcquireHandle, keys
<1>11. ASSUME NEW w \in Workers, CreateHandle(w) PROVE ByImporter
  BY <1>11, <1>0 DEF CreateHandle, keys
<1>12. ASSUME NEW w \in Workers, Claim(w) PROVE ByImporter
  BY <1>12, <1>0 DEF Claim, keys
<1>13. ASSUME NEW w \in Workers, ClaimNothing(w) PROVE ByImporter
  BY <1>13, <1>0 DEF ClaimNothing, keys
<1>14. ASSUME NEW w \in Workers, MarkProcessed(w) PROVE ByImporter
  BY <1>14, <1>0 DEF MarkProcessed, keys
<1>15. ASSUME NEW w \in Workers, CompleteHandle(w) PROVE ByImporter
  BY <1>15, <1>0 DEF CompleteHandle, keys
<1>16. ASSUME NEW w \in Workers, MarkFailed(w) PROVE ByImporter
  BY <1>16, <1>0 DEF MarkFailed, keys
<1>17. ASSUME NEW w \in Workers, FailHandle(w) PROVE ByImporter
  BY <1>17, <1>0 DEF FailHandle, keys
<1>18. ASSUME NEW w \in Workers, HandlerFails(w) PROVE ByImporter
  BY <1>18, <1>0 DEF HandlerFails, keys
<1>19. ASSUME NEW w \in Workers, MarkFails(w) PROVE ByImporter
  BY <1>19, <1>0 DEF MarkFails, keys
<1>20. ASSUME NEW i \in Importers, AcquireImport(i) PROVE ByImporter
  BY <1>20, <1>0 DEF AcquireImport, keys, KeysOver, Taken
<1>21. ASSUME NEW i \in Importers, CreateImport(i) PROVE ByImporter
  BY <1>21, <1>0 DEF CreateImport, keys, KeysOver, Key
<1>22. ASSUME NEW i \in Importers, Look(i) PROVE ByImporter
  BY <1>22, <1>0 DEF Look, keys
<1>23. ASSUME NEW i \in Importers, Write(i) PROVE ByImporter
  BY <1>23, <1>0 DEF Write, keys
<1>24. ASSUME NEW i \in Importers, WriteFails(i) PROVE ByImporter
  BY <1>24, <1>0 DEF WriteFails, keys, KeysOver, FailedKey
<1>25. ASSUME NEW i \in Importers, CompleteImport(i) PROVE ByImporter
  BY <1>25, <1>0 DEF CompleteImport, keys, KeysOver, Completed
<1>26. ASSUME NEW i \in Pollers, NEW p \in Polled, PollOrder(i, p) PROVE ByImporter
  BY <1>26, <1>0 DEF PollOrder, keys
<1>27. ASSUME NEW x \in Processes, Crash(x) PROVE ByImporter
  BY <1>27, <1>0 DEF Crash, keys
<1>28. ASSUME LeaseLapses PROVE ByImporter
  BY <1>28, <1>0 DEF LeaseLapses, keys, KeysOver, Lapsed
<1>29. CASE UNCHANGED vars
  BY <1>29 DEF vars, keys
<1>q. QED
  BY <1>1, <1>2, <1>3, <1>4, <1>5, <1>6, <1>7, <1>8, <1>9, <1>10, <1>11, <1>12, <1>13,
    <1>14, <1>15, <1>16, <1>17, <1>18, <1>19, <1>20, <1>21, <1>22, <1>23, <1>24, <1>25,
    <1>26, <1>27, <1>28, <1>29 DEF Next, WorkerStep, Import, Importers

\* An event is marked processed by a worker that has come to that.
LEMMA WhoMarks ==
  ASSUME TypeInv, [Next]_vars, NEW f \in Events
  PROVE  event'[f] = "processed" /\ event[f] # "processed"
           => \E x \in Workers : proc[x].at = "mark" /\ f = proc[x].event
<1> DEFINE ByWorker == event'[f] = "processed" /\ event[f] # "processed"
                       => \E x \in Workers : proc[x].at = "mark" /\ f = proc[x].event
<1>0. event \in [Events -> EventStatuses]
  BY DEF TypeInv, TypeOK
<1>1. ASSUME NEW r \in Requests, NEW e \in Events, ReceiveAgain(r, e) PROVE ByWorker
  BY <1>1, <1>0 DEF ReceiveAgain, keys
<1>2. ASSUME NEW r \in Requests, NEW e \in Events, Receive(r, e) PROVE ByWorker
  BY <1>2, <1>0 DEF Receive, keys
<1>3. ASSUME NEW r \in Requests, AcquireStore(r) PROVE ByWorker
  BY <1>3, <1>0 DEF AcquireStore, keys
<1>4. ASSUME NEW r \in Requests, CreateStore(r) PROVE ByWorker
  BY <1>4, <1>0 DEF CreateStore, keys
<1>5. ASSUME NEW r \in Requests, Insert(r) PROVE ByWorker
  BY <1>5, <1>0 DEF Insert, keys
<1>6. ASSUME NEW r \in Requests, InsertFails(r) PROVE ByWorker
  BY <1>6, <1>0 DEF InsertFails, keys
<1>7. ASSUME NEW r \in Requests, CompleteStore(r) PROVE ByWorker
  BY <1>7, <1>0 DEF CompleteStore, keys
<1>8. ASSUME NEW w \in Workers, Poll(w) PROVE ByWorker
  BY <1>8, <1>0 DEF Poll, keys
<1>9. ASSUME NEW w \in Workers, NEW e \in Events, Load(w, e) PROVE ByWorker
  BY <1>9, <1>0 DEF Load, keys
<1>10. ASSUME NEW w \in Workers, AcquireHandle(w) PROVE ByWorker
  BY <1>10, <1>0 DEF AcquireHandle, keys
<1>11. ASSUME NEW w \in Workers, CreateHandle(w) PROVE ByWorker
  BY <1>11, <1>0 DEF CreateHandle, keys
<1>12. ASSUME NEW w \in Workers, Claim(w) PROVE ByWorker
  BY <1>12, <1>0 DEF Claim, keys
<1>13. ASSUME NEW w \in Workers, ClaimNothing(w) PROVE ByWorker
  BY <1>13, <1>0 DEF ClaimNothing, keys
<1>14. ASSUME NEW w \in Workers, MarkProcessed(w) PROVE ByWorker
  BY <1>14, <1>0 DEF MarkProcessed, keys
<1>15. ASSUME NEW w \in Workers, CompleteHandle(w) PROVE ByWorker
  BY <1>15, <1>0 DEF CompleteHandle, keys
<1>16. ASSUME NEW w \in Workers, MarkFailed(w) PROVE ByWorker
  BY <1>16, <1>0 DEF MarkFailed, keys
<1>17. ASSUME NEW w \in Workers, FailHandle(w) PROVE ByWorker
  BY <1>17, <1>0 DEF FailHandle, keys
<1>18. ASSUME NEW w \in Workers, HandlerFails(w) PROVE ByWorker
  BY <1>18, <1>0 DEF HandlerFails, keys
<1>19. ASSUME NEW w \in Workers, MarkFails(w) PROVE ByWorker
  BY <1>19, <1>0 DEF MarkFails, keys
<1>20. ASSUME NEW i \in Importers, AcquireImport(i) PROVE ByWorker
  BY <1>20, <1>0 DEF AcquireImport, keys
<1>21. ASSUME NEW i \in Importers, CreateImport(i) PROVE ByWorker
  BY <1>21, <1>0 DEF CreateImport, keys
<1>22. ASSUME NEW i \in Importers, Look(i) PROVE ByWorker
  BY <1>22, <1>0 DEF Look, keys
<1>23. ASSUME NEW i \in Importers, Write(i) PROVE ByWorker
  BY <1>23, <1>0 DEF Write, keys
<1>24. ASSUME NEW i \in Importers, WriteFails(i) PROVE ByWorker
  BY <1>24, <1>0 DEF WriteFails, keys
<1>25. ASSUME NEW i \in Importers, CompleteImport(i) PROVE ByWorker
  BY <1>25, <1>0 DEF CompleteImport, keys
<1>26. ASSUME NEW i \in Pollers, NEW p \in Polled, PollOrder(i, p) PROVE ByWorker
  BY <1>26, <1>0 DEF PollOrder, keys
<1>27. ASSUME NEW x \in Processes, Crash(x) PROVE ByWorker
  BY <1>27, <1>0 DEF Crash, keys
<1>28. ASSUME LeaseLapses PROVE ByWorker
  BY <1>28, <1>0 DEF LeaseLapses, keys
<1>29. CASE UNCHANGED vars
  BY <1>29 DEF vars, keys
<1>q. QED
  BY <1>1, <1>2, <1>3, <1>4, <1>5, <1>6, <1>7, <1>8, <1>9, <1>10, <1>11, <1>12, <1>13,
    <1>14, <1>15, <1>16, <1>17, <1>18, <1>19, <1>20, <1>21, <1>22, <1>23, <1>24, <1>25,
    <1>26, <1>27, <1>28, <1>29 DEF Next, WorkerStep, Import, Importers

\* What an event carries does not change.
LEMMA ContentStays ==
  ASSUME [Next]_vars
  PROVE  content' = content
BY DEF Next, WorkerStep, Import, vars, ReceiveAgain, Receive, AcquireStore, CreateStore,
   Insert, InsertFails, CompleteStore, Poll, Load, AcquireHandle, CreateHandle, Claim,
   ClaimNothing, MarkProcessed, CompleteHandle, MarkFailed, FailHandle, HandlerFails,
   MarkFails, AcquireImport, CreateImport, Look, Write, WriteFails, CompleteImport,
   PollOrder, Crash, LeaseLapses

\* What has been written, and what an importer is about to write, is what the
\* key of its revision stands for.
Known ==
  /\ \A p \in written :
       imported[Revision[p]].status # "absent" /\ imported[Revision[p]].hash = Digest[p]
  /\ \A i \in Importers :
       proc[i].at \in {"look", "write", "complete"} =>
         /\ imported[Revision[proc[i].payload]].status # "absent"
         /\ imported[Revision[proc[i].payload]].hash = Digest[proc[i].payload]

\* No step writes anything else.
LEMMA KnownStep ==
  ASSUME TypeInv, Known, [Next]_vars
  PROVE  Known'
<1>1. \A v \in Revisions : imported[v].status # "absent" =>
        imported'[v].status # "absent" /\ imported'[v].hash = imported[v].hash
  BY KeysKeep
<1>2. /\ written \subseteq Payloads /\ \A p \in Payloads : Revision[p] \in Revisions
      /\ \A i \in Importers : proc[i].at \in ImportStages => proc[i].payload \in Payloads
  BY Fields DEF TypeInv, TypeOK, Placed, Revisions, Processes, Importers
<1>3. ASSUME NEW p \in written'
      PROVE  imported'[Revision[p]].status # "absent" /\ imported'[Revision[p]].hash = Digest[p]
  <2>1. CASE p \in written
    BY <1>1, <1>2, <2>1 DEF Known
  <2>2. CASE \E i \in Importers : proc[i].at = "write" /\ p = proc[i].payload
    BY <1>1, <1>2, <2>2 DEF Known, ImportStages
  <2> QED  BY <1>3, <2>1, <2>2, WhoWrites
<1>4. ASSUME NEW i \in Importers, proc'[i].at \in {"look", "write", "complete"}
      PROVE  /\ imported'[Revision[proc'[i].payload]].status # "absent"
             /\ imported'[Revision[proc'[i].payload]].hash = Digest[proc'[i].payload]
  <2>1. CASE proc'[i] = proc[i]
    BY <1>1, <1>2, <1>4, <2>1 DEF Known, ImportStages
  <2>2. CASE /\ proc'[i].payload = proc[i].payload
             /\ proc[i].at \in {"look", "write"}
    BY <1>1, <1>2, <2>2 DEF Known, ImportStages
  <2>3. CASE /\ proc'[i].payload = proc[i].payload
             /\ imported'[Revision[proc[i].payload]].status # "absent"
             /\ imported'[Revision[proc[i].payload]].hash = Digest[proc[i].payload]
    BY <2>3
  <2> QED  BY <1>4, <2>1, <2>2, <2>3, ImporterGoes DEF Goes, ImportStages
<1> QED  BY <1>3, <1>4 DEF Known

-------------------------------------------------------------------------------
(* What is processed is reflected in the order *)

\* An importer that is to complete, a key that is completed, a worker that is to
\* mark and an event that is marked: each has its payload reflected.
Faithful ==
  /\ order # Nothing => order \in written
  /\ \A p \in Payloads : imported[Revision[p]].status = "succeeded"
                        /\ imported[Revision[p]].hash = Digest[p] => Reflected(p)
  /\ \A i \in Importers : proc[i].at = "complete" => Reflected(proc[i].payload)
  /\ \A w \in Workers :
       /\ proc[w].at \in ImportStages =>
            /\ content[proc[w].event] # Nothing
            /\ proc[w].payload = content[proc[w].event]
       /\ proc[w].at = "mark" /\ content[proc[w].event] # Nothing =>
            Reflected(content[proc[w].event])
  /\ ProcessedIsReflected

\* Payload p is reflected in an order that was written from those of W.
Covered(p, W) == \E q \in W : p = q \/ Stale(p, q)

\* Of two payloads that one key stands for, if one is covered the other is.
LEMMA CoveredAlike ==
  ASSUME NEW p \in Payloads, NEW q \in Payloads, Revision[p] = Revision[q], Digest[p] = Digest[q],
         NEW W \in SUBSET Payloads, Nothing \notin W, Covered(q, W)
  PROVE  Covered(p, W)
<1>1. PICK r \in W : q = r \/ Stale(q, r)
  BY DEF Covered
<1>2. Rank[p] = Rank[q] /\ Lifecycle[p] = Lifecycle[q] /\ Revision[p] \in Nat /\ r \in Payloads
  BY PayloadAssumption
<1>3. Stale(p, r)
  BY <1>1, <1>2 DEF Stale, Older
<1> QED  BY <1>3 DEF Covered

\* Covered says the same of a state and its next.
LEMMA CoveredIsReflected ==
  ASSUME NEW p
  PROVE  Reflected(p) <=> Covered(p, written)
  BY DEF Reflected, Covered

\* No step claims more than it has done.
LEMMA FaithfulStep ==
  ASSUME TypeInv, Known, Faithful, [Next]_vars
  PROVE  Faithful'
<1>1. content' = content
  BY ContentStays
<1>2. /\ written \subseteq Payloads /\ written \subseteq written'
      /\ imported \in [Revisions -> KeysOver(Digests)]
      /\ \A i \in Importers : proc[i].at \in ImportStages => proc[i].payload \in Payloads
      /\ \A p \in Payloads : Revision[p] \in Revisions
      /\ \A w \in Workers : w \in Importers
  <2>1. written \subseteq written'
    BY WhoWrites
  <2> QED  BY <2>1, Fields DEF TypeInv, TypeOK, Placed, Revisions, Processes, Importers
<1>3. order' # Nothing => order' \in written'
  BY WhoWrites DEF Faithful
<1>a. \A h : Covered(h, written) => Covered(h, written')
  BY <1>2 DEF Covered
<1>b. \A h \in written' : Covered(h, written')
  BY DEF Covered
<1>c. \A i \in Importers : proc[i].at = "complete" => Covered(proc[i].payload, written')
  BY <1>a, CoveredIsReflected DEF Faithful
<1>d. \A p \in Payloads : imported[Revision[p]].status = "succeeded"
                       /\ imported[Revision[p]].hash = Digest[p] => Covered(p, written')
  BY <1>a, CoveredIsReflected DEF Faithful
<1>e. written' \in SUBSET Payloads /\ Nothing \notin written'
  BY <1>2, TypeStep, NothingAssumption DEF TypeInv, TypeOK
<1>4. ASSUME NEW p \in Payloads,
             imported'[Revision[p]].status = "succeeded", imported'[Revision[p]].hash = Digest[p]
      PROVE  Covered(p, written')
  <2> DEFINE v == Revision[p]
  <2>0. v \in Revisions
    BY <1>2
  <2>1. CASE imported[v].status = "succeeded"
    <3>1. imported'[v].hash = imported[v].hash
      BY <2>0, <2>1, KeysKeep
    <3> QED  BY <1>4, <1>d, <2>1, <3>1
  <2>2. CASE imported[v].status # "succeeded"
    <3>1. PICK i \in Importers : proc[i].at = "complete" /\ v = Revision[proc[i].payload]
      BY <1>4, <2>0, <2>2, WhoCompletes
    <3>2. imported[v].status # "absent" /\ imported[v].hash = Digest[proc[i].payload]
      BY <3>1 DEF Known
    <3>3. imported'[v].hash = Digest[proc[i].payload]
      BY <2>0, <3>2, KeysKeep
    <3>4. proc[i].payload \in Payloads /\ Covered(proc[i].payload, written')
      BY <1>2, <1>c, <3>1 DEF ImportStages
    <3> QED  BY <1>4, <1>e, <3>1, <3>3, <3>4, CoveredAlike
  <2> QED  BY <2>1, <2>2
<1>5. ASSUME NEW i \in Importers, proc'[i].at = "complete"
      PROVE  Covered(proc'[i].payload, written')
  <2>1. CASE proc'[i] = proc[i]
    BY <1>c, <1>5, <2>1
  <2>2. CASE proc'[i].payload = proc[i].payload /\ Stale(proc[i].payload, order)
    <3>1. order \in written'
      BY <1>2, <2>2 DEF Stale, Faithful
    <3> QED  BY <2>2, <3>1 DEF Covered
  <2>3. CASE proc'[i].payload = proc[i].payload /\ proc[i].payload \in written'
    BY <1>b, <2>3
  <2> QED  BY <1>5, <2>1, <2>2, <2>3, ImporterGoes DEF Goes, ImportStages
<1>6. ASSUME NEW w \in Workers
      PROVE  /\ proc'[w].at \in ImportStages =>
                  /\ content[proc'[w].event] # Nothing
                  /\ proc'[w].payload = content[proc'[w].event]
             /\ proc'[w].at = "mark" /\ content[proc'[w].event] # Nothing =>
                  Covered(content[proc'[w].event], written')
  <2>0. Goes(w) /\ w \in Importers
    BY <1>2, ImporterGoes
  <2>1. proc[w].at \in ImportStages =>
          content[proc[w].event] # Nothing /\ proc[w].payload = content[proc[w].event]
    BY DEF Faithful
  <2>2. proc[w].at = "mark" /\ content[proc[w].event] # Nothing =>
          Covered(content[proc[w].event], written')
    BY <1>a, CoveredIsReflected DEF Faithful
  <2>3. ASSUME proc'[w].at \in ImportStages
        PROVE  content[proc'[w].event] # Nothing /\ proc'[w].payload = content[proc'[w].event]
    BY <1>1, <2>0, <2>1, <2>3 DEF Goes, ImportStages
  <2>4. ASSUME proc'[w].at = "mark", content[proc'[w].event] # Nothing
        PROVE  Covered(content[proc'[w].event], written')
    <3>1. CASE proc'[w] = proc[w]
      BY <2>2, <2>4, <3>1
    <3>2. CASE /\ proc'[w].event = proc[w].event
               /\ proc[w].at = "import"
               /\ imported[Revision[proc[w].payload]].status = "succeeded"
               /\ imported[Revision[proc[w].payload]].hash = Digest[proc[w].payload]
      <4>1. proc[w].payload = content[proc'[w].event]
        BY <2>1, <3>2 DEF ImportStages
      <4>2. proc[w].payload \in Payloads
        BY <1>2, <2>0, <3>2 DEF ImportStages
      <4> QED  BY <1>d, <3>2, <4>1, <4>2
    <3>3. CASE proc'[w].event = proc[w].event /\ proc[w].at = "complete"
      BY <1>c, <2>0, <2>1, <3>3 DEF ImportStages
    <3> QED  BY <1>1, <2>0, <2>4, <3>1, <3>2, <3>3 DEF Goes, ImportStages
  <2> QED  BY <2>3, <2>4
<1>7. ASSUME NEW e \in Events, event'[e] = "processed", content[e] # Nothing
      PROVE  Covered(content[e], written')
  <2>1. CASE event[e] = "processed"
    BY <1>7, <1>a, <2>1, CoveredIsReflected DEF Faithful, ProcessedIsReflected
  <2>2. CASE event[e] # "processed"
    <3>1. PICK w \in Workers : proc[w].at = "mark" /\ e = proc[w].event
      BY <1>7, <2>2, WhoMarks
    <3> QED  BY <1>7, <1>a, <3>1, CoveredIsReflected DEF Faithful
  <2> QED  BY <2>1, <2>2
<1> QED
  BY <1>1, <1>3, <1>4, <1>5, <1>6, <1>7 DEF Faithful, ProcessedIsReflected, Reflected, Covered,
     Stale, Older

-------------------------------------------------------------------------------
(* The keys *)

\* What the operators of IdempotencyKey do to a record is one of its moves, or
\* nothing.
LEMMA OperatorsMove ==
  ASSUME NEW H, NEW k
  PROVE  /\ KeyMayMove(k, Completed(k), H)
         /\ KeyMayMove(k, FailedKey(k), H)
         /\ k.status = "held" => KeyMayMove(k, Lapsed(k), H)
         /\ \A h \in H : /\ Answer(k, h) = "acquired" => KeyMayMove(k, Taken(k), H)
                         /\ k.status = "absent" => KeyMayMove(k, Key("held", h), H)
  BY DEF KeyMayMove, KeyMoves, Completed, FailedKey, Lapsed

\* A step that moves one key leaves the others.
LEMMA OneKeyMoves ==
  ASSUME NEW D, NEW f, f = [d \in D |-> f[d]], NEW H, NEW c \in D, NEW l, KeyMayMove(f[c], l, H)
  PROVE  \A d \in D : KeyMayMove(f[d], [f EXCEPT ![c] = l][d], H)
  BY DEF KeyMayMove

LEMMA KeysStay ==
  ASSUME UNCHANGED keys
  PROVE  KeysMove
  BY DEF keys, KeysMove, KeyMayMove

LEMMA StoreKeyMoves ==
  ASSUME TypeInv, UNCHANGED <<handled, imported>>, NEW e \in Events, NEW l,
         KeyMayMove(stored[e], l, Carried), stored' = [stored EXCEPT ![e] = l]
  PROVE  KeysMove
<1>1. stored = [d \in Events |-> stored[d]]
  BY DEF TypeInv, TypeOK
<1>2. \A d \in Events : KeyMayMove(stored[d], stored'[d], Carried)
  BY <1>1, OneKeyMoves
<1> QED  BY <1>2 DEF KeysMove, KeyMayMove

LEMMA HandleKeyMoves ==
  ASSUME TypeInv, UNCHANGED <<stored, imported>>, NEW e \in Events, NEW l,
         KeyMayMove(handled[e], l, Carried), handled' = [handled EXCEPT ![e] = l]
  PROVE  KeysMove
<1>1. handled = [d \in Events |-> handled[d]]
  BY DEF TypeInv, TypeOK
<1>2. \A d \in Events : KeyMayMove(handled[d], handled'[d], Carried)
  BY <1>1, OneKeyMoves
<1> QED  BY <1>2 DEF KeysMove, KeyMayMove

LEMMA RevisionKeyMoves ==
  ASSUME TypeInv, UNCHANGED <<stored, handled>>, NEW v \in Revisions, NEW l,
         KeyMayMove(imported[v], l, Digests), imported' = [imported EXCEPT ![v] = l]
  PROVE  KeysMove
<1>1. imported = [d \in Revisions |-> imported[d]]
  BY DEF TypeInv, TypeOK
<1>2. \A d \in Revisions : KeyMayMove(imported[d], imported'[d], Digests)
  BY <1>1, OneKeyMoves
<1> QED  BY <1>2 DEF KeysMove, KeyMayMove

\* Every step moves one key at most, as a key may move.
LEMMA KeyStep ==
  ASSUME TypeInv, [Next]_vars
  PROVE  KeysMove
<1>a. /\ \A x \in Processes : proc[x] \in WellPlaced(x)
      /\ content \in [Events -> Carried]
  BY ContentsAssumption DEF TypeInv, TypeOK, Placed, Carried
<1>1. ASSUME NEW r \in Requests, NEW e \in Events, ReceiveAgain(r, e)
      PROVE  KeysMove
  BY <1>1, KeysStay DEF ReceiveAgain, keys
<1>2. ASSUME NEW r \in Requests, NEW e \in Events, Receive(r, e)
      PROVE  KeysMove
  BY <1>2, KeysStay DEF Receive, keys
<1>3. ASSUME NEW r \in Requests, AcquireStore(r)
      PROVE  KeysMove
  <2>1. proc[r] \in WellPlaced(r)
    BY <1>a DEF Processes, Importers
  <2> DEFINE c == proc[r].event
  <2>2. c \in Events /\ content[c] \in Carried
    BY <1>3, <1>a, <2>1, Fields DEF AcquireStore, EventStages
  <2>3. \/ UNCHANGED keys
        \/ /\ stored' = [stored EXCEPT ![c] = Taken(stored[c])]
           /\ Answer(stored[c], content[c]) = "acquired"
           /\ UNCHANGED <<handled, imported>>
    BY <1>3 DEF AcquireStore, keys
  <2> QED
    BY <2>2, <2>3, KeysStay, OperatorsMove, StoreKeyMoves
<1>4. ASSUME NEW r \in Requests, CreateStore(r)
      PROVE  KeysMove
  <2>1. proc[r] \in WellPlaced(r)
    BY <1>a DEF Processes, Importers
  <2> DEFINE c == proc[r].event
  <2>2. c \in Events /\ content[c] \in Carried
    BY <1>4, <1>a, <2>1, Fields DEF CreateStore, EventStages
  <2>3. \/ UNCHANGED keys
        \/ /\ stored' = [stored EXCEPT ![c] = Key("held", content[c])]
           /\ stored[c].status = "absent"
           /\ UNCHANGED <<handled, imported>>
    BY <1>4 DEF CreateStore, keys
  <2> QED
    BY <2>2, <2>3, KeysStay, OperatorsMove, StoreKeyMoves
<1>5. ASSUME NEW r \in Requests, Insert(r)
      PROVE  KeysMove
  <2>1. proc[r] \in WellPlaced(r)
    BY <1>a DEF Processes, Importers
  <2> DEFINE c == proc[r].event
  <2>2. c \in Events /\ content[c] \in Carried
    BY <1>5, <1>a, <2>1, Fields DEF Insert, EventStages
  <2>3. \/ UNCHANGED keys
        \/ /\ stored' = [stored EXCEPT ![c] = Completed(stored[c])]
           /\ UNCHANGED <<handled, imported>>
    BY <1>5 DEF Insert, keys
  <2> QED
    BY <2>2, <2>3, KeysStay, OperatorsMove, StoreKeyMoves
<1>6. ASSUME NEW r \in Requests, InsertFails(r)
      PROVE  KeysMove
  <2>1. proc[r] \in WellPlaced(r)
    BY <1>a DEF Processes, Importers
  <2> DEFINE c == proc[r].event
  <2>2. c \in Events /\ content[c] \in Carried
    BY <1>6, <1>a, <2>1, Fields DEF InsertFails, EventStages
  <2>3. stored' = [stored EXCEPT ![c] = FailedKey(stored[c])] /\ UNCHANGED <<handled, imported>>
    BY <1>6 DEF InsertFails
  <2> QED
    BY <2>2, <2>3, OperatorsMove, StoreKeyMoves
<1>7. ASSUME NEW r \in Requests, CompleteStore(r)
      PROVE  KeysMove
  <2>1. proc[r] \in WellPlaced(r)
    BY <1>a DEF Processes, Importers
  <2> DEFINE c == proc[r].event
  <2>2. c \in Events /\ content[c] \in Carried
    BY <1>7, <1>a, <2>1, Fields DEF CompleteStore, EventStages
  <2>3. stored' = [stored EXCEPT ![c] = Completed(stored[c])] /\ UNCHANGED <<handled, imported>>
    BY <1>7 DEF CompleteStore
  <2> QED
    BY <2>2, <2>3, OperatorsMove, StoreKeyMoves
<1>8. ASSUME NEW w \in Workers, Poll(w)
      PROVE  KeysMove
  BY <1>8, KeysStay DEF Poll, keys
<1>9. ASSUME NEW w \in Workers, NEW e \in Events, Load(w, e)
      PROVE  KeysMove
  BY <1>9, KeysStay DEF Load, keys
<1>10. ASSUME NEW w \in Workers, AcquireHandle(w)
      PROVE  KeysMove
  <2>1. proc[w] \in WellPlaced(w)
    BY <1>a DEF Processes, Importers
  <2> DEFINE c == proc[w].event
  <2>2. c \in Events /\ content[c] \in Carried
    BY <1>10, <1>a, <2>1, Fields DEF AcquireHandle, EventStages
  <2>3. \/ UNCHANGED keys
        \/ /\ handled' = [handled EXCEPT ![c] = Taken(handled[c])]
           /\ Answer(handled[c], content[c]) = "acquired"
           /\ UNCHANGED <<stored, imported>>
    BY <1>10 DEF AcquireHandle, keys
  <2> QED
    BY <2>2, <2>3, KeysStay, OperatorsMove, HandleKeyMoves
<1>11. ASSUME NEW w \in Workers, CreateHandle(w)
      PROVE  KeysMove
  <2>1. proc[w] \in WellPlaced(w)
    BY <1>a DEF Processes, Importers
  <2> DEFINE c == proc[w].event
  <2>2. c \in Events /\ content[c] \in Carried
    BY <1>11, <1>a, <2>1, Fields DEF CreateHandle, EventStages
  <2>3. \/ UNCHANGED keys
        \/ /\ handled' = [handled EXCEPT ![c] = Key("held", content[c])]
           /\ handled[c].status = "absent"
           /\ UNCHANGED <<stored, imported>>
    BY <1>11 DEF CreateHandle, keys
  <2> QED
    BY <2>2, <2>3, KeysStay, OperatorsMove, HandleKeyMoves
<1>12. ASSUME NEW w \in Workers, Claim(w)
      PROVE  KeysMove
  BY <1>12, KeysStay DEF Claim, keys
<1>13. ASSUME NEW w \in Workers, ClaimNothing(w)
      PROVE  KeysMove
  <2>1. proc[w] \in WellPlaced(w)
    BY <1>a DEF Processes, Importers
  <2> DEFINE c == proc[w].event
  <2>2. c \in Events /\ content[c] \in Carried
    BY <1>13, <1>a, <2>1, Fields DEF ClaimNothing, EventStages
  <2>3. handled' = [handled EXCEPT ![c] = Completed(handled[c])] /\ UNCHANGED <<stored, imported>>
    BY <1>13 DEF ClaimNothing
  <2> QED
    BY <2>2, <2>3, OperatorsMove, HandleKeyMoves
<1>14. ASSUME NEW w \in Workers, MarkProcessed(w)
      PROVE  KeysMove
  BY <1>14, KeysStay DEF MarkProcessed, keys
<1>15. ASSUME NEW w \in Workers, CompleteHandle(w)
      PROVE  KeysMove
  <2>1. proc[w] \in WellPlaced(w)
    BY <1>a DEF Processes, Importers
  <2> DEFINE c == proc[w].event
  <2>2. c \in Events /\ content[c] \in Carried
    BY <1>15, <1>a, <2>1, Fields DEF CompleteHandle, EventStages
  <2>3. handled' = [handled EXCEPT ![c] = Completed(handled[c])] /\ UNCHANGED <<stored, imported>>
    BY <1>15 DEF CompleteHandle
  <2> QED
    BY <2>2, <2>3, OperatorsMove, HandleKeyMoves
<1>16. ASSUME NEW w \in Workers, MarkFailed(w)
      PROVE  KeysMove
  BY <1>16, KeysStay DEF MarkFailed, keys
<1>17. ASSUME NEW w \in Workers, FailHandle(w)
      PROVE  KeysMove
  <2>1. proc[w] \in WellPlaced(w)
    BY <1>a DEF Processes, Importers
  <2> DEFINE c == proc[w].event
  <2>2. c \in Events /\ content[c] \in Carried
    BY <1>17, <1>a, <2>1, Fields DEF FailHandle, EventStages
  <2>3. handled' = [handled EXCEPT ![c] = FailedKey(handled[c])] /\ UNCHANGED <<stored, imported>>
    BY <1>17 DEF FailHandle
  <2> QED
    BY <2>2, <2>3, OperatorsMove, HandleKeyMoves
<1>18. ASSUME NEW w \in Workers, HandlerFails(w)
      PROVE  KeysMove
  BY <1>18, KeysStay DEF HandlerFails, keys
<1>19. ASSUME NEW w \in Workers, MarkFails(w)
      PROVE  KeysMove
  <2>1. proc[w] \in WellPlaced(w)
    BY <1>a DEF Processes, Importers
  <2> DEFINE c == proc[w].event
  <2>2. c \in Events /\ content[c] \in Carried
    BY <1>19, <1>a, <2>1, Fields DEF MarkFails, EventStages
  <2>3. handled' = [handled EXCEPT ![c] = FailedKey(handled[c])] /\ UNCHANGED <<stored, imported>>
    BY <1>19 DEF MarkFails
  <2> QED
    BY <2>2, <2>3, OperatorsMove, HandleKeyMoves
<1>20. ASSUME NEW i \in Importers, AcquireImport(i)
      PROVE  KeysMove
  <2>1. proc[i] \in WellPlaced(i)
    BY <1>a DEF Processes, Importers
  <2> DEFINE p == proc[i].payload
  <2> DEFINE c == Revision[p]
  <2>2. Digest[p] \in Digests /\ c \in Revisions
    BY <1>20, <2>1, Fields, PayloadAssumption DEF AcquireImport, ImportStages, Revisions, Digests
  <2>3. \/ UNCHANGED keys
        \/ /\ imported' = [imported EXCEPT ![c] = Taken(imported[c])]
           /\ Answer(imported[c], Digest[p]) = "acquired"
           /\ UNCHANGED <<stored, handled>>
    BY <1>20 DEF AcquireImport, keys
  <2> QED
    BY <2>2, <2>3, KeysStay, OperatorsMove, RevisionKeyMoves
<1>21. ASSUME NEW i \in Importers, CreateImport(i)
      PROVE  KeysMove
  <2>1. proc[i] \in WellPlaced(i)
    BY <1>a DEF Processes, Importers
  <2> DEFINE p == proc[i].payload
  <2> DEFINE c == Revision[p]
  <2>2. Digest[p] \in Digests /\ c \in Revisions
    BY <1>21, <2>1, Fields, PayloadAssumption DEF CreateImport, ImportStages, Revisions, Digests
  <2>3. \/ UNCHANGED keys
        \/ /\ imported' = [imported EXCEPT ![c] = Key("held", Digest[p])]
           /\ imported[c].status = "absent"
           /\ UNCHANGED <<stored, handled>>
    BY <1>21 DEF CreateImport, keys
  <2> QED
    BY <2>2, <2>3, KeysStay, OperatorsMove, RevisionKeyMoves
<1>22. ASSUME NEW i \in Importers, Look(i)
      PROVE  KeysMove
  BY <1>22, KeysStay DEF Look, keys
<1>23. ASSUME NEW i \in Importers, Write(i)
      PROVE  KeysMove
  BY <1>23, KeysStay DEF Write, keys
<1>24. ASSUME NEW i \in Importers, WriteFails(i)
      PROVE  KeysMove
  <2>1. proc[i] \in WellPlaced(i)
    BY <1>a DEF Processes, Importers
  <2> DEFINE p == proc[i].payload
  <2> DEFINE c == Revision[p]
  <2>2. Digest[p] \in Digests /\ c \in Revisions
    BY <1>24, <2>1, Fields, PayloadAssumption DEF WriteFails, ImportStages, Revisions, Digests
  <2>3. imported' = [imported EXCEPT ![c] = FailedKey(imported[c])] /\ UNCHANGED <<stored, handled>>
    BY <1>24 DEF WriteFails
  <2> QED
    BY <2>2, <2>3, OperatorsMove, RevisionKeyMoves
<1>25. ASSUME NEW i \in Importers, CompleteImport(i)
      PROVE  KeysMove
  <2>1. proc[i] \in WellPlaced(i)
    BY <1>a DEF Processes, Importers
  <2> DEFINE p == proc[i].payload
  <2> DEFINE c == Revision[p]
  <2>2. Digest[p] \in Digests /\ c \in Revisions
    BY <1>25, <2>1, Fields, PayloadAssumption DEF CompleteImport, ImportStages, Revisions, Digests
  <2>3. imported' = [imported EXCEPT ![c] = Completed(imported[c])] /\ UNCHANGED <<stored, handled>>
    BY <1>25 DEF CompleteImport
  <2> QED
    BY <2>2, <2>3, OperatorsMove, RevisionKeyMoves
<1>26. ASSUME NEW i \in Pollers, NEW p \in Polled, PollOrder(i, p)
      PROVE  KeysMove
  BY <1>26, KeysStay DEF PollOrder, keys
<1>27. ASSUME NEW x \in Processes, Crash(x)
      PROVE  KeysMove
  BY <1>27, KeysStay DEF Crash, keys
<1>28. ASSUME LeaseLapses
      PROVE  KeysMove
  <2>1. ASSUME NEW e \in Events, stored[e].status = "held",
              stored' = [stored EXCEPT ![e] = Lapsed(@)], UNCHANGED <<handled, imported>>
        PROVE  KeysMove
    BY <2>1, OperatorsMove, StoreKeyMoves
  <2>2. ASSUME NEW e \in Events, handled[e].status = "held",
              handled' = [handled EXCEPT ![e] = Lapsed(@)], UNCHANGED <<stored, imported>>
        PROVE  KeysMove
    BY <2>2, OperatorsMove, HandleKeyMoves
  <2>3. ASSUME NEW v \in Revisions, imported[v].status = "held",
              imported' = [imported EXCEPT ![v] = Lapsed(@)], UNCHANGED <<stored, handled>>
        PROVE  KeysMove
    BY <2>3, OperatorsMove, RevisionKeyMoves
  <2> QED
    BY <1>28, <2>1, <2>2, <2>3 DEF LeaseLapses
<1>29. CASE UNCHANGED vars
  BY <1>29, KeysStay DEF vars, keys
<1>q. QED
  BY <1>1, <1>2, <1>3, <1>4, <1>5, <1>6, <1>7, <1>8, <1>9, <1>10, <1>11, <1>12, <1>13,
    <1>14, <1>15, <1>16, <1>17, <1>18, <1>19, <1>20, <1>21, <1>22, <1>23, <1>24, <1>25,
    <1>26, <1>27, <1>28, <1>29 DEF Next, WorkerStep, Import, Importers

-------------------------------------------------------------------------------
(* The theorems *)

\* The inductive invariant: types and places, one worker past the claim of an
\* event, keys that stand for what is written, and claims that are kept.
IInv == TypeInv /\ Exclusive /\ Known /\ Faithful

\* It holds at first.
LEMMA InitHolds ==
  ASSUME Init
  PROVE  IInv
<1>1. \A H : NoKey \in KeysOver(H)
  BY KeysAreKeys
<1>2. \A x \in Processes : Idle \in WellPlaced(x)
  BY Beginnings
<1>3. Idle.at = "idle"
  BY IdleReads
<1>4. TypeInv
  BY <1>1, <1>2, FaultsAssumption
     DEF Init, TypeInv, TypeOK, Placed, WellPlaced, EventStatuses
<1>5. Exclusive
  <2>1. \A w \in Workers : proc[w].at = "idle"
    BY <1>3 DEF Init, Processes
  <2>2. \A w \in Workers, e \in Events : ~Handles(w, e)
    BY <2>1 DEF Handles
  <2> QED  BY <2>2 DEF Exclusive, HandledByOne
<1>6. Known
  BY <1>3 DEF Init, Known, Processes, Importers
<1>7. Faithful
  <2>1. \A p \in Payloads : imported[Revision[p]].status = "absent"
    BY DEF Init, Revisions, NoKey, Key
  <2> QED
    BY <1>3, <2>1 DEF Init, Faithful, ProcessedIsReflected, Processes, Importers, ImportStages
<1> QED  BY <1>4, <1>5, <1>6, <1>7 DEF IInv

\* Every reachable state satisfies the invariant.
LEMMA Inductive == Spec => []IInv
<1>1. Init => IInv
  BY InitHolds
<1>2. IInv /\ [Next]_vars => IInv'
  BY TypeStep, ExclusiveStep, KnownStep, FaithfulStep DEF IInv
<1> QED  BY <1>1, <1>2, PTL DEF Spec

\* Every variable of the intake keeps its type, the counter of faults its bound.
THEOREM TypeCorrect == Spec => []TypeOK
<1>1. IInv => TypeOK
  BY DEF IInv, TypeInv
<1> QED  BY <1>1, Inductive, PTL

\* No two workers are ever between the claim and the mark of one event, for any
\* number of workers, events, crashes and lapsed leases.
THEOREM OneWorkerAnEvent == Spec => []HandledByOne
<1>1. IInv => HandledByOne
  BY DEF IInv, Exclusive, HandledByOne
<1> QED  BY <1>1, Inductive, PTL

\* Of all that claims to be one revision of the order, payloads of one digest
\* only are written: the same statuses, amount and times.
THEOREM OneDigestARevision == Spec => []RevisionHasOneDigest
<1>1. IInv => RevisionHasOneDigest
  BY DEF IInv, Known, RevisionHasOneDigest
<1> QED  BY <1>1, Inductive, PTL

\* An event that counts as processed is in the order, or too old for it.
THEOREM ProcessedReflected == Spec => []ProcessedIsReflected
<1>1. IInv => ProcessedIsReflected
  BY DEF IInv, Faithful
<1> QED  BY <1>1, Inductive, PTL

\* Every key of an event and of a revision, whichever requests, workers and
\* pollers use it, moves as a record of the idempotency service does for callers
\* of one owner.
THEOREM KeysAreTheServices == Spec => KeysFollowTheProtocol
<1>1. TypeInv /\ [Next]_vars => [KeysMove]_vars
  BY KeyStep
<1>2. IInv => TypeInv
  BY DEF IInv
<1> QED  BY <1>1, <1>2, Inductive, PTL DEF Spec, KeysFollowTheProtocol

===============================================================================
