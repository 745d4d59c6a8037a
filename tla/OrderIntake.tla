------------------------------ MODULE OrderIntake ------------------------------
(***************************************************************************)
(* How the platform's orders come in: webhook events that are stored,      *)
(* acknowledged and processed later (modules/webhook), order pages that    *)
(* are polled (modules/ordersync), and the import both end in, which       *)
(* brings one order to a revision (modules/order).                         *)
(*                                                                         *)
(* Three kinds of process run side by side. A request stores one event; a  *)
(* worker takes a batch of queued events and handles one after the other;  *)
(* a poller imports one payload of a page. Each step is one statement or   *)
(* one transaction on the database. Every step that must not be done twice *)
(* is preceded by an idempotency key: one per event for its storing, one   *)
(* per event for its handling, one per revision of the order.              *)
(*                                                                         *)
(* One order is modelled. A payload is what the platform says of it at a   *)
(* time: its revision, the rank of its status and the latest of its        *)
(* lifecycle times, 0 for none. Every payload has a revision, if only the  *)
(* second it was updated in; two of the same revision may still differ,    *)
(* and those of the same statuses, amount and times, which are all that    *)
(* the import's key is made from, may differ in what they say besides:     *)
(* items, customer, shipments.                                             *)
(***************************************************************************)
EXTENDS Naturals, FiniteSets, IdempotencyKey

CONSTANTS
  Requests,   \* deliveries of events by the platform, each repeated at will
  Workers,    \* instances of the webhook worker
  Pollers,    \* executions of order sync tasks
  Events,     \* event ids
  Contents,   \* what the events may carry: a payload, or Nothing
  Payloads,   \* what the platform may say of the order
  Polled,     \* the payloads that pages carry
  Revision, Rank, Lifecycle,  \* of each payload
  Digest,     \* what the import's key keeps of each payload
  MaxFaults   \* bound: crashes, errors of the database, lapsed leases

\* The digest has in it what the rank and the lifecycle time are computed from.
ASSUME PayloadAssumption ==
  /\ Polled \subseteq Payloads
  /\ Revision \in [Payloads -> Nat]
  /\ Rank \in [Payloads -> Nat]
  /\ Lifecycle \in [Payloads -> Nat]
  /\ \A p, q \in Payloads :
       Digest[p] = Digest[q] => Rank[p] = Rank[q] /\ Lifecycle[p] = Lifecycle[q]

ASSUME FaultsAssumption == MaxFaults \in Nat

ASSUME ProcessAssumption ==
  /\ Requests \intersect Workers = {}
  /\ Requests \intersect Pollers = {}
  /\ Workers \intersect Pollers = {}

Nothing == "nothing"

ASSUME NothingAssumption == Nothing \notin Payloads /\ Nothing \notin Events

ASSUME ContentsAssumption == Contents \subseteq [Events -> Payloads \union {Nothing}]

VARIABLES
  content,  \* what each event carries
  event,    \* the status of each event's row in webhook_events
  stored,   \* the key of each event's storing
  handled,  \* the key of each event's handling
  imported, \* the key of each revision's import
  order,    \* the payload the order's row was last written from
  written,  \* history: every payload the order was ever written from
  acked,    \* history: the events the platform was given an acknowledgement of
  proc,     \* where each process is
  faults    \* bounded by MaxFaults

keys == <<stored, handled, imported>>
vars == <<content, event, keys, order, written, acked, proc, faults>>

Processes == Requests \union Workers \union Pollers
Importers == Workers \union Pollers
Revisions == {Revision[p] : p \in Payloads}

\* What orderImportRequestHash leaves of the payloads
Digests == {Digest[p] : p \in Payloads}

EventStatuses == {"absent", "queued", "processing", "processed", "failed_retryable"}

Stages == {"idle", "next",
           "store", "create_store", "insert", "stored",
           "handle", "create_handle", "claim", "mark", "handled", "mark_failed", "fail",
           "import", "create_import", "look", "write", "complete"}

\* A process: its stage, the events its batch still has, the event and the
\* payload it is at, and the order as it saw it.
Processing == [at: Stages, batch: SUBSET Events, event: Events \union {Nothing},
               payload: Payloads \union {Nothing}, saw: Payloads \union {Nothing}]

Idle == [at |-> "idle", batch |-> {}, event |-> Nothing, payload |-> Nothing,
         saw |-> Nothing]

Init ==
  /\ content \in Contents
  /\ event = [e \in Events |-> "absent"]
  /\ stored = [e \in Events |-> NoKey]
  /\ handled = [e \in Events |-> NoKey]
  /\ imported = [v \in Revisions |-> NoKey]
  /\ order = Nothing
  /\ written = {}
  /\ acked = {}
  /\ proc = [x \in Processes |-> Idle]
  /\ faults = 0

Goto(x, stage) == proc' = [proc EXCEPT ![x].at = stage]

Fault == faults < MaxFaults /\ faults' = faults + 1

-------------------------------------------------------------------------------
(* A request stores an event: Service.Ingest *)

\* The row is there already: a duplicate, acknowledged at once.
ReceiveAgain(r, e) ==
  /\ proc[r].at = "idle"
  /\ event[e] # "absent"
  /\ acked' = acked \union {e}
  /\ UNCHANGED <<content, event, keys, order, written, proc, faults>>

Receive(r, e) ==
  /\ proc[r].at = "idle"
  /\ event[e] = "absent"
  /\ proc' = [proc EXCEPT ![r] = [Idle EXCEPT !.at = "store", !.event = e]]
  /\ UNCHANGED <<content, event, keys, order, written, acked, faults>>

\* Acquire of the event's key finds its row, or none and creates it; the
\* unique index refuses the second of two that create it, which is an error
\* to the platform and not acknowledged, as is a key conflict.
AcquireStore(r) ==
  LET e == proc[r].event IN
  /\ proc[r].at = "store"
  /\ \/ /\ Answer(stored[e], content[e]) = "missing"
        /\ Goto(r, "create_store")
        /\ UNCHANGED <<stored, acked>>
     \/ /\ Answer(stored[e], content[e]) = "acquired"
        /\ stored' = [stored EXCEPT ![e] = Taken(@)]
        /\ Goto(r, "insert")
        /\ UNCHANGED acked
     \/ /\ Answer(stored[e], content[e]) = "already_succeeded"
        /\ acked' = acked \union {e}
        /\ proc' = [proc EXCEPT ![r] = Idle]
        /\ UNCHANGED stored
  /\ UNCHANGED <<content, event, handled, imported, order, written, faults>>

\* Mutant: the key says succeeded from the start.
CreateStoreSucceeded(r) ==
  LET e == proc[r].event IN
  /\ proc[r].at = "create_store"
  /\ IF stored[e].status = "absent"
     THEN /\ stored' = [stored EXCEPT ![e] = Key("succeeded", content[e])]
          /\ Goto(r, "insert")
     ELSE proc' = [proc EXCEPT ![r] = Idle] /\ UNCHANGED stored
  /\ UNCHANGED <<content, event, handled, imported, order, written, acked, faults>>

CreateStore(r) ==
  LET e == proc[r].event IN
  /\ proc[r].at = "create_store"
  /\ IF stored[e].status = "absent"
     THEN /\ stored' = [stored EXCEPT ![e] = Key("held", content[e])]
          /\ Goto(r, "insert")
     ELSE proc' = [proc EXCEPT ![r] = Idle] /\ UNCHANGED stored
  /\ UNCHANGED <<content, event, handled, imported, order, written, acked, faults>>

\* INSERT ... ON CONFLICT DO NOTHING of the row, queued. The row of another
\* that won is reloaded and acknowledged, whether or not the key completes.
Insert(r) ==
  LET e == proc[r].event IN
  /\ proc[r].at = "insert"
  /\ IF event[e] = "absent"
     THEN /\ event' = [event EXCEPT ![e] = "queued"]
          /\ Goto(r, "stored")
          /\ UNCHANGED <<stored, acked>>
     ELSE /\ stored' = [stored EXCEPT ![e] = Completed(@)]
          /\ acked' = acked \union {e}
          /\ proc' = [proc EXCEPT ![r] = Idle]
          /\ UNCHANGED event
  /\ UNCHANGED <<content, handled, imported, order, written, faults>>

\* The insert fails: failWebhookIngest, and an error to the platform.
InsertFails(r) ==
  /\ proc[r].at = "insert"
  /\ Fault
  /\ stored' = [stored EXCEPT ![proc[r].event] = FailedKey(@)]
  /\ proc' = [proc EXCEPT ![r] = Idle]
  /\ UNCHANGED <<content, event, handled, imported, order, written, acked>>

\* Complete; when the lease has lapsed the platform is given an error although
\* the row is stored.
CompleteStore(r) ==
  LET e == proc[r].event IN
  /\ proc[r].at = "stored"
  /\ stored' = [stored EXCEPT ![e] = Completed(@)]
  /\ acked' = IF Completes(stored[e]) THEN acked \union {e} ELSE acked
  /\ proc' = [proc EXCEPT ![r] = Idle]
  /\ UNCHANGED <<content, event, handled, imported, order, written, faults>>

-------------------------------------------------------------------------------
(* The import: importSyncedOrderWithIdempotency *)

\* The platform's word p is older than, or the same as, what q says, or takes
\* the order back: isStalePlatformUpdate. (A transition that
\* ValidateOrderStateTransition refuses is always stale, too.)
Older(p, q) ==
  \/ Rank[p] < Rank[q]
  \/ /\ Rank[p] = Rank[q]
     /\ Lifecycle[p] # 0 /\ Lifecycle[q] # 0
     /\ Lifecycle[p] < Lifecycle[q]

Stale(p, q) == q # Nothing /\ (Revision[p] <= Revision[q] \/ Older(p, q))

\* How the importer's caller takes its answer: a poller counts it, a worker
\* goes on to mark its event.
Succeed(i) ==
  proc' = [proc EXCEPT ![i] = IF i \in Pollers THEN Idle
                              ELSE [@ EXCEPT !.at = "mark", !.saw = Nothing]]

\* Mutant: a worker logs the error and goes on.
ErrLogged(i) == Succeed(i)

Err(i) ==
  proc' = [proc EXCEPT ![i] = IF i \in Pollers THEN Idle
                              ELSE [@ EXCEPT !.at = "mark_failed", !.saw = Nothing]]

\* A poller comes to the order on its page.
PollOrder(i, p) ==
  /\ proc[i].at = "idle"
  /\ proc' = [proc EXCEPT ![i] = [Idle EXCEPT !.at = "import", !.payload = p]]
  /\ UNCHANGED <<content, event, keys, order, written, acked, faults>>

\* Acquire of the revision's key. A revision that is imported is replayed, one
\* whose key was made for another digest is refused. A payload of the same
\* digest is not told from the one the key was made for.
AcquireImport(i) ==
  LET p == proc[i].payload
      v == Revision[p]
      d == Digest[p] IN
  /\ proc[i].at = "import"
  /\ \/ Answer(imported[v], d) = "missing" /\ Goto(i, "create_import") /\ UNCHANGED imported
     \/ /\ Answer(imported[v], d) = "acquired"
        /\ imported' = [imported EXCEPT ![v] = Taken(@)]
        /\ Goto(i, "look")
     \/ Answer(imported[v], d) = "already_succeeded" /\ Succeed(i) /\ UNCHANGED imported
     \/ Answer(imported[v], d) = "key_conflict" /\ Err(i) /\ UNCHANGED imported
  /\ UNCHANGED <<content, event, stored, handled, order, written, acked, faults>>

CreateImport(i) ==
  LET p == proc[i].payload
      v == Revision[p] IN
  /\ proc[i].at = "create_import"
  /\ IF imported[v].status = "absent"
     THEN /\ imported' = [imported EXCEPT ![v] = Key("held", Digest[p])]
          /\ Goto(i, "look")
     ELSE Err(i) /\ UNCHANGED imported
  /\ UNCHANGED <<content, event, stored, handled, order, written, acked, faults>>

\* findExistingSyncedOrder, a statement of its own, and what follows from it.
Look(i) ==
  /\ proc[i].at = "look"
  /\ proc' = [proc EXCEPT ![i] =
                [@ EXCEPT !.saw = order,
                          !.at = IF Stale(proc[i].payload, order) THEN "complete" ELSE "write"]]
  /\ UNCHANGED <<content, event, keys, order, written, acked, faults>>

\* upsertSingleSyncedOrder: reads the row again and writes it over, or creates
\* it, without another look at the revision.
Write(i) ==
  LET p == proc[i].payload IN
  /\ proc[i].at = "write"
  /\ order' = p
  /\ written' = written \union {p}
  /\ Goto(i, "complete")
  /\ UNCHANGED <<content, event, keys, acked, faults>>

\* The transaction fails: of itself, or because it found no order and another
\* created one before it did. Fail, and the error to the caller.
WriteFails(i) ==
  LET v == Revision[proc[i].payload] IN
  /\ proc[i].at = "write"
  /\ \/ proc[i].saw = Nothing /\ order # Nothing /\ UNCHANGED faults
     \/ Fault
  /\ imported' = [imported EXCEPT ![v] = FailedKey(@)]
  /\ Err(i)
  /\ UNCHANGED <<content, event, stored, handled, order, written, acked>>

\* Complete; a lease that was lost is an error, whatever was written.
CompleteImport(i) ==
  LET v == Revision[proc[i].payload] IN
  /\ proc[i].at = "complete"
  /\ imported' = [imported EXCEPT ![v] = Completed(@)]
  /\ IF Completes(imported[v]) THEN Succeed(i) ELSE Err(i)
  /\ UNCHANGED <<content, event, stored, handled, order, written, acked, faults>>

-------------------------------------------------------------------------------
(* A worker handles events: ProcessQueuedEvents, processEventRow *)

\* The rest of the batch, after event e
NextOfBatch(w) ==
  proc' = [proc EXCEPT ![w] =
    IF proc[w].batch = {} THEN Idle ELSE [Idle EXCEPT !.at = "next", !.batch = proc[w].batch]]

Pollable == {e \in Events : event[e] = "queued"}

\* A tick of the worker: the rows that are queued.
Poll(w) ==
  /\ proc[w].at = "idle"
  /\ Pollable # {}
  /\ proc' = [proc EXCEPT ![w] = [Idle EXCEPT !.at = "next", !.batch = Pollable]]
  /\ UNCHANGED <<content, event, keys, order, written, acked, faults>>

\* ProcessEventByRowID loads the row again; a processed one is passed over.
Load(w, e) ==
  /\ proc[w].at = "next"
  /\ e \in proc[w].batch
  /\ LET rest == proc[w].batch \ {e} IN
     IF event[e] = "processed"
     THEN proc' = [proc EXCEPT ![w] = IF rest = {} THEN Idle ELSE [@ EXCEPT !.batch = rest]]
     ELSE proc' = [proc EXCEPT ![w] = [@ EXCEPT !.at = "handle", !.event = e, !.batch = rest]]
  /\ UNCHANGED <<content, event, keys, order, written, acked, faults>>

AcquireHandle(w) ==
  LET e == proc[w].event IN
  /\ proc[w].at = "handle"
  /\ \/ Answer(handled[e], content[e]) = "missing" /\ Goto(w, "create_handle") /\ UNCHANGED handled
     \/ /\ Answer(handled[e], content[e]) = "acquired"
        /\ handled' = [handled EXCEPT ![e] = Taken(@)]
        /\ Goto(w, "claim")
     \/ Answer(handled[e], content[e]) = "already_succeeded" /\ NextOfBatch(w) /\ UNCHANGED handled
  /\ UNCHANGED <<content, event, stored, imported, order, written, acked, faults>>

CreateHandle(w) ==
  LET e == proc[w].event IN
  /\ proc[w].at = "create_handle"
  /\ IF handled[e].status = "absent"
     THEN /\ handled' = [handled EXCEPT ![e] = Key("held", content[e])]
          /\ Goto(w, "claim")
     ELSE NextOfBatch(w) /\ UNCHANGED handled
  /\ UNCHANGED <<content, event, stored, imported, order, written, acked, faults>>

\* Mutant: what a dead worker left may be claimed again.
ClaimableAgain == {"queued", "failed_retryable", "processing"}

Claimable == {"queued", "failed_retryable"}

\* The claim; then handlePlatformEvent, which for an event without an order in
\* it has nothing to do.
Claim(w) ==
  LET e == proc[w].event IN
  /\ proc[w].at = "claim"
  /\ event[e] \in Claimable
  /\ event' = [event EXCEPT ![e] = "processing"]
  /\ proc' = [proc EXCEPT ![w] =
                [@ EXCEPT !.payload = content[e],
                          !.at = IF content[e] = Nothing THEN "mark" ELSE "import"]]
  /\ UNCHANGED <<content, keys, order, written, acked, faults>>

\* The claim takes no row: the key is completed as WEBHOOK_ALREADY_CLAIMED.
ClaimNothing(w) ==
  LET e == proc[w].event IN
  /\ proc[w].at = "claim"
  /\ event[e] \notin Claimable
  /\ handled' = [handled EXCEPT ![e] = Completed(@)]
  /\ NextOfBatch(w)
  /\ UNCHANGED <<content, event, stored, imported, order, written, acked, faults>>

\* The event cannot be mapped or its shop not be found.
HandlerFails(w) ==
  /\ proc[w].at = "import"
  /\ w \in Workers
  /\ Fault
  /\ Err(w)
  /\ UNCHANGED <<content, event, keys, order, written, acked>>

\* A claim, or the mark of what is done, fails: failProcess.
MarkFails(w) ==
  /\ proc[w].at \in {"claim", "mark"}
  /\ Fault
  /\ handled' = [handled EXCEPT ![proc[w].event] = FailedKey(@)]
  /\ NextOfBatch(w)
  /\ UNCHANGED <<content, event, stored, imported, order, written, acked>>

MarkProcessed(w) ==
  /\ proc[w].at = "mark"
  /\ event' = [event EXCEPT ![proc[w].event] = "processed"]
  /\ Goto(w, "handled")
  /\ UNCHANGED <<content, keys, order, written, acked, faults>>

CompleteHandle(w) ==
  /\ proc[w].at = "handled"
  /\ handled' = [handled EXCEPT ![proc[w].event] = Completed(@)]
  /\ NextOfBatch(w)
  /\ UNCHANGED <<content, event, stored, imported, order, written, acked, faults>>

\* Mutant: a failure is marked as final.
MarkFailedForGood(w) ==
  /\ proc[w].at = "mark_failed"
  /\ event' = [event EXCEPT ![proc[w].event] = "failed"]
  /\ Goto(w, "fail")
  /\ UNCHANGED <<content, keys, order, written, acked, faults>>

MarkFailed(w) ==
  /\ proc[w].at = "mark_failed"
  /\ event' = [event EXCEPT ![proc[w].event] = "failed_retryable"]
  /\ Goto(w, "fail")
  /\ UNCHANGED <<content, keys, order, written, acked, faults>>

FailHandle(w) ==
  /\ proc[w].at = "fail"
  /\ handled' = [handled EXCEPT ![proc[w].event] = FailedKey(@)]
  /\ NextOfBatch(w)
  /\ UNCHANGED <<content, event, stored, imported, order, written, acked, faults>>

-------------------------------------------------------------------------------
(* What goes wrong by itself *)

\* A process dies, and its instance starts again.
Crash(x) ==
  /\ proc[x].at # "idle"
  /\ Fault
  /\ proc' = [proc EXCEPT ![x] = Idle]
  /\ UNCHANGED <<content, event, keys, order, written, acked>>

Lapsed(k) == [k EXCEPT !.status = "lapsed"]

\* The two minutes of a lease pass while its operation goes on.
LeaseLapses ==
  /\ Fault
  /\ \/ /\ \E e \in Events : stored[e].status = "held" /\ stored' = [stored EXCEPT ![e] = Lapsed(@)]
        /\ UNCHANGED <<handled, imported>>
     \/ /\ \E e \in Events : handled[e].status = "held" /\ handled' = [handled EXCEPT ![e] = Lapsed(@)]
        /\ UNCHANGED <<stored, imported>>
     \/ /\ \E v \in Revisions : imported[v].status = "held" /\ imported' = [imported EXCEPT ![v] = Lapsed(@)]
        /\ UNCHANGED <<stored, handled>>
  /\ UNCHANGED <<content, event, order, written, acked, proc>>

Import(i) ==
  \/ AcquireImport(i) \/ CreateImport(i) \/ Look(i)
  \/ Write(i) \/ WriteFails(i) \/ CompleteImport(i)

WorkerStep(w) ==
  \/ Poll(w)
  \/ \E e \in Events : Load(w, e)
  \/ AcquireHandle(w) \/ CreateHandle(w) \/ Claim(w) \/ ClaimNothing(w)
  \/ Import(w)
  \/ MarkProcessed(w) \/ CompleteHandle(w) \/ MarkFailed(w) \/ FailHandle(w)

Next ==
  \/ \E r \in Requests :
       \/ \E e \in Events : Receive(r, e) \/ ReceiveAgain(r, e)
       \/ AcquireStore(r) \/ CreateStore(r) \/ Insert(r) \/ InsertFails(r) \/ CompleteStore(r)
  \/ \E w \in Workers : WorkerStep(w) \/ HandlerFails(w) \/ MarkFails(w)
  \/ \E i \in Pollers : Import(i) \/ \E p \in Polled : PollOrder(i, p)
  \/ \E x \in Processes : Crash(x)
  \/ LeaseLapses

Spec == Init /\ [][Next]_vars

\* The worker's loop runs as long as its instance does.
Fairness == \A w \in Workers : WF_vars(WorkerStep(w))

FairSpec == Spec /\ Fairness

-------------------------------------------------------------------------------
\* Types, and the bound on faults
TypeOK ==
  /\ content \in Contents
  /\ event \in [Events -> EventStatuses]
  /\ stored \in [Events -> KeysOver(Payloads \union {Nothing})]
  /\ handled \in [Events -> KeysOver(Payloads \union {Nothing})]
  /\ imported \in [Revisions -> KeysOver(Digests)]
  /\ order \in Payloads \union {Nothing}
  /\ written \subseteq Payloads
  /\ acked \subseteq Events
  /\ proc \in [Processes -> Processing]
  /\ faults \in 0 .. MaxFaults

\* Payload p is in the order, or came too late for it: written, or stale
\* against one that was.
Reflected(p) == \E q \in written : p = q \/ Stale(p, q)

\* An event that counts as processed has had its effect: the order was written
\* from what it carries, or from something that makes that stale. It holds
\* through three keys and four statements of their own, over which workers die
\* and leases lapse.
ProcessedIsReflected ==
  \A e \in Events :
    event[e] = "processed" /\ content[e] # Nothing => Reflected(content[e])

\* A revision of the order means one digest: of two payloads that claim the
\* same revision and differ in a status, the amount or a time, say a page's and
\* an event's of the same second, only one is ever written, however the
\* importers interleave.
RevisionHasOneDigest ==
  \A p, q \in written : Revision[p] = Revision[q] => Digest[p] = Digest[q]

\* Refuted: only one payload of a revision is ever written. Importers of two
\* that differ in what the digest leaves out hold the key together.
RevisionHasOneContent ==
  \A p, q \in written : Revision[p] = Revision[q] => p = q

\* Worker w is past the claim of event e, and has not marked it yet.
Handles(w, e) ==
  /\ proc[w].event = e
  /\ proc[w].at \in {"import", "create_import", "look", "write", "complete",
                     "mark", "mark_failed"}

\* No two workers are at one event, although their batches overlap, Acquire
\* lets both have its key, and a failed event may be claimed again.
HandledByOne ==
  \A e \in Events : \A w, x \in Workers : Handles(w, e) /\ Handles(x, e) => w = x

\* What the platform was told is received is stored, and a worker takes it.
AckedIsTaken ==
  \A e \in Events : e \in acked ~> event[e] \notin {"absent", "queued"}

\* Refuted: the order never goes back to an older revision. The revision is
\* compared in a statement before the one that writes.
NeverBack == [][order # Nothing => Revision[order'] >= Revision[order]]_vars

\* Refuted: an event that failed is taken up again. The poll asks for queued
\* events only.
FailedIsRetried ==
  \A e \in Events : event[e] = "failed_retryable" ~> event[e] # "failed_retryable"

-------------------------------------------------------------------------------
(* The keys *)

Carried == Payloads \union {Nothing}

KeyMayMove(k, l, H) == l = k \/ KeyMoves(k, l, H)

KeysMove ==
  /\ \A e \in Events : KeyMayMove(stored[e], stored'[e], Carried)
  /\ \A e \in Events : KeyMayMove(handled[e], handled'[e], Carried)
  /\ \A v \in Revisions : KeyMayMove(imported[v], imported'[v], Digests)

\* Whatever the processes do, a step does to each key what the idempotency
\* service does to a record (module KeyProtocol, which Idempotency implements
\* for callers of one owner), or leaves it alone: no key is made twice, taken
\* over for another digest, completed without a live lease or reopened once it
\* succeeded (acquireIngest, acquireProcess, importSyncedOrderWithIdempotency).
KeysFollowTheProtocol == [][KeysMove]_vars
===============================================================================
