---------------------------- MODULE OrderSyncProofs ----------------------------
(***************************************************************************)
(* Proofs about OrderSync, for every value of its constants: any number of *)
(* workers, reapers, administrators, pages and runs.                       *)
(***************************************************************************)
EXTENDS OrderSync, TLAPS

-------------------------------------------------------------------------------
(* Paging *)

\* A run from the start asks for every page of the listing, whichever pages fail,
\* or leaves it out for its limits.
LEMMA ReachedOrLeftOut ==
  ASSUME NEW F
  PROVE  Listing \subseteq Reached(F) \union LeftOut(F)
<1> SUFFICES ASSUME NEW p \in Listing, p \notin LeftOut(F)
             PROVE  p \in Reached(F)
  OBVIOUS
<1>1. Total \in Nat /\ MaxPages \in Nat \ {0}
  BY LimitsAssumption
<1>2. p \in Nat /\ p < Total /\ ~(p >= MaxPages) /\ ~Full(p, F)
  BY <1>1 DEF LeftOut, Listing
<1>3. p \in 0 .. MaxPages - 1
  BY <1>1, <1>2
<1>4. \A m \in 0 .. p - 1 : m + 1 < Total
  BY <1>1, <1>2
<1> QED BY <1>2, <1>3, <1>4 DEF Reached

\* The pages of a run are numbers.
LEMMA PagesAreNumbers ==
  /\ Listing \subseteq Nat
  /\ \A F : Reached(F) \subseteq Nat /\ LeftOut(F) \subseteq Nat
BY LimitsAssumption DEF Listing, Reached, LeftOut

-------------------------------------------------------------------------------
(* Types *)

\* Every operation keeps the types.
LEMMA TypesKept == TypeOK /\ [Next]_vars => TypeOK'
<1> SUFFICES ASSUME TypeOK, [Next]_vars
             PROVE  TypeOK'
  OBVIOUS
<1>1. ASSUME NEW w \in Workers, Claim(w) PROVE TypeOK'
  <2>1. row \in Rows /\ row.version + 1 \in Nat
    BY DEF TypeOK, Rows
  <2>2. [Idle EXCEPT !.at = "claimed", !.version = row.version + 1] \in WorkerStates
    BY <2>1 DEF Idle, WorkerStates, Stages
  <2>3. row' \in Rows
    BY <1>1, <2>1 DEF Claim, Rows, Statuses
  <2> QED BY <1>1, <2>2, <2>3 DEF Claim, TypeOK
<1>2. ASSUME NEW w \in Workers, Load(w) PROVE TypeOK'
  <2>1. [worker[w] EXCEPT !.at = "loaded", !.pages = row.pages, !.errors = row.errors]
          \in WorkerStates
    BY DEF TypeOK, Rows, WorkerStates, Stages
  <2> QED BY <1>2, <2>1 DEF Load, TypeOK
<1>3. Idle \in WorkerStates
  BY DEF Idle, WorkerStates, Stages
<1>4. ASSUME NEW w \in Workers, Block(w) PROVE TypeOK'
  BY <1>3, <1>4 DEF Block, TypeOK, Rows, Statuses
<1>5. ASSUME NEW w \in Workers, FetchNothing(w) PROVE TypeOK'
  <2>1. [worker[w] EXCEPT !.at = "done", !.ends = "failed"] \in WorkerStates
    BY DEF TypeOK, WorkerStates, Stages
  <2> QED BY <1>5, <2>1 DEF FetchNothing, TypeOK
<1>6. ASSUME NEW w \in Workers, FetchListing(w) PROVE TypeOK'
  <2>1. PICK F \in SUBSET (1 .. MaxPages - 1) :
          /\ F \subseteq Reached(F)
          /\ worker' = [worker EXCEPT ![w] =
                          [@ EXCEPT !.at = "fetched", !.ok = Reached(F) \ F, !.bad = F,
                                    !.out = LeftOut(F), !.more = HasMore(F)]]
    BY <1>6 DEF FetchListing
  <2>2. HasMore(F) \in BOOLEAN
    BY DEF HasMore
  <2>3. Reached(F) \ F \subseteq Nat /\ F \subseteq Nat /\ LeftOut(F) \subseteq Nat
    BY <2>1, PagesAreNumbers
  <2>4. [worker[w] EXCEPT !.at = "fetched", !.ok = Reached(F) \ F, !.bad = F,
                          !.out = LeftOut(F), !.more = HasMore(F)] \in WorkerStates
    BY <2>2, <2>3 DEF TypeOK, WorkerStates, Stages
  <2> QED BY <1>6, <2>1, <2>4 DEF FetchListing, TypeOK
<1>7. ASSUME NEW w \in Workers, FetchPages(w) PROVE TypeOK'
  <2>1. PICK tried \in SUBSET worker[w].pages : \E F \in SUBSET tried :
          worker' = [worker EXCEPT ![w] =
                       [@ EXCEPT !.at = "fetched", !.ok = tried \ F, !.bad = F,
                                 !.out = worker[w].pages \ tried, !.more = FALSE]]
    BY <1>7 DEF FetchPages
  <2>2. PICK F \in SUBSET tried :
          worker' = [worker EXCEPT ![w] =
                       [@ EXCEPT !.at = "fetched", !.ok = tried \ F, !.bad = F,
                                 !.out = worker[w].pages \ tried, !.more = FALSE]]
    BY <2>1
  <2>3. worker[w].pages \subseteq Nat
    BY DEF TypeOK, WorkerStates
  <2>4. [worker[w] EXCEPT !.at = "fetched", !.ok = tried \ F, !.bad = F,
                          !.out = worker[w].pages \ tried, !.more = FALSE] \in WorkerStates
    BY <2>3 DEF TypeOK, WorkerStates, Stages
  <2> QED BY <1>7, <2>2, <2>4 DEF FetchPages, TypeOK
<1>8. ASSUME NEW w \in Workers, Import(w) PROVE TypeOK'
  <2>1. PICK lost \in SUBSET (worker[w].ok \intersect Listing) :
          /\ imported' = imported \union (worker[w].ok \ lost)
          /\ worker' = [worker EXCEPT ![w] =
                          [@ EXCEPT !.at = "done",
                                    !.ends = FinalStatus(worker[w].bad, lost, worker[w].more)]]
    BY <1>8 DEF Import
  <2>2. [worker[w] EXCEPT !.at = "done",
                          !.ends = FinalStatus(worker[w].bad, lost, worker[w].more)]
          \in WorkerStates
    BY DEF TypeOK, WorkerStates, Stages, FinalStatus
  <2>3. worker[w].ok \subseteq Nat
    BY DEF TypeOK, WorkerStates
  <2> QED BY <1>8, <2>1, <2>2, <2>3 DEF Import, TypeOK
<1>9. ASSUME NEW w \in Workers, Finish(w) PROVE TypeOK'
  <2>1. /\ worker[w].bad \subseteq Nat /\ worker[w].out \subseteq Nat
        /\ worker[w].errors \subseteq Nat /\ row.errors \subseteq Nat
        /\ worker[w].ends \in Statuses
    BY DEF TypeOK, WorkerStates, Rows, Statuses
  <2>2. Merged(w) \subseteq Nat
    BY <2>1 DEF Merged
  <2> QED BY <1>3, <1>9, <2>1, <2>2 DEF Finish, TypeOK, Rows
<1>10. ASSUME NEW w \in Workers, Panic(w) PROVE TypeOK'
  <2>1. [worker[w] EXCEPT !.at = "panicking"] \in WorkerStates
    BY DEF TypeOK, WorkerStates, Stages
  <2> QED BY <1>3, <1>10, <2>1 DEF Panic, TypeOK
<1>11. ASSUME NEW w \in Workers, PanicWrite(w) PROVE TypeOK'
  BY <1>3, <1>11 DEF PanicWrite, FailRow, TypeOK, Rows, Statuses
<1>12. ASSUME NEW w \in Workers, Die(w) PROVE TypeOK'
  BY <1>3, <1>12 DEF Die, TypeOK
<1>13. ASSUME NEW r \in Reapers, Reap(r) \/ ReapWrite(r) PROVE TypeOK'
  BY <1>13 DEF Reap, ReapWrite, FailRow, TypeOK, Rows, Statuses
<1>14. ASSUME NEW a \in Admins, Retry(a) PROVE TypeOK'
  BY <1>14 DEF Retry, TypeOK, Rows, AdminStates
<1>15. ASSUME NEW a \in Admins, Reset(a) PROVE TypeOK'
  <2>1. admin[a].pages \subseteq Nat
    BY DEF TypeOK, AdminStates
  <2> QED BY <1>15, <2>1 DEF Reset, NoRequest, TypeOK, Rows, Statuses, AdminStates
<1>16. CASE UNCHANGED vars
  BY <1>16 DEF vars, TypeOK
<1> QED BY <1>1, <1>2, <1>4, <1>5, <1>6, <1>7, <1>8, <1>9, <1>10, <1>11, <1>12, <1>13,
           <1>14, <1>15, <1>16 DEF Next, WorkerStep

-------------------------------------------------------------------------------
(* Nothing is forgotten *)

\* What became of a page is known.
Known == fetched \union left

\* Nothing is missing from the listing but the pages E.
Covers(known, E) == Listing \subseteq known \union E

\* Of what the row says, and of the pages it asks for or says it lacks, if it
\* names any: they are all that is missing.
RowCovers ==
  /\ row.pages # {} => Covers(Known, row.pages)
  /\ row.errors # {} => Covers(Known, row.errors)
  /\ row.status = "success" => Covers(Known, {})

\* So are the pages an administrator is about to ask for ...
AdminCovers == \A a \in Admins : admin[a].pages # {} => Covers(Known, admin[a].pages)

\* ... and those a worker is asked for. What a run fetched, could not fetch and
\* left out makes up what was missing, and once the orders are imported the last
\* two do.
WorkerCovers == \A w \in Workers :
  /\ worker[w].pages # {} => Covers(Known, worker[w].pages)
  /\ worker[w].at = "fetched" => Covers(Known, worker[w].ok \union worker[w].bad \union worker[w].out)
  /\ worker[w].at = "done" /\ worker[w].ends # "failed"
       => Covers(Known, worker[w].bad \union worker[w].out)
  /\ worker[w].at = "done" /\ worker[w].ends = "success" => worker[w].bad = {}

IInv == TypeOK /\ RowCovers /\ AdminCovers /\ WorkerCovers

\* Pages that were fetched and left out were never taken back.
LEMMA Monotone == [Next]_vars => fetched \subseteq fetched' /\ left \subseteq left'
BY DEF Next, WorkerStep, Claim, Load, Block, FetchNothing, FetchListing, FetchPages, Import,
       Finish, Panic, PanicWrite, Die, Reap, ReapWrite, Retry, Reset, vars

LEMMA IInvInit == Init => IInv
<1> SUFFICES ASSUME Init
             PROVE  IInv
  OBVIOUS
<1>1. TypeOK
  BY DEF Init, TypeOK, Rows, Statuses, WorkerStates, Stages, Idle, AdminStates, NoRequest
<1>2. RowCovers /\ AdminCovers /\ WorkerCovers
  BY DEF Init, RowCovers, AdminCovers, WorkerCovers, Idle, NoRequest
<1> QED BY <1>1, <1>2 DEF IInv

\* Every operation keeps the invariant.
LEMMA IInvNext == IInv /\ [Next]_vars => IInv'
<1> SUFFICES ASSUME IInv, [Next]_vars
             PROVE  IInv'
  OBVIOUS
<1> USE DEF IInv
<1>1. TypeOK'
  BY TypesKept
<1>2. fetched \subseteq fetched' /\ left \subseteq left'
  BY Monotone
<1>3. \A E : Covers(Known, E) => Covers(Known', E)
  BY <1>2 DEF Covers, Known
<1>4. ASSUME UNCHANGED <<row, admin>> PROVE RowCovers' /\ AdminCovers'
  BY <1>3, <1>4 DEF RowCovers, AdminCovers
<1>5. ASSUME UNCHANGED worker PROVE WorkerCovers'
  BY <1>3, <1>5 DEF WorkerCovers
<1>6. ASSUME UNCHANGED admin PROVE AdminCovers'
  BY <1>3, <1>6 DEF AdminCovers
\* One worker moves, and what it holds after is right.
<1>7. ASSUME NEW w \in Workers, NEW held \in WorkerStates,
             worker' = [worker EXCEPT ![w] = held],
             held.pages # {} => Covers(Known', held.pages),
             held.at = "fetched" => Covers(Known', held.ok \union held.bad \union held.out),
             held.at = "done" /\ held.ends # "failed" => Covers(Known', held.bad \union held.out),
             held.at = "done" /\ held.ends = "success" => held.bad = {}
      PROVE  WorkerCovers'
  <2> SUFFICES ASSUME NEW v \in Workers
               PROVE
                 /\ worker'[v].pages # {} => Covers(Known', worker'[v].pages)
                 /\ worker'[v].at = "fetched"
                      => Covers(Known', worker'[v].ok \union worker'[v].bad \union worker'[v].out)
                 /\ worker'[v].at = "done" /\ worker'[v].ends # "failed"
                      => Covers(Known', worker'[v].bad \union worker'[v].out)
                 /\ worker'[v].at = "done" /\ worker'[v].ends = "success"
                      => worker'[v].bad = {}
    BY DEF WorkerCovers
  <2>1. worker'[w] = held
    BY <1>7 DEF TypeOK
  <2>2. CASE v = w
    BY <1>7, <2>1, <2>2
  <2>3. CASE v # w
    <3>1. worker'[v] = worker[v]
      BY <1>7, <2>3 DEF TypeOK
    <3> QED BY <1>3, <3>1 DEF WorkerCovers
  <2> QED BY <2>2, <2>3
<1>8. ASSUME NEW w \in Workers, worker' = [worker EXCEPT ![w] = Idle]
      PROVE  WorkerCovers'
  <2>1. Idle \in WorkerStates
    BY DEF Idle, WorkerStates, Stages
  <2>2. Idle.pages = {} /\ Idle.at = "idle"
    BY DEF Idle
  <2> QED BY <1>7, <1>8, <2>1, <2>2
<1>9. ASSUME FailRow PROVE RowCovers'
  BY <1>3, <1>9 DEF FailRow, RowCovers, TypeOK, Rows
<1>10. ASSUME NEW w \in Workers, Claim(w) PROVE IInv'
  <2> DEFINE held == [Idle EXCEPT !.at = "claimed", !.version = row.version + 1]
  <2>1. row.version + 1 \in Nat
    BY DEF TypeOK, Rows
  <2>2. held \in WorkerStates /\ held.pages = {} /\ held.at = "claimed"
    BY <2>1 DEF Idle, WorkerStates, Stages
  <2>3. WorkerCovers'
    <3>1. worker' = [worker EXCEPT ![w] = held]
      BY <1>10 DEF Claim
    <3> HIDE DEF held
    <3> QED BY <1>7, <2>2, <3>1
  <2>4. RowCovers'
    BY <1>3, <1>10 DEF Claim, RowCovers, TypeOK, Rows
  <2>5. AdminCovers'
    BY <1>6, <1>10 DEF Claim
  <2> QED BY <1>1, <2>3, <2>4, <2>5
<1>11. ASSUME NEW w \in Workers, Load(w) PROVE IInv'
  <2> DEFINE held == [worker[w] EXCEPT !.at = "loaded", !.pages = row.pages, !.errors = row.errors]
  <2>1. /\ held \in WorkerStates /\ held.at = "loaded" /\ held.pages = row.pages
    BY DEF TypeOK, Rows, WorkerStates, Stages
  <2>2. held.pages # {} => Covers(Known', held.pages)
    BY <1>3, <2>1 DEF RowCovers
  <2>3. WorkerCovers'
    <3>1. worker' = [worker EXCEPT ![w] = held]
      BY <1>11 DEF Load
    <3> HIDE DEF held
    <3> QED BY <1>7, <2>1, <2>2, <3>1
  <2> QED BY <1>1, <1>4, <1>11, <2>3 DEF Load
<1>12. ASSUME NEW w \in Workers, Block(w) PROVE IInv'
  <2>1. RowCovers'
    BY <1>3, <1>12 DEF Block, RowCovers, TypeOK, Rows
  <2> QED BY <1>1, <1>6, <1>8, <1>12, <2>1 DEF Block
<1>13. ASSUME NEW w \in Workers, FetchNothing(w) PROVE IInv'
  <2> DEFINE held == [worker[w] EXCEPT !.at = "done", !.ends = "failed"]
  <2>1. /\ held \in WorkerStates /\ held.at = "done" /\ held.ends = "failed"
        /\ held.pages = worker[w].pages
    BY DEF TypeOK, WorkerStates, Stages
  <2>2. held.pages # {} => Covers(Known', held.pages)
    BY <1>3, <2>1 DEF WorkerCovers
  <2>3. WorkerCovers'
    <3>1. worker' = [worker EXCEPT ![w] = held]
      BY <1>13 DEF FetchNothing
    <3> HIDE DEF held
    <3> QED BY <1>7, <2>1, <2>2, <3>1
  <2> QED BY <1>1, <1>4, <1>13, <2>3 DEF FetchNothing
<1>14. ASSUME NEW w \in Workers, FetchListing(w) PROVE IInv'
  <2>1. PICK F \in SUBSET (1 .. MaxPages - 1) :
          /\ F \subseteq Reached(F)
          /\ worker' = [worker EXCEPT ![w] =
                          [@ EXCEPT !.at = "fetched", !.ok = Reached(F) \ F, !.bad = F,
                                    !.out = LeftOut(F), !.more = HasMore(F)]]
    BY <1>14 DEF FetchListing
  <2> DEFINE held == [worker[w] EXCEPT !.at = "fetched", !.ok = Reached(F) \ F, !.bad = F,
                                       !.out = LeftOut(F), !.more = HasMore(F)]
  <2>2. HasMore(F) \in BOOLEAN
    BY DEF HasMore
  <2>3. Reached(F) \ F \subseteq Nat /\ F \subseteq Nat /\ LeftOut(F) \subseteq Nat
    BY <2>1, PagesAreNumbers
  <2>4. /\ held \in WorkerStates /\ held.at = "fetched" /\ held.pages = {}
        /\ held.ok = Reached(F) \ F /\ held.bad = F /\ held.out = LeftOut(F)
    BY <1>14, <2>2, <2>3 DEF FetchListing, TypeOK, WorkerStates, Stages
  <2>5. Covers(Known', held.ok \union held.bad \union held.out)
    BY <2>4, ReachedOrLeftOut DEF Covers
  <2>6. WorkerCovers'
    <3>1. worker' = [worker EXCEPT ![w] = held]
      BY <2>1
    <3> HIDE DEF held
    <3> QED BY <1>7, <2>4, <2>5, <3>1
  <2> QED BY <1>1, <1>4, <1>14, <2>6 DEF FetchListing
<1>15. ASSUME NEW w \in Workers, FetchPages(w) PROVE IInv'
  <2>1. PICK tried \in SUBSET worker[w].pages : \E F \in SUBSET tried :
          worker' = [worker EXCEPT ![w] =
                       [@ EXCEPT !.at = "fetched", !.ok = tried \ F, !.bad = F,
                                 !.out = worker[w].pages \ tried, !.more = FALSE]]
    BY <1>15 DEF FetchPages
  <2>2. PICK F \in SUBSET tried :
          worker' = [worker EXCEPT ![w] =
                       [@ EXCEPT !.at = "fetched", !.ok = tried \ F, !.bad = F,
                                 !.out = worker[w].pages \ tried, !.more = FALSE]]
    BY <2>1
  <2> DEFINE held == [worker[w] EXCEPT !.at = "fetched", !.ok = tried \ F, !.bad = F,
                                       !.out = worker[w].pages \ tried, !.more = FALSE]
  <2>3. worker[w].pages \subseteq Nat /\ worker[w].pages # {}
    BY <1>15 DEF FetchPages, TypeOK, WorkerStates
  <2>4. /\ held \in WorkerStates /\ held.at = "fetched" /\ held.pages = worker[w].pages
        /\ held.ok = tried \ F /\ held.bad = F /\ held.out = worker[w].pages \ tried
    BY <2>3 DEF TypeOK, WorkerStates, Stages
  <2>5. held.ok \union held.bad \union held.out = worker[w].pages
    BY <2>4
  <2>6. Covers(Known', worker[w].pages)
    BY <1>3, <2>3 DEF WorkerCovers
  <2>7. WorkerCovers'
    <3>1. worker' = [worker EXCEPT ![w] = held]
      BY <2>2
    <3> HIDE DEF held
    <3> QED BY <1>7, <2>4, <2>5, <2>6, <3>1
  <2> QED BY <1>1, <1>4, <1>15, <2>7 DEF FetchPages
<1>16. ASSUME NEW w \in Workers, Import(w) PROVE IInv'
  <2>1. PICK lost \in SUBSET (worker[w].ok \intersect Listing) :
          worker' = [worker EXCEPT ![w] =
                       [@ EXCEPT !.at = "done",
                                 !.ends = FinalStatus(worker[w].bad, lost, worker[w].more)]]
    BY <1>16 DEF Import
  <2> DEFINE held == [worker[w] EXCEPT !.at = "done",
                        !.ends = FinalStatus(worker[w].bad, lost, worker[w].more)]
  <2>2. /\ held \in WorkerStates /\ held.at = "done" /\ held.pages = worker[w].pages
        /\ held.bad = worker[w].bad /\ held.out = worker[w].out
        /\ held.ends = "success" => held.bad = {}
    BY DEF TypeOK, WorkerStates, Stages, FinalStatus
  <2>3. held.pages # {} => Covers(Known', held.pages)
    BY <1>3, <2>2 DEF WorkerCovers
  <2>4. Covers(Known', held.bad \union held.out)
    <3>1. Covers(Known, worker[w].ok \union worker[w].bad \union worker[w].out)
      BY <1>16 DEF Import, WorkerCovers
    <3>2. worker[w].ok \subseteq fetched'
      BY <1>16 DEF Import
    <3> QED BY <1>2, <2>2, <3>1, <3>2 DEF Covers, Known
  <2>5. WorkerCovers'
    <3>1. worker' = [worker EXCEPT ![w] = held]
      BY <2>1
    <3> HIDE DEF held
    <3> QED BY <1>7, <2>2, <2>3, <2>4, <3>1
  <2> QED BY <1>1, <1>4, <1>16, <2>5 DEF Import
<1>17. ASSUME NEW w \in Workers, Finish(w) PROVE IInv'
  <2>1. WorkerCovers'
    BY <1>8, <1>17 DEF Finish
  <2>2. RowCovers'
    <3>1. CASE ~Holds(w)
      BY <1>3, <1>17, <3>1 DEF Finish, RowCovers
    <3>2. CASE Holds(w)
      <4>1. /\ row'.status = worker[w].ends /\ row'.pages = row.pages
            /\ row'.errors = Merged(w)
        BY <1>17, <3>2 DEF Finish, TypeOK, Rows
      <4>2. CASE worker[w].ends = "failed"
        BY <1>3, <4>1, <4>2 DEF Merged, RowCovers
      <4>3. CASE worker[w].ends # "failed"
        <5>1. Covers(Known, worker[w].bad \union worker[w].out)
          BY <1>17, <4>3 DEF Finish, WorkerCovers
        <5>2. worker[w].out \subseteq left'
          BY <1>17, <3>2, <4>3 DEF Finish
        <5>3. Covers(Known', worker[w].bad)
          BY <1>2, <5>1, <5>2 DEF Covers, Known
        <5>4. worker[w].bad \subseteq Merged(w)
          BY <4>3 DEF Merged
        <5>5. Covers(Known', Merged(w))
          BY <5>3, <5>4 DEF Covers
        <5>6. worker[w].ends = "success" => worker[w].bad = {}
          BY <1>17 DEF Finish, WorkerCovers
        <5>7. worker[w].ends = "success" => Covers(Known', {})
          BY <5>3, <5>6
        <5> QED BY <1>3, <4>1, <5>5, <5>7 DEF RowCovers
      <4> QED BY <4>2, <4>3
    <3> QED BY <3>1, <3>2
  <2> QED BY <1>1, <1>6, <1>17, <2>1, <2>2 DEF Finish
<1>18. ASSUME NEW w \in Workers, Panic(w) PROVE IInv'
  <2> DEFINE held == [worker[w] EXCEPT !.at = "panicking"]
  <2>1. held \in WorkerStates /\ held.at = "panicking" /\ held.pages = worker[w].pages
    BY DEF TypeOK, WorkerStates, Stages
  <2>2. held.pages # {} => Covers(Known', held.pages)
    BY <1>3, <2>1 DEF WorkerCovers
  <2>3. CASE worker' = [worker EXCEPT ![w] = held]
    <3> HIDE DEF held
    <3>1. WorkerCovers'
      BY <1>7, <2>1, <2>2, <2>3
    <3> QED BY <1>1, <1>4, <1>18, <3>1 DEF Panic
  <2>4. CASE worker' = [worker EXCEPT ![w] = Idle]
    BY <1>1, <1>4, <1>8, <1>18, <2>4 DEF Panic
  <2> QED BY <1>18, <2>3, <2>4 DEF Panic
<1>19. ASSUME NEW w \in Workers, PanicWrite(w) PROVE IInv'
  BY <1>1, <1>6, <1>8, <1>9, <1>19 DEF PanicWrite
<1>20. ASSUME NEW w \in Workers, Die(w) PROVE IInv'
  BY <1>1, <1>4, <1>8, <1>20 DEF Die
<1>21. ASSUME NEW r \in Reapers, Reap(r) PROVE IInv'
  BY <1>1, <1>4, <1>5, <1>21 DEF Reap
<1>22. ASSUME NEW r \in Reapers, ReapWrite(r) PROVE IInv'
  BY <1>1, <1>5, <1>6, <1>9, <1>22 DEF ReapWrite
<1>23. ASSUME NEW a \in Admins, Retry(a) PROVE IInv'
  <2>1. AdminCovers'
    <3> SUFFICES ASSUME NEW b \in Admins, admin'[b].pages # {}
                 PROVE  Covers(Known', admin'[b].pages)
      BY DEF AdminCovers
    <3>1. CASE b = a
      BY <1>3, <1>23, <3>1 DEF Retry, TypeOK, RowCovers
    <3>2. CASE b # a
      BY <1>3, <1>23, <3>2 DEF Retry, TypeOK, AdminCovers
    <3> QED BY <3>1, <3>2
  <2>2. RowCovers'
    BY <1>3, <1>23 DEF Retry, RowCovers
  <2> QED BY <1>1, <1>5, <1>23, <2>1, <2>2 DEF Retry
<1>24. ASSUME NEW a \in Admins, Reset(a) PROVE IInv'
  <2>1. AdminCovers'
    <3> SUFFICES ASSUME NEW b \in Admins, admin'[b].pages # {}
                 PROVE  Covers(Known', admin'[b].pages)
      BY DEF AdminCovers
    <3>1. CASE b = a
      BY <1>24, <3>1 DEF Reset, TypeOK, NoRequest
    <3>2. CASE b # a
      BY <1>3, <1>24, <3>2 DEF Reset, TypeOK, AdminCovers
    <3> QED BY <3>1, <3>2
  <2>2. RowCovers'
    <3>1. /\ row'.status = "pending"
          /\ row'.pages = (IF admin[a].pages = {} THEN row.pages ELSE admin[a].pages)
          /\ row'.errors = (IF admin[a].pages = {} THEN {} ELSE row.errors)
      BY <1>24 DEF Reset, TypeOK, Rows
    <3>2. admin[a].pages # {} => Covers(Known', admin[a].pages)
      BY <1>3 DEF AdminCovers
    <3> QED BY <1>3, <3>1, <3>2 DEF RowCovers
  <2> QED BY <1>1, <1>5, <1>24, <2>1, <2>2 DEF Reset
<1>25. CASE UNCHANGED vars
  BY <1>1, <1>4, <1>5, <1>25 DEF vars
<1> QED BY <1>10, <1>11, <1>12, <1>13, <1>14, <1>15, <1>16, <1>17, <1>18, <1>19, <1>20,
           <1>21, <1>22, <1>23, <1>24, <1>25 DEF Next, WorkerStep

\* The invariant says what NoPageIsForgotten does.
LEMMA IInvImplies == IInv => NoPageIsForgotten
<1> SUFFICES ASSUME IInv
             PROVE  NoPageIsForgotten
  OBVIOUS
<1>1. row.status = "success" => Listing \subseteq fetched \union left
  BY DEF IInv, RowCovers, Covers, Known
<1>2. Listing \subseteq fetched \union left \union NextPages
  BY DEF IInv, RowCovers, Covers, Known, NextPages
<1> QED BY <1>1, <1>2 DEF NoPageIsForgotten

\* The variables keep their types.
THEOREM TypeCorrect == Spec => []TypeOK
<1>1. Init => TypeOK
  BY IInvInit DEF IInv
<1> QED BY <1>1, TypesKept, PTL DEF Spec

\* A retry asks for every page that is missing, and a task that succeeded misses
\* none, however many workers, reapers and administrators read the row and write
\* it later (NoPageIsForgotten).
THEOREM NoPageForgotten == Spec => []NoPageIsForgotten
<1> QED BY IInvInit, IInvNext, IInvImplies, PTL DEF Spec

-------------------------------------------------------------------------------
(* The abstract specification *)

\* A row with a name on it is running.
Owned == row.owner # "none" => row.status = "running"

LEMMA OwnedStep == TypeOK /\ Owned /\ [Next]_vars => Owned'
BY DEF TypeOK, Rows, Owned, Next, WorkerStep, Claim, Load, Block, FetchNothing, FetchListing,
       FetchPages, Import, Finish, Panic, PanicWrite, FailRow, Die, Reap, ReapWrite, Retry, Reset,
       vars

\* What a step does to the status, the owner and the version of the row: nothing,
\* a claim, the end of an execution by its owner, or a write from outside.
RowMoves ==
  \/ /\ row'.status = row.status /\ row'.owner = row.owner /\ row'.version = row.version
  \/ /\ row.status = "pending" /\ row'.status = "running"
     /\ row'.owner \in Workers /\ row'.version = row.version + 1
  \/ /\ row.owner \in Workers
     /\ row'.status \in {"partial_success", "success", "failed"}
     /\ row'.owner = "none" /\ row'.version = row.version
  \/ /\ row'.status \in {"pending", "failed", "cancelled"}
     /\ row'.owner = "none" /\ row'.version = row.version

LEMMA RowMovesOnly == TypeOK /\ [Next]_vars => RowMoves
<1> SUFFICES ASSUME TypeOK, [Next]_vars
             PROVE  RowMoves
  OBVIOUS
<1>1. row \in Rows
  BY DEF TypeOK
<1>2. ASSUME NEW w \in Workers, Claim(w) PROVE RowMoves
  BY <1>1, <1>2 DEF Claim, RowMoves, Rows
<1>3. ASSUME NEW w \in Workers, Block(w) \/ PanicWrite(w) PROVE RowMoves
  BY <1>1, <1>3 DEF Block, PanicWrite, FailRow, RowMoves, Rows
<1>4. ASSUME NEW w \in Workers, Finish(w) PROVE RowMoves
  <2>1. worker[w].ends \in {"partial_success", "success", "failed"}
    BY DEF TypeOK, WorkerStates
  <2> QED BY <1>1, <1>4, <2>1 DEF Finish, Holds, RowMoves, Rows
<1>5. ASSUME NEW r \in Reapers, ReapWrite(r) PROVE RowMoves
  BY <1>1, <1>5 DEF ReapWrite, FailRow, RowMoves, Rows
<1>6. ASSUME NEW a \in Admins, Reset(a) PROVE RowMoves
  BY <1>1, <1>6 DEF Reset, RowMoves, Rows
<1>7. ASSUME UNCHANGED row PROVE RowMoves
  BY <1>7 DEF RowMoves
<1> QED BY <1>2, <1>3, <1>4, <1>5, <1>6, <1>7 DEF Next, WorkerStep, Load, FetchNothing,
           FetchListing, FetchPages, Import, Panic, Die, Reap, Retry, vars

\* Each of these is a step of the leased task.
LEMMA LeasedStep == TypeOK /\ Owned /\ [Next]_vars => [Leased!Next]_Leased!vars
<1> SUFFICES ASSUME TypeOK, Owned, [Next]_vars
             PROVE  [Leased!Next]_Leased!vars
  OBVIOUS
<1> DEFINE status == [t \in {"task"} |-> row.status]
           holder == [t \in {"task"} |-> row.owner]
           version == [t \in {"task"} |-> row.version]
<1>1. RowMoves
  BY RowMovesOnly
<1>2. /\ status' = [status EXCEPT !["task"] = row'.status]
      /\ holder' = [holder EXCEPT !["task"] = row'.owner]
      /\ version' = [version EXCEPT !["task"] = row'.version]
  OBVIOUS
<1>3. CASE row'.status = row.status /\ row'.owner = row.owner /\ row'.version = row.version
  BY <1>3 DEF Leased!vars
<1>4. CASE /\ row.status = "pending" /\ row'.status = "running"
           /\ row'.owner \in Workers /\ row'.version = row.version + 1
  <2>1. row.owner = "none"
    BY <1>4 DEF Owned
  <2>2. Leased!Claim("task", row'.owner)
    BY <1>2, <1>4, <2>1 DEF Leased!Claim
  <2> QED BY <1>4, <2>2 DEF Leased!Next
<1>5. CASE /\ row.owner \in Workers
           /\ row'.status \in {"partial_success", "success", "failed"}
           /\ row'.owner = "none" /\ row'.version = row.version
  <2>1. row.status = "running"
    BY <1>5, NamesAssumption DEF Owned
  <2>2. Leased!Report("task", row.owner, row'.status)
    BY <1>2, <1>5, <2>1 DEF Leased!Report
  <2> QED BY <1>5, <2>2 DEF Leased!Next
<1>6. CASE /\ row'.status \in {"pending", "failed", "cancelled"}
           /\ row'.owner = "none" /\ row'.version = row.version
  <2>1. Leased!Lose("task", row'.status)
    BY <1>2, <1>6 DEF Leased!Lose
  <2> QED BY <1>6, <2>1 DEF Leased!Next
<1> QED BY <1>1, <1>3, <1>4, <1>5, <1>6 DEF RowMoves

\* Refinement: only the holder of a running version says how it ended, for any
\* number of workers, reapers and administrators.
THEOREM KeepsTheLease == Spec => ImplementsLeasedTask
<1>1. Init => Leased!Init /\ TypeOK /\ Owned
  <2>1. Init => Leased!Init /\ Owned
    BY DEF Init, Leased!Init, Owned
  <2> QED BY <2>1, IInvInit DEF IInv
<1>2. TypeOK /\ Owned /\ [Next]_vars => TypeOK' /\ Owned' /\ [Leased!Next]_Leased!vars
  BY TypesKept, OwnedStep, LeasedStep
<1> QED BY <1>1, <1>2, PTL DEF Spec, ImplementsLeasedTask, Leased!Spec
===============================================================================
