------------------------- MODULE OrderInventoryProofs -------------------------
(***************************************************************************)
(* For any orders, callers, warehouses, quantities and bounds: the tables  *)
(* keep their types, rounds of taking and giving back alternate, nothing   *)
(* is oversold, no warehouse but the default one is drawn below zero, the  *)
(* change logs add up to the stock, and the idempotency record of a round  *)
(* has succeeded exactly when its change log is there.                     *)
(*                                                                         *)
(* The invariants build on one another: TypeInv carries the types, with    *)
(* what a call at each stage has in hand; RoundsInv says which round that  *)
(* is; the ledger needs both, and that a restore has one job for a line.   *)
(* The sums are those of SumTheorems.                                      *)
(***************************************************************************)
EXTENDS OrderInventory, SumTheorems, TLAPS

-------------------------------------------------------------------------------
(* Sums of stock *)

LEMMA WarehousesAreFinite == IsFiniteSet(Warehouses) /\ IsFiniteSet(Others)
BY WarehousesAssumption, SmallerIsFinite DEF Others

LEMMA TotalIsSum ==
  ASSUME NEW f, NEW D, DOMAIN f = D
  PROVE  Total(f) = SumFunctionOnSet(f, D)
BY DEF Total, SumFunction

LEMMA TotalOfAll ==
  ASSUME NEW f, f \in [Warehouses -> Int]
  PROVE  Total(f) \in Int
BY WarehousesAreFinite, SumIsInt, TotalIsSum

LEMMA TotalOfOthers ==
  ASSUME NEW f, f \in [Others -> Int]
  PROVE  Total(f) \in Int
BY WarehousesAreFinite, SumIsInt, TotalIsSum

LEMMA TotalOfNothing == Nothing \in [Warehouses -> Int] /\ Total(Nothing) = 0
BY WarehousesAreFinite, SumOfZeros, TotalIsSum DEF Nothing

\* What lies in one warehouse only
LEMMA TotalOfOne ==
  ASSUME NEW w \in Warehouses, NEW q \in Int
  PROVE  /\ [Nothing EXCEPT ![w] = q] \in [Warehouses -> Int]
         /\ Total([Nothing EXCEPT ![w] = q]) = q
<1> DEFINE f == [Nothing EXCEPT ![w] = q]
<1>1. f \in [Warehouses -> Int] /\ DOMAIN f = Warehouses /\ DOMAIN Nothing = Warehouses
  BY DEF Nothing
<1>2. Nothing[w] = 0 /\ f[w] = q /\ \A x \in Warehouses \ {w} : f[x] = Nothing[x]
  BY DEF Nothing
<1>3. SumFunctionOnSet(Nothing, Warehouses) = 0
  BY <1>1, TotalOfNothing, TotalIsSum
<1> HIDE DEF f
<1>4. SumFunctionOnSet(f, Warehouses) =
        SumFunctionOnSet(Nothing, Warehouses) - Nothing[w] + f[w]
  BY <1>1, <1>2, WarehousesAreFinite, TotalOfNothing, SumUpdate
<1>5. Total(f) = q
  BY <1>1, <1>2, <1>3, <1>4, TotalIsSum
<1> QED  BY <1>1, <1>5 DEF f

-------------------------------------------------------------------------------
(* Types *)

CallRows ==
  [op: {"none", "deduct", "restore"},
   at: {"idle", "read", "acquire", "write", "lock", "refused"},
   rest: Seq(Items), opts: Options \union {NoOptions}, round: Rounds, jobs: SUBSET Jobs]

\* Whoever is past reading a line is at a line that has a SKU; a deduction
\* that reads has a line to read; a restore has finitely many jobs.
WellFormed(r) ==
  /\ r.at \in {"acquire", "write", "lock", "refused"} =>
       r.rest # <<>> /\ Head(r.rest).sku \in Skus
  /\ r.op = "deduct" /\ r.at = "read" => r.rest # <<>>
  /\ IsFiniteSet(r.jobs)

CallsWellFormed == \A c \in Callers : WellFormed(call[c])

AdjustmentsHaveSkus ==
  \A a \in Adjusters : adjusting[a] # NotAdjusting => adjusting[a].sku \in Skus

TypeInv == TypeOK /\ CallsWellFormed /\ AdjustmentsHaveSkus

LEMMA CallTypes ==
  ASSUME TypeInv, NEW c \in Callers
  PROVE  /\ call[c] \in CallRows
         /\ WellFormed(call[c])
BY DEF TypeInv, TypeOK, CallsWellFormed, CallRows

\* A call that moves on to a row of its type
LEMMA CallMoves ==
  ASSUME TypeInv, NEW c \in Callers, NEW r \in CallRows, WellFormed(r),
         call' = [call EXCEPT ![c] = r]
  PROVE  call' \in [Callers -> CallRows] /\ CallsWellFormed'
BY DEF TypeInv, TypeOK, CallsWellFormed, CallRows

LEMMA IdleIsTyped == Idle \in CallRows /\ WellFormed(Idle)
<1>1. <<>> \in Seq(Items) /\ {} \in SUBSET Jobs /\ 0 \in Rounds
  BY BoundsAssumption DEF Rounds
<1> QED  BY <1>1, FS_EmptySet DEF Idle, CallRows, WellFormed

LEMMA NextLineTyped ==
  ASSUME TypeInv, NEW c \in Callers, call[c].rest # <<>>
  PROVE  NextLine(c) \in CallRows /\ WellFormed(NextLine(c))
<1>1. call[c] \in CallRows
  BY CallTypes
<1>2. Tail(call[c].rest) \in Seq(Items) /\ 0 \in Rounds
  BY <1>1, BoundsAssumption DEF CallRows, Rounds
<1>3. CASE Tail(call[c].rest) = <<>>
  BY <1>3, IdleIsTyped DEF NextLine
<1>4. CASE Tail(call[c].rest) # <<>>
  <2> DEFINE r == [call[c] EXCEPT !.at = "read", !.rest = Tail(@), !.round = 0]
  <2>1. NextLine(c) = r
    BY <1>4 DEF NextLine
  <2>2. r \in CallRows /\ r.at = "read" /\ r.rest # <<>> /\ r.jobs = call[c].jobs
    BY <1>1, <1>2, <1>4 DEF CallRows
  <2> HIDE DEF r
  <2> QED  BY <2>1, <2>2, CallTypes DEF WellFormed
<1> QED  BY <1>3, <1>4

\* The line a call is at
LEMMA ItemTyped ==
  ASSUME TypeInv, NEW c \in Callers, call[c].rest # <<>>
  PROVE  /\ Item(c) \in Items
         /\ Item(c).line \in Lines
         /\ Item(c).sku \in Skus \union {NoSku}
         /\ Item(c).qty \in Quantities
<1>1. call[c] \in CallRows
  BY CallTypes
<1>2. Head(call[c].rest) \in Items
  BY <1>1 DEF CallRows
<1> QED  BY <1>2 DEF Item, Items

\* The slot of a call that is past reading its line
LEMMA SlotTyped ==
  ASSUME TypeInv, NEW c \in Callers, call[c].at \in {"acquire", "write", "lock", "refused"}
  PROVE  /\ call[c].rest # <<>>
         /\ Item(c) \in Items
         /\ Item(c).line \in Lines
         /\ Item(c).sku \in Skus
         /\ Item(c).qty \in Quantities
         /\ Item(c).qty \in Nat /\ Item(c).qty > 0
         /\ call[c].round \in Rounds
         /\ Slot(c) \in Slots
<1>1. call[c] \in CallRows /\ WellFormed(call[c])
  BY CallTypes
<1>2. call[c].rest # <<>> /\ Item(c).sku \in Skus /\ call[c].round \in Rounds
  BY <1>1 DEF WellFormed, Item, CallRows
<1>3. Item(c) \in Items /\ Item(c).line \in Lines /\ Item(c).qty \in Quantities
  BY <1>2, ItemTyped
<1>4. Item(c).qty \in Nat /\ Item(c).qty > 0
  <2>1. Item(c).qty \in Nat \ {0}
    BY <1>3, BoundsAssumption
  <2> QED  BY <2>1
<1> QED  BY <1>2, <1>3, <1>4 DEF Slot, Slots

LEMMA OptionsTyped ==
  ASSUME TypeInv, NEW c \in Callers
  PROVE  /\ call[c].opts.owner \in {o.owner : o \in Options} \union {NoOne}
         /\ call[c].opts.reason \in {o.reason : o \in Options} \union {""}
         /\ call[c].opts.neg \in BOOLEAN
         /\ call[c].opts.pin \in Warehouses \union {NoPin}
         /\ call[c].opts \in Options \/ call[c].opts.neg = FALSE
<1>1. call[c].opts \in Options \union {NoOptions}
  BY CallTypes DEF CallRows
<1>2. CASE call[c].opts = NoOptions
  <2>1. /\ NoOptions.owner = NoOne /\ NoOptions.reason = ""
        /\ NoOptions.neg = FALSE /\ NoOptions.pin = NoPin
    BY DEF NoOptions
  <2> QED  BY <1>2, <2>1, Zenon
<1>3. CASE call[c].opts \in Options
  <2>1. call[c].opts \in [owner: STRING, reason: STRING, neg: BOOLEAN,
                          pin: Warehouses \union {NoPin}]
    BY <1>3, BoundsAssumption
  <2> QED  BY <1>3, <2>1
<1> QED  BY <1>1, <1>2, <1>3

LEMMA StockTyped ==
  ASSUME TypeInv, NEW s \in Skus
  PROVE  /\ stock[s] \in Int
         /\ held[s] \in [Others -> Int]
         /\ Total(held[s]) \in Int
         /\ \A w \in Warehouses : Avail(s, w) \in Int
<1>1. stock[s] \in Int /\ held[s] \in [Others -> Int]
  BY DEF TypeInv, TypeOK
<1>2. Total(held[s]) \in Int
  BY <1>1, TotalOfOthers
<1> QED  BY <1>1, <1>2 DEF Avail, Others

\* A deduction takes what it is asked for, in all, and nothing less than zero
\* from any warehouse but the default one; it takes no more than is there from
\* those, but for the one that was asked for.
LEMMA Allocates ==
  ASSUME TypeInv, NEW s \in Skus, NEW q \in Nat, NEW pin \in Warehouses \union {NoPin}
  PROVE  /\ Allocation(s, q, pin) \in [Warehouses -> Int]
         /\ Total(Allocation(s, q, pin)) = q
         /\ \A w \in Others :
              /\ Allocation(s, q, pin)[w] >= 0
              /\ pin # w => \/ Allocation(s, q, pin)[w] = 0
                            \/ Allocation(s, q, pin)[w] <= held[s][w]
              /\ pin = w => Allocation(s, q, pin)[w] = q
<1>1. CASE pin # NoPin
  <2>1. Allocation(s, q, pin) = [Nothing EXCEPT ![pin] = q] /\ pin \in Warehouses
    BY <1>1 DEF Allocation
  <2>2. \A w \in Others : [Nothing EXCEPT ![pin] = q][w] = IF w = pin THEN q ELSE 0
    BY DEF Nothing, Others
  <2>3. \A w \in Others : pin # w => Allocation(s, q, pin)[w] = 0
    BY <2>1, <2>2
  <2>4. \A w \in Others : pin = w => Allocation(s, q, pin)[w] = q
    BY <2>1, <2>2
  <2>5. /\ Allocation(s, q, pin) \in [Warehouses -> Int]
        /\ Total(Allocation(s, q, pin)) = q
    <3>1. q \in Int
      OBVIOUS
    <3> QED  BY <2>1, <3>1, TotalOfOne
  <2>6. \A w \in Others : Allocation(s, q, pin)[w] >= 0
    BY <2>3, <2>4
  <2> QED  BY <2>3, <2>4, <2>5, <2>6
<1>2. CASE pin = NoPin
  <2> DEFINE turn == InTurn(s, q)
             took == [turn EXCEPT ![Main] = @ + (q - Total(turn))]
  <2>1. /\ Usable(s) \subseteq Warehouses
        /\ \A w \in Usable(s) : Avail(s, w) \in Int /\ Avail(s, w) > 0
    BY WarehousesAssumption, StockTyped DEF Usable
  <2>2. ASSUME NEW w \in Warehouses PROVE Ahead(s, w) \in Int
    <3> DEFINE D == {v \in Usable(s) : Rank(v) < Rank(w)}
               f == [v \in D |-> Avail(s, v)]
    <3>1. D \subseteq Warehouses /\ (\A v \in D : f[v] \in Int) /\ DOMAIN f = D
      BY <2>1
    <3>2. Ahead(s, w) = Total(f)
      BY DEF Ahead
    <3> HIDE DEF D, f
    <3>3. IsFiniteSet(D)
      BY <3>1, WarehousesAreFinite, SmallerIsFinite
    <3> QED  BY <3>1, <3>2, <3>3, TotalIsSum, SumIsInt
  <2>3. ASSUME NEW w \in Warehouses
        PROVE  turn[w] \in Int /\ turn[w] >= 0 /\ (turn[w] = 0 \/ turn[w] <= Avail(s, w))
    BY <2>1, <2>2, <2>3 DEF InTurn, Least
  <2>4. DOMAIN turn = Warehouses /\ turn = [w \in Warehouses |-> turn[w]]
    BY DEF InTurn
  <2>5. Main \in Warehouses /\ Main \notin Others /\ Others \subseteq Warehouses
    BY WarehousesAssumption DEF Others
  <2>6. Allocation(s, q, pin) = took
    BY <1>2, WarehousesAssumption DEF Allocation
  <2> HIDE DEF turn
  <2>7. turn \in [Warehouses -> Int] /\ Total(turn) \in Int
    BY <2>3, <2>4, TotalOfAll
  <2>8. /\ took \in [Warehouses -> Int]
        /\ DOMAIN took = Warehouses
        /\ took[Main] = turn[Main] + (q - Total(turn))
        /\ \A w \in Warehouses \ {Main} : took[w] = turn[w]
    BY <2>5, <2>7
  <2> HIDE DEF took
  <2>9. SumFunctionOnSet(took, Warehouses) =
          SumFunctionOnSet(turn, Warehouses) - turn[Main] + took[Main]
    BY <2>5, <2>7, <2>8, WarehousesAreFinite, SumUpdate
  <2>10. Total(took) = q
    BY <2>4, <2>5, <2>7, <2>8, <2>9, TotalIsSum
  <2>11. \A w \in Others : Avail(s, w) = held[s][w]
    BY <2>5 DEF Avail
  <2>12. \A w \in Others : pin # w
    BY <1>2, <2>5, WarehousesAssumption
  <2> QED  BY <2>3, <2>5, <2>6, <2>8, <2>10, <2>11, <2>12
<1> QED  BY <1>1, <1>2

LEMMA InitTypeInv == Init => TypeInv
<1> SUFFICES ASSUME Init PROVE TypeInv
  OBVIOUS
<1>1. stock \in [Skus -> Int] /\ held \in [Skus -> [Others -> Int]]
  BY BoundsAssumption DEF Init
<1>2. line \in [Lines -> [sku: Skus \union {NoSku}, qty: Quantities]]
  BY BoundsAssumption DEF Init
<1>3. effect \in [Lines \X (Skus \union {NoSku}) -> Effects]
  BY DEF Init, Effects, NoEffect
<1>4. book \in [Slots -> Entries]
  <2>1. Blank \in Entries
    BY TotalOfNothing DEF Blank, Entries
  <2> QED  BY <2>1 DEF Init
<1>5. key \in [Slots -> Keys]
  <2>1. NoKey \in Keys
    BY DEF NoKey, Keys
  <2> QED  BY <2>1 DEF Init
<1>6. lock \in [Skus -> Callers \union {NoOne}]
  BY DEF Init
<1>7. call \in [Callers -> CallRows] /\ CallsWellFormed
  BY IdleIsTyped DEF Init, CallsWellFormed
<1>8. /\ adjusting \in [Adjusters -> [sku: Skus \union {NoSku},
                          wh: Warehouses \union {NoPin}, level: Levels \union {0}, total: Int]]
      /\ AdjustmentsHaveSkus
  BY DEF Init, NotAdjusting, AdjustmentsHaveSkus
<1>9. /\ adjusted \in [Skus -> Int] /\ raced \subseteq Skus /\ keyless \in BOOLEAN
      /\ received \subseteq Purchases /\ events \in 0..MaxEvents
  <2>1. MaxEvents \in Nat
    BY BoundsAssumption
  <2>2. events \in 0..MaxEvents
    BY <2>1 DEF Init
  <2>3. adjusted \in [Skus -> Int] /\ raced \subseteq Skus
    BY DEF Init
  <2>4. keyless \in BOOLEAN /\ received \subseteq Purchases
    BY DEF Init
  <2> QED  BY <2>2, <2>3, <2>4
<1> QED
  BY <1>1, <1>2, <1>3, <1>4, <1>5, <1>6, <1>7, <1>8, <1>9 DEF TypeInv, TypeOK, CallRows

\* A step of a call, tables apart
LEMMA CallMovesTyped ==
  ASSUME TypeInv, NEW c \in Callers, NEW r \in CallRows, WellFormed(r),
         call' = [call EXCEPT ![c] = r],
         stock' \in [Skus -> Int], held' \in [Skus -> [Others -> Int]],
         effect' \in [Lines \X (Skus \union {NoSku}) -> Effects],
         book' \in [Slots -> Entries], key' \in [Slots -> Keys],
         lock' \in [Skus -> Callers \union {NoOne}],
         UNCHANGED <<line, adjusting, manual, received, events>>
  PROVE  TypeInv'
<1>1. call' \in [Callers -> CallRows] /\ CallsWellFormed'
  BY CallMoves
<1> QED
  BY <1>1 DEF TypeInv, TypeOK, CallRows, AdjustmentsHaveSkus, manual

LEMMA OnlyCallMoves ==
  ASSUME TypeInv, NEW c \in Callers, NEW r \in CallRows, WellFormed(r),
         call' = [call EXCEPT ![c] = r],
         UNCHANGED <<stock, held, line, effect, book, key, lock, adjusting, manual,
                     received, events>>
  PROVE  TypeInv'
<1>1. /\ stock' \in [Skus -> Int] /\ held' \in [Skus -> [Others -> Int]]
      /\ effect' \in [Lines \X (Skus \union {NoSku}) -> Effects]
      /\ book' \in [Slots -> Entries] /\ key' \in [Slots -> Keys]
      /\ lock' \in [Skus -> Callers \union {NoOne}]
  BY DEF TypeInv, TypeOK
<1> QED  BY <1>1, CallMovesTyped

LEMMA LoadedTyped ==
  ASSUME TypeInv, NEW o \in Orders
  PROVE  Loaded(o) \in Seq(Items) /\ Loaded(o) # <<>>
<1>1. o \in Seq(Lines) /\ o # <<>>
  BY LinesAssumption
<1>2. DOMAIN o = 1..Len(o) /\ Len(o) \in Nat /\ Len(o) # 0
  BY <1>1
<1>3. \A i \in DOMAIN o : [line |-> o[i], sku |-> line[o[i]].sku, qty |-> line[o[i]].qty] \in Items
  BY <1>1 DEF TypeInv, TypeOK, Items
<1>4. Loaded(o) \in [1..Len(o) -> Items]
  BY <1>2, <1>3 DEF Loaded
<1>5. Loaded(o) \in Seq(Items)
  BY <1>2, <1>4
<1>6. DOMAIN Loaded(o) = 1..Len(o)
  BY <1>2 DEF Loaded
<1>7. Len(Loaded(o)) = Len(o)
  BY <1>2, <1>5, <1>6
<1> QED  BY <1>2, <1>5, <1>7

LEMMA StartTyped ==
  ASSUME TypeInv, NEW c \in Callers, NEW o \in Orders,
         \/ \E opts \in Options : StartDeduct(c, o, opts)
         \/ StartRestore(c, o)
  PROVE  TypeInv'
<1>1. 0 \in Rounds
  BY BoundsAssumption DEF Rounds
<1>2. CASE StartRestore(c, o)
  <2> DEFINE r == [Idle EXCEPT !.op = "restore", !.at = "read", !.rest = Loaded(o)]
  <2>1. r \in CallRows /\ r.op = "restore" /\ r.at = "read" /\ r.jobs = {}
    BY <1>1, LoadedTyped DEF Idle, CallRows
  <2>2. call' = [call EXCEPT ![c] = r]
    BY <1>2 DEF StartRestore
  <2> HIDE DEF r
  <2>3. WellFormed(r)
    BY <2>1, FS_EmptySet DEF WellFormed
  <2> QED  BY <1>2, <2>1, <2>2, <2>3, OnlyCallMoves DEF StartRestore
<1>3. ASSUME NEW opts \in Options, StartDeduct(c, o, opts) PROVE TypeInv'
  <2> DEFINE r == [Idle EXCEPT !.op = "deduct", !.at = "read", !.rest = Loaded(o), !.opts = opts]
  <2>1. /\ r \in CallRows /\ r.op = "deduct" /\ r.at = "read" /\ r.rest # <<>>
        /\ r.jobs = {}
    BY <1>1, LoadedTyped DEF Idle, CallRows
  <2>2. call' = [call EXCEPT ![c] = r]
    BY <1>3 DEF StartDeduct
  <2> HIDE DEF r
  <2>3. WellFormed(r)
    BY <2>1, FS_EmptySet DEF WellFormed
  <2> QED  BY <1>3, <2>1, <2>2, <2>3, OnlyCallMoves DEF StartDeduct
<1> QED  BY <1>2, <1>3

\* A step to another stage of the same line
LEMMA StageTyped ==
  ASSUME TypeInv, NEW c \in Callers, call[c].rest # <<>>, Item(c).sku \in Skus,
         NEW at \in {"acquire", "write", "lock", "refused"}, NEW n \in Rounds
  PROVE  /\ [call[c] EXCEPT !.at = at] \in CallRows
         /\ WellFormed([call[c] EXCEPT !.at = at])
         /\ [call[c] EXCEPT !.at = at, !.round = n] \in CallRows
         /\ WellFormed([call[c] EXCEPT !.at = at, !.round = n])
<1>1. call[c] \in CallRows /\ Head(call[c].rest).sku \in Skus /\ IsFiniteSet(call[c].jobs)
  BY CallTypes DEF Item, WellFormed
<1> QED  BY <1>1 DEF CallRows, WellFormed

LEMMA ReadTyped ==
  ASSUME TypeInv, NEW c \in Callers, ReadLine(c) \/ RestoreRead(c)
  PROVE  TypeInv'
<1>1. call[c].rest # <<>>
  BY CallTypes DEF ReadLine, RestoreRead, At, WellFormed
<1>2. Item(c).sku \in Skus \union {NoSku}
  BY <1>1, ItemTyped
<1> DEFINE n == RestoreRounds(Item(c).line, Item(c).sku)
<1>3. CASE ReadLine(c)
  <2>1. Item(c).sku \in Skus
    BY <1>2, <1>3 DEF ReadLine
  <2>2. CASE CurrentlyDeducted(Item(c).line, Item(c).sku)
    BY <1>1, <1>3, <2>2, NextLineTyped, OnlyCallMoves DEF ReadLine
  <2>3. CASE ~CurrentlyDeducted(Item(c).line, Item(c).sku)
    <3>1. /\ n \in Rounds
          /\ call' = [call EXCEPT ![c] = [call[c] EXCEPT !.at = "acquire", !.round = n]]
      BY <1>3, <2>3 DEF ReadLine
    <3> HIDE DEF n
    <3> QED  BY <1>1, <1>3, <2>1, <3>1, StageTyped, OnlyCallMoves DEF ReadLine
  <2> QED  BY <2>2, <2>3
<1>4. CASE RestoreRead(c)
  <2>1. CASE Item(c).sku # NoSku /\ CurrentlyDeducted(Item(c).line, Item(c).sku)
    <3>1. n \in Rounds /\ call' = [call EXCEPT ![c] = [call[c] EXCEPT !.at = "lock", !.round = n]]
      BY <1>4, <2>1 DEF RestoreRead
    <3>2. Item(c).sku \in Skus
      BY <1>2, <2>1
    <3> HIDE DEF n
    <3> QED  BY <1>1, <1>4, <3>1, <3>2, StageTyped, OnlyCallMoves DEF RestoreRead
  <2>2. CASE ~(Item(c).sku # NoSku /\ CurrentlyDeducted(Item(c).line, Item(c).sku))
    <3> DEFINE r == [call[c] EXCEPT !.rest = Tail(@)]
    <3>1. call' = [call EXCEPT ![c] = r]
      BY <1>4, <2>2 DEF RestoreRead
    <3>2. call[c] \in CallRows /\ call[c].at = "read" /\ call[c].op = "restore"
      BY <1>4, CallTypes DEF RestoreRead, At
    <3>3. Tail(call[c].rest) \in Seq(Items)
      BY <1>1, <3>2 DEF CallRows
    <3>4. r \in CallRows /\ r.at = "read" /\ r.op = "restore" /\ r.jobs = call[c].jobs
      BY <3>2, <3>3 DEF CallRows
    <3> HIDE DEF r
    <3>5. WellFormed(r)
      BY <3>4, CallTypes DEF WellFormed
    <3> QED  BY <1>4, <3>1, <3>4, <3>5, OnlyCallMoves DEF RestoreRead
  <2> QED  BY <2>1, <2>2
<1> QED  BY <1>3, <1>4

\* The steps of a deduction that write its own progress only
LEMMA ProgressTyped ==
  ASSUME TypeInv, NEW c \in Callers,
         PassExpired(c) \/ Replay(c) \/ Busy(c) \/ Conflict(c) \/ Leave(c) \/ WriteRefused(c)
  PROVE  TypeInv'
<1>1. call[c].at \in {"acquire", "write", "refused"}
  BY DEF PassExpired, Replay, Busy, Conflict, Leave, WriteRefused, At
<1>2. call[c].rest # <<>> /\ Item(c).sku \in Skus /\ call[c].round \in Rounds
  BY <1>1, SlotTyped
<1>3. CASE PassExpired(c)
  BY <1>2, <1>3, StageTyped, OnlyCallMoves DEF PassExpired
<1>4. CASE Conflict(c)
  BY <1>2, <1>4, StageTyped, OnlyCallMoves DEF Conflict
<1>5. CASE Replay(c)
  BY <1>2, <1>5, NextLineTyped, OnlyCallMoves DEF Replay
<1>6. CASE Busy(c)
  BY <1>6, IdleIsTyped, OnlyCallMoves DEF Busy
<1>7. CASE Leave(c)
  BY <1>7, IdleIsTyped, OnlyCallMoves DEF Leave
<1>8. CASE WriteRefused(c)
  BY <1>8, IdleIsTyped, OnlyCallMoves DEF WriteRefused
<1> QED  BY <1>3, <1>4, <1>5, <1>6, <1>7, <1>8

\* The tables a call's step may leave alone
LEMMA TablesTyped ==
  ASSUME TypeInv
  PROVE  /\ stock \in [Skus -> Int] /\ held \in [Skus -> [Others -> Int]]
         /\ effect \in [Lines \X (Skus \union {NoSku}) -> Effects]
         /\ book \in [Slots -> Entries] /\ key \in [Slots -> Keys]
         /\ lock \in [Skus -> Callers \union {NoOne}]
BY DEF TypeInv, TypeOK

LEMMA SkipTyped ==
  ASSUME TypeInv, NEW c \in Callers, SkipUnbound(c)
  PROVE  TypeInv'
<1>1. call[c].rest # <<>>
  BY CallTypes DEF SkipUnbound, At, WellFormed
<1>2. Item(c).line \in Lines
  BY <1>1, ItemTyped
<1>3. effect' \in [Lines \X (Skus \union {NoSku}) -> Effects]
  BY <1>2, TablesTyped DEF SkipUnbound, Effects
<1>4. /\ stock' \in [Skus -> Int] /\ held' \in [Skus -> [Others -> Int]]
      /\ book' \in [Slots -> Entries] /\ key' \in [Slots -> Keys]
      /\ lock' \in [Skus -> Callers \union {NoOne}]
  BY TablesTyped DEF SkipUnbound
<1>5. call' = [call EXCEPT ![c] = NextLine(c)]
  BY DEF SkipUnbound
<1> QED  BY <1>1, <1>3, <1>4, <1>5, NextLineTyped, CallMovesTyped DEF SkipUnbound

LEMMA AcquireTyped ==
  ASSUME TypeInv, NEW c \in Callers, Acquire(c)
  PROVE  TypeInv'
<1>1. call[c].at \in {"acquire", "write", "lock", "refused"}
  BY DEF Acquire, At
<1>2. /\ call[c].rest # <<>> /\ Item(c).sku \in Skus /\ Item(c).qty \in Quantities
      /\ call[c].round \in Rounds /\ Slot(c) \in Slots
  BY <1>1, SlotTyped
<1> DEFINE k == [key[Slot(c)] EXCEPT !.status = "processing", !.live = TRUE,
                   !.owner = call[c].opts.owner, !.qty = Item(c).qty,
                   !.reason = call[c].opts.reason]
<1>3. key' = [key EXCEPT ![Slot(c)] = k]
  BY DEF Acquire
<1>4. k \in Keys
  BY <1>2, TablesTyped, OptionsTyped DEF Keys
<1> HIDE DEF k
<1>5. key' \in [Slots -> Keys]
  BY <1>2, <1>3, <1>4, TablesTyped
<1>6. /\ stock' \in [Skus -> Int] /\ held' \in [Skus -> [Others -> Int]]
      /\ effect' \in [Lines \X (Skus \union {NoSku}) -> Effects]
      /\ book' \in [Slots -> Entries]
      /\ lock' \in [Skus -> Callers \union {NoOne}]
  BY TablesTyped DEF Acquire
<1>7. call' = [call EXCEPT ![c] = [call[c] EXCEPT !.at = "write"]]
  BY DEF Acquire
<1> QED  BY <1>2, <1>5, <1>6, <1>7, StageTyped, CallMovesTyped DEF Acquire

LEMMA FailShortTyped ==
  ASSUME TypeInv, NEW c \in Callers, FailShort(c)
  PROVE  TypeInv'
<1>1. call[c].at \in {"acquire", "write", "lock", "refused"}
  BY DEF FailShort, At
<1>2. /\ call[c].rest # <<>> /\ Item(c).line \in Lines /\ Item(c).sku \in Skus
      /\ Slot(c) \in Slots
  BY <1>1, SlotTyped
<1>3. effect' \in [Lines \X (Skus \union {NoSku}) -> Effects]
  BY <1>2, TablesTyped DEF FailShort, Effects
<1>4. key' \in [Slots -> Keys]
  <2> DEFINE k == [key[Slot(c)] EXCEPT !.status = "failed", !.live = FALSE]
  <2>1. k \in Keys /\ key \in [Slots -> Keys]
    BY <1>2, TablesTyped DEF Keys
  <2>2. key' = key \/ key' = [key EXCEPT ![Slot(c)] = k]
    BY DEF FailShort
  <2> HIDE DEF k
  <2> QED  BY <2>1, <2>2
<1>5. /\ stock' \in [Skus -> Int] /\ held' \in [Skus -> [Others -> Int]]
      /\ book' \in [Slots -> Entries]
      /\ lock' \in [Skus -> Callers \union {NoOne}]
  BY TablesTyped DEF FailShort
<1>6. call' = [call EXCEPT ![c] = NextLine(c)]
  BY DEF FailShort
<1> QED  BY <1>2, <1>3, <1>4, <1>5, <1>6, NextLineTyped, CallMovesTyped DEF FailShort

LEMMA MovedTyped ==
  ASSUME TypeInv, NEW s \in Skus, NEW f \in [Warehouses -> Int], NEW sign \in {1, -1}
  PROVE  Moved(s, f, sign) \in [Others -> Int]
<1>1. \A w \in Others : held[s][w] \in Int /\ f[w] \in Int
  BY StockTyped DEF Others
<1>2. \A w \in Others : held[s][w] + sign * f[w] \in Int
  BY <1>1
<1> QED  BY <1>2 DEF Moved

\* What a deduction writes
LEMMA DeductFacts ==
  ASSUME TypeInv, NEW c \in Callers, DeductStock(c)
  PROVE  LET l == Item(c).line
             s == Item(c).sku
             q == Item(c).qty
             took == Allocation(s, q, call[c].opts.pin)
         IN  /\ call[c].rest # <<>> /\ l \in Lines /\ s \in Skus /\ q \in Nat /\ q > 0
             /\ call[c].round \in Rounds /\ Slot(c) \in Slots
             /\ Slot(c) = <<l, s, call[c].round>>
             /\ call[c].opts.pin \in Warehouses \union {NoPin}
             /\ took \in [Warehouses -> Int]
             /\ stock' = [stock EXCEPT ![s] = @ - q]
             /\ held' = [held EXCEPT ![s] = Moved(s, took, -1)]
             /\ effect' = [effect EXCEPT ![<<l, s>>] = AfterDeduct(l, s)]
             /\ book' = [book EXCEPT ![Slot(c)] = [book[Slot(c)] EXCEPT !.deducted = TRUE,
                                                                        !.took = took]]
             /\ key' = [key EXCEPT ![Slot(c)] = [key[Slot(c)] EXCEPT !.status = "succeeded",
                                                                     !.live = FALSE]]
             /\ call' = [call EXCEPT ![c] = NextLine(c)]
             /\ ~book[Slot(c)].deducted
<1>1. call[c].at \in {"acquire", "write", "lock", "refused"}
  BY DEF DeductStock, At
<1>2. /\ call[c].rest # <<>> /\ Item(c).line \in Lines /\ Item(c).sku \in Skus
      /\ Item(c).qty \in Nat /\ Item(c).qty > 0 /\ call[c].round \in Rounds /\ Slot(c) \in Slots
  BY <1>1, SlotTyped
<1>3. call[c].opts.pin \in Warehouses \union {NoPin}
  BY OptionsTyped
<1>4. Allocation(Item(c).sku, Item(c).qty, call[c].opts.pin) \in [Warehouses -> Int]
  BY <1>2, <1>3, Allocates
<1> QED  BY <1>2, <1>3, <1>4 DEF DeductStock, Bookable, Slot

LEMMA DeductTyped ==
  ASSUME TypeInv, NEW c \in Callers, DeductStock(c)
  PROVE  TypeInv'
<1> DEFINE l == Item(c).line
           s == Item(c).sku
           q == Item(c).qty
           took == Allocation(s, q, call[c].opts.pin)
<1>1. /\ call[c].rest # <<>> /\ l \in Lines /\ s \in Skus /\ q \in Nat /\ Slot(c) \in Slots
      /\ took \in [Warehouses -> Int]
      /\ stock' = [stock EXCEPT ![s] = @ - q]
      /\ held' = [held EXCEPT ![s] = Moved(s, took, -1)]
      /\ effect' = [effect EXCEPT ![<<l, s>>] = AfterDeduct(l, s)]
      /\ book' = [book EXCEPT ![Slot(c)] = [book[Slot(c)] EXCEPT !.deducted = TRUE,
                                                                 !.took = took]]
      /\ key' = [key EXCEPT ![Slot(c)] = [key[Slot(c)] EXCEPT !.status = "succeeded",
                                                              !.live = FALSE]]
      /\ call' = [call EXCEPT ![c] = NextLine(c)]
  BY DeductFacts
<1> HIDE DEF l, s, q, took
<1>2. stock' \in [Skus -> Int]
  BY <1>1, TablesTyped
<1>3. held' \in [Skus -> [Others -> Int]]
  BY <1>1, TablesTyped, MovedTyped
<1>4. effect' \in [Lines \X (Skus \union {NoSku}) -> Effects]
  <2>1. AfterDeduct(l, s) \in Effects
    BY DEF AfterDeduct, Effects
  <2> QED  BY <1>1, <2>1, TablesTyped
<1>5. book' \in [Slots -> Entries]
  BY <1>1, TablesTyped DEF Entries
<1>6. key' \in [Slots -> Keys]
  BY <1>1, TablesTyped DEF Keys
<1>7. lock' \in [Skus -> Callers \union {NoOne}]
  BY TablesTyped DEF DeductStock
<1> QED
  BY <1>1, <1>2, <1>3, <1>4, <1>5, <1>6, <1>7, NextLineTyped, CallMovesTyped DEF DeductStock

LEMMA RestoreLockTyped ==
  ASSUME TypeInv, NEW c \in Callers, RestoreLock(c)
  PROVE  TypeInv'
<1>1. call[c].at = "lock"
  BY DEF RestoreLock, At
<1>2. /\ call[c].rest # <<>> /\ Item(c).line \in Lines /\ Item(c).sku \in Skus
      /\ Item(c).qty \in Quantities /\ call[c].round \in Rounds
  BY <1>1, SlotTyped
<1> DEFINE j == [line |-> Item(c).line, sku |-> Item(c).sku, qty |-> Item(c).qty,
                 round |-> call[c].round]
           r == [call[c] EXCEPT !.at = "read", !.rest = Tail(@), !.jobs = @ \union {j}]
<1>3. call' = [call EXCEPT ![c] = r]
  BY DEF RestoreLock
<1>4. j \in Jobs
  BY <1>2 DEF Jobs
<1>5. call[c] \in CallRows /\ Tail(call[c].rest) \in Seq(Items) /\ call[c].op = "restore"
  BY <1>2, CallTypes DEF CallRows, RestoreLock, At
<1> HIDE DEF j
<1>6. /\ r \in CallRows /\ r.at = "read" /\ r.op = "restore"
      /\ r.jobs = call[c].jobs \union {j}
  BY <1>4, <1>5 DEF CallRows
<1> HIDE DEF r
<1>7. WellFormed(r)
  BY <1>6, CallTypes, FS_AddElement DEF WellFormed
<1>8. lock' \in [Skus -> Callers \union {NoOne}]
  BY <1>2, TablesTyped DEF RestoreLock
<1>9. /\ stock' \in [Skus -> Int] /\ held' \in [Skus -> [Others -> Int]]
      /\ effect' \in [Lines \X (Skus \union {NoSku}) -> Effects]
      /\ book' \in [Slots -> Entries] /\ key' \in [Slots -> Keys]
  BY TablesTyped DEF RestoreLock
<1> QED  BY <1>3, <1>6, <1>7, <1>8, <1>9, CallMovesTyped DEF RestoreLock

\* A job of a restore
LEMMA JobTyped ==
  ASSUME TypeInv, NEW c \in Callers, NEW j \in call[c].jobs
  PROVE  /\ j \in Jobs
         /\ j.line \in Lines /\ j.sku \in Skus /\ j.round \in Rounds
         /\ j.qty \in Nat /\ j.qty > 0
         /\ <<j.line, j.sku, j.round>> \in Slots
         /\ <<j.line, j.sku>> \in Lines \X (Skus \union {NoSku})
<1>1. j \in Jobs
  BY CallTypes DEF CallRows
<1>2. j.qty \in Nat \ {0}
  BY <1>1, BoundsAssumption DEF Jobs
<1> QED  BY <1>1, <1>2 DEF Jobs, Slots

\* A job gives back what it is for, in all.
LEMMA GivesBack ==
  ASSUME TypeInv, NEW c \in Callers, NEW j \in call[c].jobs
  PROVE  /\ GivenBack(j) \in [Warehouses -> Int]
         /\ Total(GivenBack(j)) = j.qty
         /\ \A w \in Others : \/ GivenBack(j)[w] = 0
                              \/ GivenBack(j)[w] = book[<<j.line, j.sku, j.round>>].took[w]
<1> DEFINE took == book[<<j.line, j.sku, j.round>>].took
<1>1. took \in [Warehouses -> Int]
  BY JobTyped, TablesTyped DEF Entries
<1>2. CASE Total(took) = j.qty
  BY <1>1, <1>2 DEF GivenBack
<1>3. CASE Total(took) # j.qty
  <2>1. GivenBack(j) = [Nothing EXCEPT ![Main] = j.qty]
    BY <1>3 DEF GivenBack
  <2>2. Main \in Warehouses
    BY WarehousesAssumption
  <2>4. j.qty \in Int
    <3>1. j.qty \in Nat
      BY JobTyped
    <3> QED  BY <3>1
  <2>5. \A w \in Others : [Nothing EXCEPT ![Main] = j.qty][w] = 0
    BY DEF Others, Nothing
  <2> QED  BY <2>1, <2>2, <2>4, <2>5, TotalOfOne
<1> QED  BY <1>2, <1>3

\* What a call gives back to a SKU in all, and to one warehouse
LEMMA BackTyped ==
  ASSUME TypeInv, NEW c \in Callers, NEW s \in Skus
  PROVE  /\ Total([j \in {j \in call[c].jobs : j.sku = s} |-> j.qty]) \in Nat
         /\ \A w \in Warehouses : BackTo(call[c].jobs, s, w) \in Int
<1> DEFINE E == {j \in call[c].jobs : j.sku = s}
           q == [j \in E |-> j.qty]
<1>1. E \subseteq call[c].jobs /\ IsFiniteSet(call[c].jobs)
  BY CallTypes DEF WellFormed
<1>2. IsFiniteSet(E)
  BY <1>1, SmallerIsFinite
<1>3. (\A j \in E : q[j] \in Nat) /\ DOMAIN q = E
  BY <1>1, JobTyped
<1>4. ASSUME NEW w \in Warehouses PROVE BackTo(call[c].jobs, s, w) \in Int
  <2> DEFINE g == [j \in E |-> GivenBack(j)[w]]
  <2>1. (\A j \in E : g[j] \in Int) /\ DOMAIN g = E
    BY <1>1, GivesBack
  <2>2. BackTo(call[c].jobs, s, w) = Total(g)
    BY DEF BackTo
  <2> HIDE DEF g, E
  <2> QED  BY <1>2, <2>1, <2>2, TotalIsSum, SumIsInt
<1> HIDE DEF q, E
<1>5. Total(q) \in Nat
  BY <1>2, <1>3, TotalIsSum, SumOfNats
<1> QED  BY <1>4, <1>5 DEF q, E

\* Of the jobs of a call, those of a line and SKU, and those of a round
JobsOf(c, x) == {j \in call[c].jobs : j.line = x[1] /\ j.sku = x[2]}
JobsIn(c, x) == {j \in JobsOf(c, x) : j.round = x[3]}

\* What a restore writes
LEMMA RestoreFacts ==
  ASSUME TypeInv, NEW c \in Callers, RestoreCommit(c)
  PROVE  /\ \A j \in call[c].jobs : Restorable(j)
         /\ stock' = [s \in Skus |-> stock[s] +
                        Total([j \in {j \in call[c].jobs : j.sku = s} |-> j.qty])]
         /\ held' = [s \in Skus |-> [w \in Others |->
                                       held[s][w] + BackTo(call[c].jobs, s, w)]]
         /\ effect' = [x \in Lines \X (Skus \union {NoSku}) |->
                         IF JobsOf(c, x) = {} THEN effect[x]
                         ELSE [effect[x] EXCEPT !.restore = "success"]]
         /\ book' = [x \in Slots |->
                       IF JobsIn(c, x) = {} THEN book[x]
                       ELSE [book[x] EXCEPT !.restored = TRUE,
                               !.gave = GivenBack(CHOOSE j \in JobsIn(c, x) : TRUE)]]
         /\ lock' = Released(c)
         /\ call' = [call EXCEPT ![c] = Idle]
BY DEF RestoreCommit, JobsOf, JobsIn

LEMMA ReleasedTyped ==
  ASSUME TypeInv, NEW c \in Callers
  PROVE  Released(c) \in [Skus -> Callers \union {NoOne}]
BY TablesTyped DEF Released

LEMMA RestoreCommitTyped ==
  ASSUME TypeInv, NEW c \in Callers, RestoreCommit(c)
  PROVE  TypeInv'
<1> DEFINE q(s) == Total([j \in {j \in call[c].jobs : j.sku = s} |-> j.qty])
<1>1. stock' \in [Skus -> Int]
  <2>1. stock' = [s \in Skus |-> stock[s] + q(s)]
    BY RestoreFacts
  <2>2. \A s \in Skus : q(s) \in Nat /\ stock[s] \in Int
    BY StockTyped, BackTyped
  <2> HIDE DEF q
  <2> QED  BY <2>1, <2>2
<1>2. held' \in [Skus -> [Others -> Int]]
  <2>1. held' = [s \in Skus |-> [w \in Others |-> held[s][w] + BackTo(call[c].jobs, s, w)]]
    BY RestoreFacts
  <2>2. \A s \in Skus, w \in Others : BackTo(call[c].jobs, s, w) \in Int
    BY BackTyped DEF Others
  <2>3. \A s \in Skus, w \in Others : held[s][w] \in Int
    BY StockTyped
  <2>4. \A s \in Skus, w \in Others : held[s][w] + BackTo(call[c].jobs, s, w) \in Int
    BY <2>2, <2>3
  <2> QED  BY <2>1, <2>4
<1>3. effect' \in [Lines \X (Skus \union {NoSku}) -> Effects]
  <2>1. \A x \in Lines \X (Skus \union {NoSku}) :
          effect[x] \in Effects /\ [effect[x] EXCEPT !.restore = "success"] \in Effects
    BY TablesTyped DEF Effects
  <2> QED  BY <2>1, RestoreFacts
<1>4. book' \in [Slots -> Entries]
  <2>1. ASSUME NEW x \in Slots, JobsIn(c, x) # {}
        PROVE  [book[x] EXCEPT !.restored = TRUE,
                  !.gave = GivenBack(CHOOSE j \in JobsIn(c, x) : TRUE)] \in Entries
    <3> DEFINE j == CHOOSE j \in JobsIn(c, x) : TRUE
    <3>1. j \in call[c].jobs
      BY <2>1 DEF JobsIn, JobsOf
    <3> HIDE DEF j
    <3>2. GivenBack(j) \in [Warehouses -> Int]
      BY <3>1, GivesBack
    <3>3. [book[x] EXCEPT !.restored = TRUE, !.gave = GivenBack(j)] \in Entries
      BY <3>2, TablesTyped DEF Entries
    <3> QED  BY <3>3 DEF j
  <2> QED  BY <2>1, RestoreFacts, TablesTyped
<1>5. key' \in [Slots -> Keys] /\ lock' \in [Skus -> Callers \union {NoOne}]
  BY TablesTyped, RestoreFacts, ReleasedTyped DEF RestoreCommit
<1>6. call' = [call EXCEPT ![c] = Idle]
  BY RestoreFacts
<1> QED  BY <1>1, <1>2, <1>3, <1>4, <1>5, <1>6, IdleIsTyped, CallMovesTyped DEF RestoreCommit

LEMMA UndoneTyped ==
  ASSUME TypeInv, NEW c \in Callers, RestoreRefused(c) \/ Abort(c)
  PROVE  TypeInv'
<1>1. /\ stock' \in [Skus -> Int] /\ held' \in [Skus -> [Others -> Int]]
      /\ effect' \in [Lines \X (Skus \union {NoSku}) -> Effects]
      /\ book' \in [Slots -> Entries] /\ key' \in [Slots -> Keys]
  BY TablesTyped DEF RestoreRefused, Abort
<1>2. lock' \in [Skus -> Callers \union {NoOne}]
  BY ReleasedTyped DEF RestoreRefused, Abort
<1>3. call' = [call EXCEPT ![c] = Idle]
  BY DEF RestoreRefused, Abort
<1> QED  BY <1>1, <1>2, <1>3, IdleIsTyped, CallMovesTyped DEF RestoreRefused, Abort

\* The steps of everybody else
LEMMA OthersTyped ==
  ASSUME TypeInv, UNCHANGED <<call, lock, effect, book>>,
         stock' \in [Skus -> Int], held' \in [Skus -> [Others -> Int]],
         line' \in [Lines -> [sku: Skus \union {NoSku}, qty: Quantities]],
         key' \in [Slots -> Keys],
         adjusting' \in [Adjusters -> [sku: Skus \union {NoSku},
                           wh: Warehouses \union {NoPin}, level: Levels \union {0},
                           total: Int]],
         AdjustmentsHaveSkus',
         adjusted' \in [Skus -> Int], raced' \subseteq Skus, keyless' \in BOOLEAN,
         received' \subseteq Purchases,
         \/ events' = events
         \/ events < MaxEvents /\ events' = events + 1
  PROVE  TypeInv'
<1>1. events' \in 0..MaxEvents
  BY BoundsAssumption DEF TypeInv, TypeOK
<1>2. call' \in [Callers -> CallRows] /\ CallsWellFormed'
  BY DEF TypeInv, TypeOK, CallRows, CallsWellFormed
<1>3. /\ effect' \in [Lines \X (Skus \union {NoSku}) -> Effects]
      /\ book' \in [Slots -> Entries]
      /\ lock' \in [Skus -> Callers \union {NoOne}]
  BY TablesTyped
<1> QED  BY <1>1, <1>2, <1>3 DEF TypeInv, TypeOK, CallRows

LEMMA ManualTyped ==
  ASSUME TypeInv
  PROVE  /\ line \in [Lines -> [sku: Skus \union {NoSku}, qty: Quantities]]
         /\ adjusting \in [Adjusters -> [sku: Skus \union {NoSku},
                             wh: Warehouses \union {NoPin}, level: Levels \union {0},
                             total: Int]]
         /\ AdjustmentsHaveSkus
         /\ adjusted \in [Skus -> Int] /\ raced \subseteq Skus /\ keyless \in BOOLEAN
         /\ received \subseteq Purchases
BY DEF TypeInv, TypeOK

LEMMA TimeTyped ==
  ASSUME TypeInv, NEW x \in Slots, LeaseLapses(x) \/ KeyExpires(x)
  PROVE  TypeInv'
<1>1. \/ key' = [key EXCEPT ![x] = [key[x] EXCEPT !.live = FALSE]]
      \/ key' = [key EXCEPT ![x] = [key[x] EXCEPT !.fresh = FALSE]]
  BY DEF LeaseLapses, KeyExpires
<1>2. key' \in [Slots -> Keys]
  BY <1>1, TablesTyped DEF Keys
<1>3. /\ UNCHANGED <<call, lock, effect, book, stock, held, line, adjusting, adjusted,
                     raced, keyless, received>>
      /\ events < MaxEvents /\ events' = events + 1
  BY DEF LeaseLapses, KeyExpires, manual
<1>4. AdjustmentsHaveSkus'
  BY <1>3, ManualTyped DEF AdjustmentsHaveSkus
<1> QED  BY <1>2, <1>3, <1>4, TablesTyped, ManualTyped, OthersTyped

LEMMA LineTyped ==
  ASSUME TypeInv,
         \/ \E l \in Lines, s \in Skus : Bind(l, s)
         \/ \E l \in Lines, q \in Quantities : Resize(l, q)
  PROVE  TypeInv'
<1>1. line' \in [Lines -> [sku: Skus \union {NoSku}, qty: Quantities]]
  BY ManualTyped DEF Bind, Resize
<1>2. /\ UNCHANGED <<call, lock, effect, book, key, stock, held, adjusting, adjusted,
                     raced, keyless, received>>
      /\ events < MaxEvents /\ events' = events + 1
  BY DEF Bind, Resize, manual
<1>3. AdjustmentsHaveSkus'
  BY <1>2, ManualTyped DEF AdjustmentsHaveSkus
<1> QED  BY <1>1, <1>2, <1>3, TablesTyped, ManualTyped, OthersTyped

LEMMA PurchaseTyped ==
  ASSUME NEW p \in Purchases
  PROVE  p.sku \in Skus /\ p.wh \in Warehouses /\ p.qty \in Nat /\ p.qty > 0
<1>1. p \in [sku: Skus, wh: Warehouses, qty: Nat \ {0}]
  BY BoundsAssumption
<1> QED  BY <1>1

LEMMA ReceiveTyped ==
  ASSUME TypeInv, NEW p \in Purchases, Receive(p)
  PROVE  TypeInv'
<1> DEFINE f == [Nothing EXCEPT ![p.wh] = p.qty]
<1>1. p.sku \in Skus /\ p.wh \in Warehouses /\ p.qty \in Nat
  BY PurchaseTyped
<1>2. p.qty \in Int
  BY <1>1
<1>3. f \in [Warehouses -> Int]
  BY <1>1, <1>2, TotalOfOne
<1>4. /\ stock' = [stock EXCEPT ![p.sku] = @ + p.qty]
      /\ held' = [held EXCEPT ![p.sku] = Moved(p.sku, f, 1)]
  BY DEF Receive
<1> HIDE DEF f
<1>5. stock' \in [Skus -> Int]
  BY <1>1, <1>2, <1>4, TablesTyped
<1>6. held' \in [Skus -> [Others -> Int]]
  BY <1>1, <1>3, <1>4, TablesTyped, MovedTyped
<1>7. /\ UNCHANGED <<call, lock, effect, book, key, line, adjusting, adjusted,
                     raced, keyless, events>>
      /\ received' \subseteq Purchases
  BY ManualTyped DEF Receive, manual
<1>8. AdjustmentsHaveSkus'
  BY <1>7, ManualTyped DEF AdjustmentsHaveSkus
<1> QED  BY <1>5, <1>6, <1>7, <1>8, TablesTyped, ManualTyped, OthersTyped

LEMMA TransferTyped ==
  ASSUME TypeInv, NEW s \in Skus, NEW from \in Warehouses, NEW to \in Warehouses,
         NEW q \in Quantities, Transfer(s, from, to, q)
  PROVE  TypeInv'
<1> DEFINE f == [Nothing EXCEPT ![from] = 0 - q, ![to] = q]
<1>1. q \in Nat
  BY BoundsAssumption
<1>2. f \in [Warehouses -> Int]
  BY <1>1, TotalOfNothing
<1>3. held' = [held EXCEPT ![s] = Moved(s, f, 1)]
  BY DEF Transfer
<1> HIDE DEF f
<1>4. held' \in [Skus -> [Others -> Int]]
  BY <1>2, <1>3, TablesTyped, MovedTyped
<1>5. /\ UNCHANGED <<call, lock, effect, book, key, line, stock, adjusting, adjusted,
                     raced, keyless, received>>
      /\ events < MaxEvents /\ events' = events + 1
  BY DEF Transfer, manual
<1>6. AdjustmentsHaveSkus'
  BY <1>5, ManualTyped DEF AdjustmentsHaveSkus
<1> QED  BY <1>4, <1>5, <1>6, TablesTyped, ManualTyped, OthersTyped

LEMMA AdjustReadTyped ==
  ASSUME TypeInv, NEW a \in Adjusters, NEW s \in Skus, NEW wh \in Open \union {NoPin},
         NEW level \in Levels, AdjustRead(a, s, wh, level)
  PROVE  TypeInv'
<1>1. adjusting' = [adjusting EXCEPT ![a] = [sku |-> s, wh |-> wh, level |-> level,
                                             total |-> stock[s]]]
  BY DEF AdjustRead
<1>2. stock[s] \in Int /\ wh \in Warehouses \union {NoPin}
  BY StockTyped, WarehousesAssumption
<1>3. /\ adjusting' \in [Adjusters -> [sku: Skus \union {NoSku},
                           wh: Warehouses \union {NoPin}, level: Levels \union {0},
                           total: Int]]
      /\ AdjustmentsHaveSkus'
  BY <1>1, <1>2, ManualTyped DEF AdjustmentsHaveSkus
<1>4. /\ UNCHANGED <<call, lock, effect, book, key, line, stock, held, adjusted,
                     raced, keyless, received>>
      /\ events < MaxEvents /\ events' = events + 1
  BY DEF AdjustRead, manual
<1> QED  BY <1>3, <1>4, TablesTyped, ManualTyped, OthersTyped

LEMMA DeltaTyped ==
  ASSUME TypeInv, NEW a \in Adjusters, adjusting[a] # NotAdjusting
  PROVE  /\ adjusting[a].sku \in Skus
         /\ adjusting[a].wh \in Warehouses \union {NoPin}
         /\ adjusting[a].level \in Nat
         /\ adjusting[a].total \in Int
         /\ Delta(a) \in Int
         /\ NewTotal(a) \in Int
<1>1. /\ adjusting[a] \in [sku: Skus \union {NoSku}, wh: Warehouses \union {NoPin},
                           level: Levels \union {0}, total: Int]
      /\ adjusting[a].sku \in Skus
  BY ManualTyped DEF AdjustmentsHaveSkus
<1>2. adjusting[a].level \in Nat
  <2>1. adjusting[a].level \in Levels \union {0}
    BY <1>1
  <2>2. \A x \in Levels \union {0} : x \in Nat
    <3>1. \A x \in Levels : x \in Nat
      BY BoundsAssumption
    <3> QED  BY <3>1
  <2> QED  BY <2>1, <2>2
<1>3. adjusting[a].wh \in Warehouses \union {NoPin} /\ adjusting[a].total \in Int
  BY <1>1
<1> DEFINE s == adjusting[a].sku
           wh == adjusting[a].wh
<1>4. Total(held[s]) \in Int /\ held[s] \in [Others -> Int]
  BY <1>1, StockTyped
<1>5. wh # NoPin /\ wh # Main => held[s][wh] \in Int
  BY <1>3, <1>4 DEF Others
<1>6. Delta(a) \in Int
  BY <1>2, <1>3, <1>4, <1>5 DEF Delta
<1> QED  BY <1>1, <1>2, <1>3, <1>6 DEF NewTotal

LEMMA AdjustWriteTyped ==
  ASSUME TypeInv, NEW a \in Adjusters, AdjustWrite(a)
  PROVE  TypeInv'
<1> DEFINE s == adjusting[a].sku
           wh == adjusting[a].wh
<1>1. /\ s \in Skus /\ adjusting[a].level \in Nat /\ Delta(a) \in Int /\ NewTotal(a) \in Int
  BY DeltaTyped DEF AdjustWrite
<1>2. /\ UNCHANGED <<call, lock, effect, book, key, line, received, events>>
      /\ adjusting' = [adjusting EXCEPT ![a] = NotAdjusting]
  BY DEF AdjustWrite
<1>3. /\ adjusting' \in [Adjusters -> [sku: Skus \union {NoSku},
                           wh: Warehouses \union {NoPin}, level: Levels \union {0},
                           total: Int]]
      /\ AdjustmentsHaveSkus'
  BY <1>2, ManualTyped DEF NotAdjusting, AdjustmentsHaveSkus
<1>4. CASE UNCHANGED <<stock, held, manual>>
  <2>1. UNCHANGED <<stock, held, adjusted, raced, keyless>>
    BY <1>4 DEF manual
  <2> QED  BY <1>2, <1>3, <2>1, TablesTyped, ManualTyped, OthersTyped
<1>5. CASE /\ stock' = [stock EXCEPT ![s] = NewTotal(a)]
           /\ held' = [held EXCEPT ![s] =
                         IF wh \in Others THEN [held[s] EXCEPT ![wh] = @ + Delta(a)] ELSE @]
           /\ adjusted' = [adjusted EXCEPT ![s] = @ + Delta(a)]
           /\ raced' = IF stock[s] = adjusting[a].total THEN raced ELSE raced \union {s}
           /\ keyless' = TRUE
  <2>1. stock' \in [Skus -> Int]
    BY <1>1, <1>5, TablesTyped
  <2>2. held' \in [Skus -> [Others -> Int]]
    <3> DEFINE h == IF wh \in Others THEN [held[s] EXCEPT ![wh] = @ + Delta(a)] ELSE held[s]
    <3>1. h \in [Others -> Int]
      BY <1>1, StockTyped
    <3>2. held' = [held EXCEPT ![s] = h]
      BY <1>5
    <3> HIDE DEF h
    <3> QED  BY <3>1, <3>2, TablesTyped
  <2>3. adjusted' \in [Skus -> Int] /\ raced' \subseteq Skus /\ keyless' \in BOOLEAN
    BY <1>1, <1>5, ManualTyped
  <2> QED  BY <1>2, <1>3, <2>1, <2>2, <2>3, TablesTyped, ManualTyped, OthersTyped
<1> QED  BY <1>4, <1>5 DEF AdjustWrite

LEMMA LogSyncTyped ==
  ASSUME TypeInv, LogSync
  PROVE  TypeInv'
<1>1. /\ UNCHANGED <<call, lock, effect, book, key, line, stock, held, adjusting, adjusted,
                     raced, received>>
      /\ keyless' \in BOOLEAN
      /\ events < MaxEvents /\ events' = events + 1
  BY DEF LogSync
<1>2. AdjustmentsHaveSkus'
  BY <1>1, ManualTyped DEF AdjustmentsHaveSkus
<1> QED  BY <1>1, <1>2, TablesTyped, ManualTyped, OthersTyped

LEMMA StepTypeInv == TypeInv /\ [Next]_vars => TypeInv'
<1> SUFFICES ASSUME TypeInv, [Next]_vars PROVE TypeInv'
  OBVIOUS
<1>1. ASSUME NEW c \in Callers, CallerStep(c) PROVE TypeInv'
  BY <1>1, StartTyped, SkipTyped, ReadTyped, AcquireTyped, ProgressTyped, FailShortTyped,
     DeductTyped, RestoreLockTyped, RestoreCommitTyped, UndoneTyped DEF CallerStep
<1>2. CASE \E x \in Slots : LeaseLapses(x) \/ KeyExpires(x)
  BY <1>2, TimeTyped
<1>3. CASE \/ \E l \in Lines, s \in Skus : Bind(l, s)
           \/ \E l \in Lines, q \in Quantities : Resize(l, q)
  BY <1>3, LineTyped
<1>4. CASE \E p \in Purchases : Receive(p)
  BY <1>4, ReceiveTyped
<1>5. CASE \E s \in Skus, from, to \in Warehouses, q \in Quantities : Transfer(s, from, to, q)
  BY <1>5, TransferTyped
<1>6. CASE \E a \in Adjusters, s \in Skus, wh \in Open \union {NoPin}, level \in Levels :
             AdjustRead(a, s, wh, level)
  BY <1>6, AdjustReadTyped
<1>7. CASE \E a \in Adjusters : AdjustWrite(a)
  BY <1>7, AdjustWriteTyped
<1>8. CASE LogSync
  BY <1>8, LogSyncTyped
<1>9. CASE UNCHANGED vars
  BY <1>9 DEF vars, manual, TypeInv, TypeOK, CallsWellFormed, AdjustmentsHaveSkus
<1> QED  BY <1>1, <1>2, <1>3, <1>4, <1>5, <1>6, <1>7, <1>8, <1>9 DEF Next

\* The tables, keys, locks and calls keep their types, whatever orders, callers
\* and warehouses there are.
THEOREM TypeCorrect == Spec => []TypeOK
<1>1. TypeInv => TypeOK
  BY DEF TypeInv
<1> QED  BY InitTypeInv, StepTypeInv, <1>1, PTL DEF Spec

-------------------------------------------------------------------------------
(* Rounds *)

\* What the logs b say was given back of a line, by round and warehouse, and
\* how many rounds that makes
Given(b, l, s) == {x \in Rounds \X Warehouses : b[<<l, s, x[1]>>].gave[x[2]] > 0}

RoundsIn(b, l, s) == Cardinality(Given(b, l, s))

Outstanding(e) == e.deduct = "success" /\ e.restore # "success"

\* One line and SKU of RoundsAlternate, for the logs b and the effect row e
Alternate(b, e, l, s) ==
  /\ Outstanding(e) <=> RoundsIn(b, l, s) \in Rounds /\ b[<<l, s, RoundsIn(b, l, s)>>].deducted
  /\ \A r \in Rounds :
       /\ b[<<l, s, r>>].restored => b[<<l, s, r>>].deducted /\ r < RoundsIn(b, l, s)
       /\ b[<<l, s, r>>].deducted => b[<<l, s, r>>].restored \/ r = RoundsIn(b, l, s)

\* Rows that are not written yet say nothing.
Filled(b) ==
  \A x \in Slots :
    /\ ~b[x].deducted => b[x].took = Nothing
    /\ ~b[x].restored => b[x].gave = Nothing

Here(r) == <<Head(r.rest).line, Head(r.rest).sku, r.round>>

\* The round a deduction goes on with is the one the logs have counted up to,
\* or somebody else has booked it since; the rounds a restore goes on with have
\* been booked.
Hand(b, r) ==
  /\ r.at \in {"acquire", "write"} =>
       r.round = RoundsIn(b, Head(r.rest).line, Head(r.rest).sku) \/ b[Here(r)].deducted
  /\ r.at = "lock" => b[Here(r)].deducted
  /\ \A j \in r.jobs : b[<<j.line, j.sku, j.round>>].deducted

RoundsInv ==
  /\ \A l \in Lines, s \in Skus : Alternate(book, effect[<<l, s>>], l, s)
  /\ Filled(book)
  /\ \A c \in Callers : Hand(book, call[c])

LEMMA RoundsInvImplies == RoundsInv => RoundsAlternate
BY DEF RoundsInv, RoundsAlternate, Alternate, Outstanding, CurrentlyDeducted, RoundsIn,
       Given, RestoreRounds

LEMMA RoundsAreFinite ==
  ASSUME NEW b, NEW l, NEW s
  PROVE  IsFiniteSet(Given(b, l, s)) /\ RoundsIn(b, l, s) \in Nat
<1>1. IsFiniteSet(Rounds)
  BY BoundsAssumption, FS_Interval DEF Rounds
<1>2. IsFiniteSet(Rounds \X Warehouses)
  BY <1>1, WarehousesAreFinite, FS_Product
<1>3. Given(b, l, s) \subseteq Rounds \X Warehouses
  BY DEF Given
<1>4. IsFiniteSet(Given(b, l, s))
  BY <1>2, <1>3, SmallerIsFinite
<1> QED  BY <1>4, FS_CardinalityType DEF RoundsIn

LEMMA SameRounds ==
  ASSUME NEW b, NEW g, NEW l, NEW s,
         \A r \in Rounds : g[<<l, s, r>>].gave = b[<<l, s, r>>].gave
  PROVE  RoundsIn(g, l, s) = RoundsIn(b, l, s)
<1>1. Given(g, l, s) = Given(b, l, s)
  BY DEF Given
<1> QED  BY <1>1 DEF RoundsIn

\* Logs that say the same of a line, and an effect row that does
LEMMA AlternateStays ==
  ASSUME NEW b, NEW g, NEW e, NEW f, NEW l, NEW s, Alternate(b, e, l, s),
         \A r \in Rounds : /\ g[<<l, s, r>>].gave = b[<<l, s, r>>].gave
                           /\ g[<<l, s, r>>].deducted = b[<<l, s, r>>].deducted
                           /\ g[<<l, s, r>>].restored = b[<<l, s, r>>].restored,
         Outstanding(f) <=> Outstanding(e)
  PROVE  Alternate(g, f, l, s)
<1>1. RoundsIn(g, l, s) = RoundsIn(b, l, s)
  BY SameRounds
<1> QED  BY <1>1 DEF Alternate

\* The logs g come after the logs b.
After(b, g) ==
  /\ \A x \in Slots : b[x].deducted => g[x].deducted
  /\ \A l \in Lines, s \in Skus :
       \/ RoundsIn(g, l, s) = RoundsIn(b, l, s)
       \/ \A r \in Rounds : r = RoundsIn(b, l, s) => g[<<l, s, r>>].deducted

LEMMA HandStays ==
  ASSUME NEW b, NEW g, After(b, g), NEW r \in CallRows, WellFormed(r), Hand(b, r)
  PROVE  Hand(g, r)
<1>1. ASSUME r.at \in {"acquire", "write", "lock"}
      PROVE  Head(r.rest).line \in Lines /\ Head(r.rest).sku \in Skus /\ Here(r) \in Slots
  <2>1. r.rest # <<>> /\ Head(r.rest).sku \in Skus /\ r.rest \in Seq(Items) /\ r.round \in Rounds
    BY <1>1 DEF WellFormed, CallRows
  <2>2. Head(r.rest) \in Items
    BY <2>1
  <2> QED  BY <2>1, <2>2 DEF Items, Slots, Here
<1>2. \A j \in r.jobs : <<j.line, j.sku, j.round>> \in Slots
  BY DEF CallRows, Jobs, Slots
<1>3. \A j \in r.jobs : g[<<j.line, j.sku, j.round>>].deducted
  BY <1>2 DEF Hand, After
<1>4. r.at = "lock" => g[Here(r)].deducted
  BY <1>1 DEF Hand, After
<1>5. ASSUME r.at \in {"acquire", "write"}
      PROVE  r.round = RoundsIn(g, Head(r.rest).line, Head(r.rest).sku) \/ g[Here(r)].deducted
  <2>1. CASE b[Here(r)].deducted
    BY <1>1, <1>5, <2>1 DEF After
  <2>2. CASE ~b[Here(r)].deducted
    <3>1. r.round = RoundsIn(b, Head(r.rest).line, Head(r.rest).sku) /\ r.round \in Rounds
      BY <1>5, <2>2 DEF Hand, CallRows
    <3> QED  BY <1>1, <1>5, <3>1 DEF After, Here
  <2> QED  BY <2>1, <2>2
<1> QED  BY <1>3, <1>4, <1>5 DEF Hand

LEMMA InitRoundsInv == Init => RoundsInv
<1> SUFFICES ASSUME Init PROVE RoundsInv
  OBVIOUS
<1>1. \A x \in Slots : /\ book[x].deducted = FALSE /\ book[x].restored = FALSE
                       /\ book[x].took = Nothing /\ book[x].gave = Nothing
  BY DEF Init, Blank
<1>2. \A l \in Lines, s \in Skus : effect[<<l, s>>].deduct = "none"
  BY DEF Init, NoEffect
<1>3. \A c \in Callers : call[c].at = "idle" /\ call[c].jobs = {}
  BY DEF Init, Idle
<1>4. \A l \in Lines, s \in Skus, r \in Rounds : <<l, s, r>> \in Slots
  BY DEF Slots
<1>5. \A l \in Lines, s \in Skus : Alternate(book, effect[<<l, s>>], l, s)
  BY <1>1, <1>2, <1>4 DEF Alternate, Outstanding
<1> QED  BY <1>1, <1>3, <1>5 DEF RoundsInv, Filled, Hand

\* A step of a call that writes no log, and no effect that matters here
LEMMA OnlyHandMoves ==
  ASSUME TypeInv, RoundsInv, NEW c \in Callers, NEW r, Hand(book, r),
         call' = [call EXCEPT ![c] = r], book' = book,
         \A l \in Lines, s \in Skus :
           Outstanding(effect'[<<l, s>>]) <=> Outstanding(effect[<<l, s>>])
  PROVE  RoundsInv'
<1>1. \A l \in Lines, s \in Skus : Alternate(book, effect'[<<l, s>>], l, s)
  BY AlternateStays DEF RoundsInv
<1>2. \A d \in Callers : Hand(book, call'[d])
  <2>1. call \in [Callers -> CallRows]
    BY DEF TypeInv, TypeOK, CallRows
  <2> QED  BY <2>1 DEF RoundsInv
<1>3. Filled(book)
  BY DEF RoundsInv
<1> QED  BY <1>1, <1>2, <1>3 DEF RoundsInv

LEMMA IdleHand == \A b : Hand(b, Idle)
BY DEF Hand, Idle

LEMMA NextLineHand ==
  ASSUME TypeInv, NEW c \in Callers, NEW b, Hand(b, call[c])
  PROVE  Hand(b, NextLine(c))
<1>1. CASE Tail(call[c].rest) = <<>>
  BY <1>1, IdleHand DEF NextLine
<1>2. CASE Tail(call[c].rest) # <<>>
  <2> DEFINE r == [call[c] EXCEPT !.at = "read", !.rest = Tail(@), !.round = 0]
  <2>1. NextLine(c) = r
    BY <1>2 DEF NextLine
  <2>2. r.at = "read" /\ r.jobs = call[c].jobs
    BY CallTypes DEF CallRows
  <2> HIDE DEF r
  <2> QED  BY <2>1, <2>2 DEF Hand
<1> QED  BY <1>1, <1>2

\* The steps of a call that write no log
LEMMA QuietRounds ==
  ASSUME TypeInv, RoundsInv, NEW c \in Callers, CallerStep(c),
         ~DeductStock(c), ~RestoreCommit(c)
  PROVE  RoundsInv'
<1>1. Hand(book, call[c]) /\ call[c] \in CallRows /\ WellFormed(call[c])
  BY CallTypes DEF RoundsInv
<1>2. Hand(book, Idle) /\ Hand(book, NextLine(c))
  BY <1>1, IdleHand, NextLineHand
<1>3. CASE \E o \in Orders : StartRestore(c, o) \/ \E opts \in Options : StartDeduct(c, o, opts)
  <2>1. PICK o \in Orders : StartRestore(c, o) \/ \E opts \in Options : StartDeduct(c, o, opts)
    BY <1>3
  <2>2. PICK r : /\ call' = [call EXCEPT ![c] = r]
                 /\ r.at = "read" /\ r.jobs = {}
                 /\ book' = book /\ effect' = effect
    <3>1. CASE StartRestore(c, o)
      <4> DEFINE r == [Idle EXCEPT !.op = "restore", !.at = "read", !.rest = Loaded(o)]
      <4>1. r.at = "read" /\ r.jobs = {}
        BY DEF Idle
      <4>2. call' = [call EXCEPT ![c] = r] /\ book' = book /\ effect' = effect
        BY <3>1 DEF StartRestore
      <4> QED  BY <4>1, <4>2
    <3>2. ASSUME NEW opts \in Options, StartDeduct(c, o, opts)
          PROVE  \E r : /\ call' = [call EXCEPT ![c] = r]
                        /\ r.at = "read" /\ r.jobs = {}
                        /\ book' = book /\ effect' = effect
      <4> DEFINE r == [Idle EXCEPT !.op = "deduct", !.at = "read", !.rest = Loaded(o),
                                   !.opts = opts]
      <4>1. r.at = "read" /\ r.jobs = {}
        BY DEF Idle
      <4>2. call' = [call EXCEPT ![c] = r] /\ book' = book /\ effect' = effect
        BY <3>2 DEF StartDeduct
      <4> QED  BY <4>1, <4>2
    <3> QED  BY <2>1, <3>1, <3>2
  <2>3. Hand(book, r)
    BY <2>2 DEF Hand
  <2> QED  BY <2>2, <2>3, OnlyHandMoves
<1>4. CASE SkipUnbound(c)
  <2>1. Item(c).line \in Lines
    BY <1>4, CallTypes, ItemTyped DEF SkipUnbound, At, WellFormed
  <2>2. \A l \in Lines, s \in Skus : effect'[<<l, s>>] = effect[<<l, s>>]
    BY <1>4, NamesAssumption, TablesTyped DEF SkipUnbound
  <2> QED  BY <1>2, <1>4, <2>2, OnlyHandMoves DEF SkipUnbound
<1>5. CASE ReadLine(c)
  <2> DEFINE n == RestoreRounds(Item(c).line, Item(c).sku)
             r == [call[c] EXCEPT !.at = "acquire", !.round = n]
  <2>1. CASE CurrentlyDeducted(Item(c).line, Item(c).sku)
    BY <1>2, <1>5, <2>1, OnlyHandMoves DEF ReadLine
  <2>2. CASE ~CurrentlyDeducted(Item(c).line, Item(c).sku)
    <3>1. call' = [call EXCEPT ![c] = r] /\ book' = book /\ effect' = effect
      BY <1>5, <2>2 DEF ReadLine
    <3>2. n = RoundsIn(book, Item(c).line, Item(c).sku)
      BY DEF RestoreRounds, RoundsIn, Given
    <3>3. r.at = "acquire" /\ r.round = n /\ r.rest = call[c].rest /\ r.jobs = call[c].jobs
      BY <1>1 DEF CallRows
    <3> HIDE DEF r, n
    <3>4. Hand(book, r)
      BY <1>1, <3>2, <3>3 DEF Hand, Item
    <3> QED  BY <3>1, <3>4, OnlyHandMoves
  <2> QED  BY <2>1, <2>2
<1>6. CASE Acquire(c) \/ PassExpired(c)
  <2> DEFINE r == [call[c] EXCEPT !.at = "write"]
  <2>1. call' = [call EXCEPT ![c] = r] /\ book' = book /\ effect' = effect /\ call[c].at = "acquire"
    BY <1>6 DEF Acquire, PassExpired, At
  <2>2. /\ r.at = "write" /\ r.round = call[c].round /\ r.rest = call[c].rest
        /\ r.jobs = call[c].jobs
    BY <1>1 DEF CallRows
  <2> HIDE DEF r
  <2>3. Hand(book, r)
    BY <1>1, <2>1, <2>2 DEF Hand, Here
  <2> QED  BY <2>1, <2>3, OnlyHandMoves
<1>7. CASE Replay(c)
  BY <1>2, <1>7, OnlyHandMoves DEF Replay
<1>8. CASE Busy(c) \/ Leave(c) \/ WriteRefused(c) \/ RestoreRefused(c) \/ Abort(c)
  BY <1>2, <1>8, OnlyHandMoves DEF Busy, Leave, WriteRefused, RestoreRefused, Abort
<1>9. CASE Conflict(c)
  <2> DEFINE r == [call[c] EXCEPT !.at = "refused"]
  <2>1. call' = [call EXCEPT ![c] = r] /\ book' = book /\ effect' = effect
    BY <1>9 DEF Conflict
  <2>2. r.at = "refused" /\ r.jobs = call[c].jobs
    BY <1>1 DEF CallRows
  <2> HIDE DEF r
  <2>3. Hand(book, r)
    BY <1>1, <2>2 DEF Hand
  <2> QED  BY <2>1, <2>3, OnlyHandMoves
<1>10. CASE FailShort(c)
  <2>1. call' = [call EXCEPT ![c] = NextLine(c)] /\ book' = book
    BY <1>10 DEF FailShort
  <2>2. \A l \in Lines, s \in Skus :
          Outstanding(effect'[<<l, s>>]) <=> Outstanding(effect[<<l, s>>])
    <3> DEFINE x == <<Item(c).line, Item(c).sku>>
    <3>1. CASE effect' = effect
      BY <3>1
    <3>2. CASE /\ effect[x].deduct # "success"
               /\ effect' = [effect EXCEPT ![x] = [effect[x] EXCEPT !.deduct = "failed"]]
      <4>1. \A y \in Lines \X (Skus \union {NoSku}) :
              effect'[y] = IF y = x THEN [effect[x] EXCEPT !.deduct = "failed"] ELSE effect[y]
        BY <3>2, TablesTyped
      <4>2. x \in Lines \X (Skus \union {NoSku})
        BY <1>10, SlotTyped DEF FailShort, At
      <4>3. [effect[x] EXCEPT !.deduct = "failed"].deduct = "failed"
        BY <4>2, TablesTyped DEF Effects
      <4> QED  BY <3>2, <4>1, <4>3 DEF Outstanding
    <3> QED  BY <1>10, <3>1, <3>2 DEF FailShort
  <2> QED  BY <1>2, <2>1, <2>2, OnlyHandMoves
<1>11. CASE RestoreRead(c)
  <2> DEFINE n == RestoreRounds(Item(c).line, Item(c).sku)
             l == Item(c).line
             s == Item(c).sku
  <2>1. CASE s # NoSku /\ CurrentlyDeducted(l, s)
    <3> DEFINE r == [call[c] EXCEPT !.at = "lock", !.round = n]
    <3>1. n \in Rounds /\ call' = [call EXCEPT ![c] = r] /\ book' = book /\ effect' = effect
      BY <1>11, <2>1 DEF RestoreRead
    <3>2. n = RoundsIn(book, l, s)
      BY DEF RestoreRounds, RoundsIn, Given
    <3>3. /\ r.at = "lock" /\ r.round = n /\ r.rest = call[c].rest /\ r.jobs = call[c].jobs
      BY <1>1 DEF CallRows
    <3>4. l \in Lines /\ s \in Skus
      BY <1>11, <2>1, ItemTyped DEF RestoreRead
    <3>5. Outstanding(effect[<<l, s>>])
      BY <2>1 DEF Outstanding, CurrentlyDeducted
    <3> HIDE DEF r, n
    <3>6. book[<<l, s, n>>].deducted
      BY <3>1, <3>2, <3>4, <3>5 DEF RoundsInv, Alternate
    <3>7. Hand(book, r)
      BY <1>1, <3>3, <3>6 DEF Hand, Item, Here
    <3> QED  BY <3>1, <3>7, OnlyHandMoves
  <2>2. CASE ~(s # NoSku /\ CurrentlyDeducted(l, s))
    <3> DEFINE r == [call[c] EXCEPT !.rest = Tail(@)]
    <3>1. call' = [call EXCEPT ![c] = r] /\ book' = book /\ effect' = effect
      BY <1>11, <2>2 DEF RestoreRead
    <3>2. r.at = "read" /\ r.jobs = call[c].jobs
      BY <1>1, <1>11 DEF CallRows, RestoreRead, At
    <3> HIDE DEF r
    <3>3. Hand(book, r)
      BY <1>1, <3>2 DEF Hand
    <3> QED  BY <3>1, <3>3, OnlyHandMoves
  <2> QED  BY <2>1, <2>2
<1>12. CASE RestoreLock(c)
  <2> DEFINE j == [line |-> Item(c).line, sku |-> Item(c).sku, qty |-> Item(c).qty,
                   round |-> call[c].round]
             r == [call[c] EXCEPT !.at = "read", !.rest = Tail(@), !.jobs = @ \union {j}]
  <2>1. call' = [call EXCEPT ![c] = r] /\ book' = book /\ effect' = effect /\ call[c].at = "lock"
    BY <1>12 DEF RestoreLock, At
  <2>2. r.at = "read" /\ r.jobs = call[c].jobs \union {j}
    BY <1>1 DEF CallRows
  <2>3. <<j.line, j.sku, j.round>> = Here(call[c])
    BY DEF Here, Item
  <2> HIDE DEF r, j
  <2>4. Hand(book, r)
    BY <1>1, <2>1, <2>2, <2>3 DEF Hand
  <2> QED  BY <2>1, <2>4, OnlyHandMoves
<1> QED
  BY <1>3, <1>4, <1>5, <1>6, <1>7, <1>8, <1>9, <1>10, <1>11, <1>12 DEF CallerStep

\* A deduction books the round the logs have counted up to.
LEMMA DeductRounds ==
  ASSUME TypeInv, RoundsInv, NEW c \in Callers, DeductStock(c)
  PROVE  RoundsInv'
<1> DEFINE l == Item(c).line
           s == Item(c).sku
           n == call[c].round
           x == <<l, s, n>>
           took == Allocation(s, Item(c).qty, call[c].opts.pin)
<1>1. /\ call[c].rest # <<>> /\ l \in Lines /\ s \in Skus /\ n \in Rounds /\ x \in Slots
      /\ took \in [Warehouses -> Int]
      /\ effect' = [effect EXCEPT ![<<l, s>>] = AfterDeduct(l, s)]
      /\ book' = [book EXCEPT ![x] = [book[x] EXCEPT !.deducted = TRUE, !.took = took]]
      /\ call' = [call EXCEPT ![c] = NextLine(c)]
      /\ ~book[x].deducted
  BY DeductFacts
<1>2. Hand(book, call[c]) /\ call[c] \in CallRows /\ call[c].at = "write"
  BY CallTypes DEF RoundsInv, DeductStock, At
<1>3. Here(call[c]) = x /\ Head(call[c].rest).line = l /\ Head(call[c].rest).sku = s
  BY DEF Here, Item
<1> HIDE DEF l, s, n, took
<1>4. n = RoundsIn(book, l, s)
  BY <1>1, <1>2, <1>3 DEF Hand, n
<1>5. /\ \A y \in Slots \ {x} : book'[y] = book[y]
      /\ book'[x].deducted = TRUE /\ book'[x].took = took
      /\ book'[x].gave = book[x].gave /\ book'[x].restored = book[x].restored
  BY <1>1, TablesTyped DEF Entries
<1>6. \A k \in Lines, t \in Skus : RoundsIn(book', k, t) = RoundsIn(book, k, t)
  <2>1. \A k \in Lines, t \in Skus, r \in Rounds : book'[<<k, t, r>>].gave = book[<<k, t, r>>].gave
    BY <1>5 DEF Slots
  <2> QED  BY <2>1, SameRounds
<1>7. After(book, book')
  <2>1. \A y \in Slots : book[y].deducted => book'[y].deducted
    BY <1>5
  <2> QED  BY <1>6, <2>1 DEF After
<1>8. Filled(book')
  BY <1>5 DEF Filled, RoundsInv
<1>9. ASSUME NEW k \in Lines, NEW t \in Skus PROVE Alternate(book', effect'[<<k, t>>], k, t)
  <2>1. Alternate(book, effect[<<k, t>>], k, t)
    BY DEF RoundsInv
  <2>2. CASE k = l /\ t = s
    <3>1. effect'[<<k, t>>] = AfterDeduct(l, s)
      BY <1>1, <2>2, TablesTyped
    <3>2. Outstanding(effect'[<<k, t>>])
      BY <3>1 DEF AfterDeduct, Outstanding
    <3>3. ASSUME NEW r \in Rounds
          PROVE  /\ book'[<<k, t, r>>].restored = book[<<k, t, r>>].restored
                 /\ r # n => book'[<<k, t, r>>].deducted = book[<<k, t, r>>].deducted
                 /\ r = n => book'[<<k, t, r>>].deducted
      <4>1. CASE r = n
        BY <1>5, <2>2, <4>1
      <4>2. CASE r # n
        BY <1>5, <4>2 DEF Slots
      <4> QED  BY <4>1, <4>2
    <3>4. RoundsIn(book', k, t) = n /\ RoundsIn(book, k, t) = n
      BY <1>4, <1>6, <2>2
    <3> QED  BY <1>1, <2>1, <3>2, <3>3, <3>4 DEF Alternate
  <2>3. CASE k # l \/ t # s
    <3>1. effect'[<<k, t>>] = effect[<<k, t>>]
      BY <1>1, <2>3, TablesTyped
    <3>2. \A r \in Rounds : book'[<<k, t, r>>] = book[<<k, t, r>>]
      BY <1>5, <2>3 DEF Slots
    <3> QED  BY <2>1, <3>1, <3>2, AlternateStays
  <2> QED  BY <2>2, <2>3
<1>10. ASSUME NEW d \in Callers PROVE Hand(book', call'[d])
  <2>1. \A e \in Callers : Hand(book', call[e])
    BY <1>7, CallTypes, HandStays DEF RoundsInv
  <2>2. Hand(book', NextLine(c))
    BY <2>1, NextLineHand
  <2>3. call \in [Callers -> CallRows]
    BY DEF TypeInv, TypeOK, CallRows
  <2> QED  BY <1>1, <2>1, <2>2, <2>3
<1> QED  BY <1>8, <1>9, <1>10 DEF RoundsInv

\* A function with a sum above zero is above zero somewhere.
LEMMA SomewherePositive ==
  ASSUME NEW f \in [Warehouses -> Int], Total(f) > 0
  PROVE  \E w \in Warehouses : f[w] > 0
<1>1. Total(f) = SumFunctionOnSet(f, Warehouses)
  BY TotalIsSum
<1> SUFFICES ASSUME \A w \in Warehouses : ~(f[w] > 0) PROVE FALSE
  OBVIOUS
<1>2. \A w \in Warehouses : f[w] \in Int /\ f[w] <= 0
  OBVIOUS
<1>3. SumFunctionOnSet(f, Warehouses) <= 0
  BY <1>2, WarehousesAreFinite, SumNotPositive
<1> QED  BY <1>1, <1>3, TotalOfAll

\* All the jobs of a restore that commits are of the outstanding round.
LEMMA JobIsOutstanding ==
  ASSUME TypeInv, RoundsInv, NEW c \in Callers, RestoreCommit(c), NEW j \in call[c].jobs
  PROVE  /\ j.line \in Lines /\ j.sku \in Skus /\ j.round \in Rounds
         /\ j.round = RoundsIn(book, j.line, j.sku)
         /\ book[<<j.line, j.sku, j.round>>].deducted
         /\ ~book[<<j.line, j.sku, j.round>>].restored
         /\ Outstanding(effect[<<j.line, j.sku>>])
<1>1. j.line \in Lines /\ j.sku \in Skus /\ j.round \in Rounds
  BY JobTyped
<1>2. book[<<j.line, j.sku, j.round>>].deducted
  BY DEF RoundsInv, Hand
<1>3. ~book[<<j.line, j.sku, j.round>>].restored
  BY RestoreFacts DEF Restorable
<1>4. Alternate(book, effect[<<j.line, j.sku>>], j.line, j.sku)
  BY <1>1 DEF RoundsInv
<1>5. j.round = RoundsIn(book, j.line, j.sku)
  BY <1>1, <1>2, <1>3, <1>4 DEF Alternate
<1> QED  BY <1>1, <1>2, <1>3, <1>4, <1>5 DEF Alternate

\* What a restore makes of a row of the book
LEMMA RestoredRow ==
  ASSUME TypeInv, NEW c \in Callers, RestoreCommit(c), NEW x \in Slots
  PROVE  /\ book'[x].deducted = book[x].deducted /\ book'[x].took = book[x].took
         /\ JobsIn(c, x) = {} => book'[x] = book[x]
         /\ JobsIn(c, x) # {} =>
              /\ book'[x].restored
              /\ \E j \in JobsIn(c, x) : book'[x].gave = GivenBack(j)
<1>1. book'[x] = IF JobsIn(c, x) = {} THEN book[x]
                 ELSE [book[x] EXCEPT !.restored = TRUE,
                         !.gave = GivenBack(CHOOSE j \in JobsIn(c, x) : TRUE)]
  BY RestoreFacts
<1>2. book[x] \in Entries
  BY TablesTyped
<1>3. CASE JobsIn(c, x) = {}
  BY <1>1, <1>3
<1>4. CASE JobsIn(c, x) # {}
  <2> DEFINE j == CHOOSE i \in JobsIn(c, x) : TRUE
  <2>1. j \in JobsIn(c, x)
    BY <1>4
  <2> HIDE DEF j
  <2>2. book'[x] = [book[x] EXCEPT !.restored = TRUE, !.gave = GivenBack(j)]
    BY <1>1, <1>4 DEF j
  <2>3. /\ book'[x].deducted = book[x].deducted /\ book'[x].took = book[x].took
        /\ book'[x].restored /\ book'[x].gave = GivenBack(j)
    BY <1>2, <2>2 DEF Entries
  <2> QED  BY <1>4, <2>1, <2>3
<1> QED  BY <1>3, <1>4

\* A restore leaves a log at least in the round it gives back.
LEMMA RestoreCounts ==
  ASSUME TypeInv, RoundsInv, NEW c \in Callers, RestoreCommit(c),
         NEW l \in Lines, NEW s \in Skus, JobsOf(c, <<l, s>>) # {}
  PROVE  /\ RoundsIn(book, l, s) \in Rounds
         /\ RoundsIn(book', l, s) > RoundsIn(book, l, s)
         /\ JobsIn(c, <<l, s, RoundsIn(book, l, s)>>) # {}
         /\ \A r \in Rounds \ {RoundsIn(book, l, s)} : JobsIn(c, <<l, s, r>>) = {}
<1> DEFINE n == RoundsIn(book, l, s)
           x == <<l, s, n>>
<1>1. \A j \in JobsOf(c, <<l, s>>) :
        /\ j \in call[c].jobs /\ j.line = l /\ j.sku = s
        /\ j.round = n /\ n \in Rounds /\ ~book[x].restored
  BY JobIsOutstanding DEF JobsOf
<1>2. n \in Rounds /\ ~book[x].restored /\ x \in Slots
  BY <1>1 DEF Slots
<1>3. JobsIn(c, x) # {} /\ \A r \in Rounds \ {n} : JobsIn(c, <<l, s, r>>) = {}
  BY <1>1 DEF JobsIn, JobsOf
<1>4. PICK j \in JobsIn(c, x) : book'[x].gave = GivenBack(j)
  BY <1>2, <1>3, RestoredRow
<1>5. GivenBack(j) \in [Warehouses -> Int] /\ Total(GivenBack(j)) > 0
  <2>1. j \in call[c].jobs
    BY <1>4 DEF JobsIn, JobsOf
  <2> QED  BY <2>1, GivesBack, JobTyped
<1>6. PICK w \in Warehouses : GivenBack(j)[w] > 0
  BY <1>5, SomewherePositive
<1>7. <<n, w>> \in Given(book', l, s)
  BY <1>2, <1>4, <1>6 DEF Given
<1>8. book[x].gave = Nothing
  BY <1>2 DEF RoundsInv, Filled
<1>9. <<n, w>> \notin Given(book, l, s)
  <2>1. ~(Nothing[w] > 0)
    BY DEF Nothing
  <2> QED  BY <1>8, <2>1 DEF Given
<1>10. Given(book, l, s) \subseteq Given(book', l, s)
  <2>1. ASSUME NEW r \in Rounds, NEW v \in Warehouses, book[<<l, s, r>>].gave[v] > 0
        PROVE  book'[<<l, s, r>>].gave = book[<<l, s, r>>].gave
    <3>1. r # n
      <4>1. ~(Nothing[v] > 0)
        BY DEF Nothing
      <4> QED  BY <1>8, <2>1, <4>1
    <3>2. <<l, s, r>> \in Slots
      BY DEF Slots
    <3> QED  BY <1>3, <3>1, <3>2, RestoredRow
  <2> QED  BY <2>1 DEF Given
<1>11. Cardinality(Given(book, l, s)) < Cardinality(Given(book', l, s))
  <2>1. IsFiniteSet(Given(book', l, s))
    BY RoundsAreFinite
  <2>2. Given(book, l, s) # Given(book', l, s)
    BY <1>7, <1>9
  <2>3. Cardinality(Given(book, l, s)) \in Nat /\ Cardinality(Given(book', l, s)) \in Nat
    BY RoundsAreFinite DEF RoundsIn
  <2> QED  BY <1>10, <2>1, <2>2, <2>3, FS_Subset
<1> QED  BY <1>2, <1>3, <1>11, RoundsAreFinite DEF RoundsIn

LEMMA RestoreRoundsStep ==
  ASSUME TypeInv, RoundsInv, NEW c \in Callers, RestoreCommit(c)
  PROVE  RoundsInv'
<1>1. After(book, book')
  <2>1. \A x \in Slots : book'[x].deducted = book[x].deducted
    BY RestoredRow
  <2>2. ASSUME NEW l \in Lines, NEW s \in Skus
        PROVE  \/ RoundsIn(book', l, s) = RoundsIn(book, l, s)
               \/ \A r \in Rounds : r = RoundsIn(book, l, s) => book'[<<l, s, r>>].deducted
    <3>1. CASE JobsOf(c, <<l, s>>) = {}
      <4>1. \A r \in Rounds : <<l, s, r>> \in Slots /\ JobsIn(c, <<l, s, r>>) = {}
        BY <3>1 DEF JobsIn, JobsOf, Slots
      <4>2. \A r \in Rounds : book'[<<l, s, r>>].gave = book[<<l, s, r>>].gave
        BY <4>1, RestoredRow
      <4> QED  BY <4>2, SameRounds
    <3>2. CASE JobsOf(c, <<l, s>>) # {}
      <4>1. PICK j \in call[c].jobs : j.line = l /\ j.sku = s
        BY <3>2 DEF JobsOf
      <4>2. j.round = RoundsIn(book, l, s) /\ book[<<l, s, j.round>>].deducted /\ j.round \in Rounds
        BY <4>1, JobIsOutstanding
      <4>3. book'[<<l, s, j.round>>].deducted
        BY <2>1, <4>2 DEF Slots
      <4> QED  BY <4>2, <4>3
    <3> QED  BY <3>1, <3>2
  <2> QED  BY <2>1, <2>2 DEF After
<1>2. Filled(book')
  <2>1. ASSUME NEW x \in Slots
        PROVE  /\ ~book'[x].deducted => book'[x].took = Nothing
               /\ ~book'[x].restored => book'[x].gave = Nothing
    BY RestoredRow DEF RoundsInv, Filled
  <2> QED  BY <2>1 DEF Filled
<1>3. ASSUME NEW d \in Callers PROVE Hand(book', call'[d])
  <2>1. \A e \in Callers : Hand(book', call[e])
    BY <1>1, CallTypes, HandStays DEF RoundsInv
  <2>2. call \in [Callers -> CallRows] /\ call' = [call EXCEPT ![c] = Idle]
    BY RestoreFacts DEF TypeInv, TypeOK, CallRows
  <2> QED  BY <2>1, <2>2, IdleHand
<1>4. ASSUME NEW l \in Lines, NEW s \in Skus PROVE Alternate(book', effect'[<<l, s>>], l, s)
  <2> DEFINE e == effect[<<l, s>>]
             f == effect'[<<l, s>>]
             n == RoundsIn(book, l, s)
             m == RoundsIn(book', l, s)
  <2>1. Alternate(book, e, l, s)
    BY DEF RoundsInv
  <2>2. \A r \in Rounds : <<l, s, r>> \in Slots
    BY DEF Slots
  <2>3. f = IF JobsOf(c, <<l, s>>) = {} THEN e ELSE [e EXCEPT !.restore = "success"]
    <3>1. <<l, s>> \in Lines \X (Skus \union {NoSku})
      OBVIOUS
    <3>2. effect' = [x \in Lines \X (Skus \union {NoSku}) |->
                       IF JobsOf(c, x) = {} THEN effect[x]
                       ELSE [effect[x] EXCEPT !.restore = "success"]]
      BY RestoreFacts
    <3> QED  BY <3>1, <3>2, Zenon
  <2>4. CASE JobsOf(c, <<l, s>>) = {}
    <3>1. \A r \in Rounds : JobsIn(c, <<l, s, r>>) = {}
      BY <2>4 DEF JobsIn, JobsOf
    <3>2. \A r \in Rounds : book'[<<l, s, r>>] = book[<<l, s, r>>]
      BY <2>2, <3>1, RestoredRow
    <3> QED  BY <2>1, <2>3, <2>4, <3>2, AlternateStays
  <2>5. CASE JobsOf(c, <<l, s>>) # {}
    <3>1. /\ n \in Rounds /\ m > n /\ JobsIn(c, <<l, s, n>>) # {}
          /\ \A r \in Rounds \ {n} : JobsIn(c, <<l, s, r>>) = {}
      BY <2>5, RestoreCounts
    <3>2. \A r \in Rounds \ {n} : book'[<<l, s, r>>] = book[<<l, s, r>>]
      BY <2>2, <3>1, RestoredRow
    <3>3. /\ book'[<<l, s, n>>].restored
          /\ \A r \in Rounds : book'[<<l, s, r>>].deducted = book[<<l, s, r>>].deducted
      BY <2>2, <3>1, RestoredRow
    <3>4. book[<<l, s, n>>].deducted
      <4>1. PICK j \in call[c].jobs : j.line = l /\ j.sku = s
        BY <2>5 DEF JobsOf
      <4> QED  BY <4>1, JobIsOutstanding
    <3>5. ~Outstanding(f)
      <4>1. e \in Effects
        BY TablesTyped
      <4>2. f.restore = "success"
        BY <2>3, <2>5, <4>1 DEF Effects
      <4> QED  BY <4>2 DEF Outstanding
    <3>6. n \in Nat /\ m \in Nat /\ Rounds \subseteq Nat
      BY RoundsAreFinite DEF Rounds
    <3> HIDE DEF n, m, f, e
    <3>7. ASSUME NEW r \in Rounds
          PROVE  /\ book'[<<l, s, r>>].restored => book'[<<l, s, r>>].deducted /\ r < m
                 /\ book'[<<l, s, r>>].deducted => book'[<<l, s, r>>].restored \/ r = m
      <4>1. /\ book[<<l, s, r>>].restored => book[<<l, s, r>>].deducted /\ r < n
            /\ book[<<l, s, r>>].deducted => book[<<l, s, r>>].restored \/ r = n
        BY <2>1 DEF Alternate, n
      <4>2. CASE r = n
        BY <3>1, <3>3, <3>4, <4>2
      <4>3. CASE r # n
        BY <3>1, <3>2, <3>6, <4>1, <4>3
      <4> QED  BY <4>2, <4>3
    <3>8. ~(m \in Rounds /\ book'[<<l, s, m>>].deducted)
      <4>1. SUFFICES ASSUME m \in Rounds, book[<<l, s, m>>].deducted PROVE FALSE
        BY <3>3
      <4>2. m # n /\ ~(m < n)
        BY <3>1, <3>6
      <4> QED  BY <2>1, <4>1, <4>2 DEF Alternate, n
    <3> QED  BY <3>5, <3>7, <3>8 DEF Alternate, m, f
  <2> QED  BY <2>4, <2>5
<1> QED  BY <1>2, <1>3, <1>4 DEF RoundsInv

LEMMA StepRoundsInv == TypeInv /\ RoundsInv /\ [Next]_vars => RoundsInv'
<1> SUFFICES ASSUME TypeInv, RoundsInv, [Next]_vars PROVE RoundsInv'
  OBVIOUS
<1>1. ASSUME NEW c \in Callers, CallerStep(c) PROVE RoundsInv'
  BY <1>1, QuietRounds, DeductRounds, RestoreRoundsStep
<1>2. CASE UNCHANGED <<book, effect, call>>
  BY <1>2 DEF RoundsInv
<1>3. CASE \/ \E x \in Slots : LeaseLapses(x) \/ KeyExpires(x)
           \/ \E l \in Lines, s \in Skus : Bind(l, s)
           \/ \E l \in Lines, q \in Quantities : Resize(l, q)
           \/ \E p \in Purchases : Receive(p)
           \/ \E s \in Skus, from, to \in Warehouses, q \in Quantities : Transfer(s, from, to, q)
           \/ \E a \in Adjusters, s \in Skus, wh \in Open \union {NoPin}, level \in Levels :
                AdjustRead(a, s, wh, level)
           \/ \E a \in Adjusters : AdjustWrite(a)
           \/ LogSync
  <2>1. UNCHANGED <<book, effect, call>>
    BY <1>3 DEF LeaseLapses, KeyExpires, Bind, Resize, Receive, Transfer, AdjustRead,
                AdjustWrite, LogSync
  <2> QED  BY <1>2, <2>1
<1>4. CASE UNCHANGED vars
  BY <1>2, <1>4 DEF vars
<1> QED  BY <1>1, <1>3, <1>4 DEF Next

\* What a round took is given back before another round takes anything, and a
\* round is outstanding exactly if the effect rows say so, whatever was read
\* before a lock (loadLineEffectState, the unique event keys).
THEOREM RoundsDoAlternate == Spec => []RoundsAlternate
BY InitTypeInv, StepTypeInv, InitRoundsInv, StepRoundsInv, RoundsInvImplies, PTL DEF Spec

-------------------------------------------------------------------------------
(* Stock *)

\* Nobody may ask for stock that is not there.
NoNegatives == \A o \in Options : ~o.neg

LEMMA NobodyOversells ==
  ASSUME TypeInv, NoNegatives, NEW c \in Callers
  PROVE  ~call[c].opts.neg
BY OptionsTyped DEF NoNegatives

LEMMA InitNoOversell == Init => NoOversell
BY BoundsAssumption DEF Init, NoOversell

LEMMA StepNoOversell == TypeInv /\ NoOversell /\ [Next]_vars => NoOversell'
<1> SUFFICES ASSUME TypeInv, NoOversell, [Next]_vars, NoNegatives
             PROVE  \A s \in Skus : stock'[s] >= 0
  BY DEF NoOversell, NoNegatives
<1>1. \A s \in Skus : stock[s] >= 0 /\ stock[s] \in Int
  BY TablesTyped DEF NoOversell, NoNegatives
<1>2. CASE UNCHANGED stock
  BY <1>1, <1>2
<1>3. ASSUME NEW c \in Callers, DeductStock(c) PROVE \A s \in Skus : stock'[s] >= 0
  <2> DEFINE s == Item(c).sku
             q == Item(c).qty
  <2>1. stock' = [stock EXCEPT ![s] = @ - q] /\ s \in Skus /\ q \in Nat
    BY <1>3, DeductFacts
  <2>2. stock[s] >= q
    <3>1. ~(stock[s] < q)
      BY <1>3, NobodyOversells DEF DeductStock, Short
    <3> QED  BY <1>1, <2>1, <3>1
  <2> HIDE DEF s, q
  <2> QED  BY <1>1, <2>1, <2>2, TablesTyped
<1>4. ASSUME NEW c \in Callers, RestoreCommit(c) PROVE \A s \in Skus : stock'[s] >= 0
  <2> DEFINE q(s) == Total([j \in {j \in call[c].jobs : j.sku = s} |-> j.qty])
  <2>1. stock' = [s \in Skus |-> stock[s] + q(s)]
    BY <1>4, RestoreFacts
  <2>2. \A s \in Skus : q(s) \in Nat
    BY BackTyped
  <2> HIDE DEF q
  <2> QED  BY <1>1, <2>1, <2>2
<1>5. ASSUME NEW p \in Purchases, Receive(p) PROVE \A s \in Skus : stock'[s] >= 0
  <2>1. stock' = [stock EXCEPT ![p.sku] = @ + p.qty] /\ p.qty \in Nat
    BY <1>5, PurchaseTyped DEF Receive
  <2> QED  BY <1>1, <2>1, TablesTyped
<1>6. ASSUME NEW a \in Adjusters, AdjustWrite(a) PROVE \A s \in Skus : stock'[s] >= 0
  <2>1. CASE NewTotal(a) < 0 \/ keyless
    BY <1>1, <1>6, <2>1 DEF AdjustWrite
  <2>2. CASE ~(NewTotal(a) < 0 \/ keyless)
    <3>1. stock' = [stock EXCEPT ![adjusting[a].sku] = NewTotal(a)]
      BY <1>6, <2>2 DEF AdjustWrite
    <3>2. NewTotal(a) \in Int
      BY <1>6, DeltaTyped DEF AdjustWrite
    <3> QED  BY <1>1, <2>2, <3>1, <3>2, TablesTyped
  <2> QED  BY <2>1, <2>2
<1>7. ASSUME NEW c \in Callers, CallerStep(c), ~DeductStock(c), ~RestoreCommit(c)
      PROVE  UNCHANGED stock
  BY <1>7 DEF CallerStep, StartDeduct, StartRestore, SkipUnbound, ReadLine, Acquire, PassExpired,
       Replay, Busy, Conflict, Leave, FailShort, WriteRefused, RestoreRead, RestoreLock,
       RestoreRefused, Abort
<1>8. CASE \/ \E x \in Slots : LeaseLapses(x) \/ KeyExpires(x)
           \/ \E l \in Lines, s \in Skus : Bind(l, s)
           \/ \E l \in Lines, q \in Quantities : Resize(l, q)
           \/ \E s \in Skus, from, to \in Warehouses, q \in Quantities : Transfer(s, from, to, q)
           \/ \E a \in Adjusters, s \in Skus, wh \in Open \union {NoPin}, level \in Levels :
                AdjustRead(a, s, wh, level)
           \/ LogSync
           \/ UNCHANGED vars
  <2>1. UNCHANGED stock
    BY <1>8 DEF LeaseLapses, KeyExpires, Bind, Resize, Transfer, AdjustRead, LogSync, vars
  <2> QED  BY <1>2, <2>1
<1> QED  BY <1>2, <1>3, <1>4, <1>5, <1>6, <1>7, <1>8 DEF Next

\* No order takes stock that is not there: the check is made under the lock of
\* the SKU, whatever the readings before it have seen (deductOneOrderLine).
THEOREM NothingIsOversold == Spec => []NoOversell
BY InitTypeInv, StepTypeInv, InitNoOversell, StepNoOversell, PTL DEF Spec

-------------------------------------------------------------------------------
(* Warehouses *)

\* No deduction took less than nothing from a warehouse but the default one.
NothingPutIn == \A x \in Slots, w \in Others : book[x].took[w] >= 0

WarehousesInv == NothingPutIn /\ WarehousesHoldTheirOwn

LEMMA InitWarehousesInv == Init => WarehousesInv
<1> SUFFICES ASSUME Init PROVE WarehousesInv
  OBVIOUS
<1>1. \A x \in Slots, w \in Others : book[x].took[w] = 0
  BY DEF Init, Blank, Nothing, Others
<1>2. \A s \in Skus, w \in Others : held[s][w] = 0
  BY DEF Init
<1> QED  BY <1>1, <1>2 DEF WarehousesInv, NothingPutIn, WarehousesHoldTheirOwn

LEMMA StepNothingPutIn == TypeInv /\ NothingPutIn /\ [Next]_vars => NothingPutIn'
<1> SUFFICES ASSUME TypeInv, NothingPutIn, [Next]_vars PROVE NothingPutIn'
  OBVIOUS
<1>1. ASSUME NEW c \in Callers, DeductStock(c) PROVE NothingPutIn'
  <2> DEFINE s == Item(c).sku
             took == Allocation(s, Item(c).qty, call[c].opts.pin)
             x == Slot(c)
  <2>1. /\ s \in Skus /\ Item(c).qty \in Nat /\ call[c].opts.pin \in Warehouses \union {NoPin}
        /\ x \in Slots
        /\ book' = [book EXCEPT ![x] = [book[x] EXCEPT !.deducted = TRUE, !.took = took]]
    BY <1>1, DeductFacts
  <2>2. \A w \in Others : took[w] >= 0
    BY <2>1, Allocates
  <2> HIDE DEF s, took, x
  <2>3. book'[x].took = took /\ \A y \in Slots \ {x} : book'[y] = book[y]
    BY <2>1, TablesTyped DEF Entries
  <2> QED  BY <2>2, <2>3 DEF NothingPutIn
<1>2. ASSUME NEW c \in Callers, RestoreCommit(c) PROVE NothingPutIn'
  BY <1>2, RestoredRow DEF NothingPutIn
<1>3. CASE UNCHANGED book
  BY <1>3 DEF NothingPutIn
<1>4. ASSUME NEW c \in Callers, CallerStep(c), ~DeductStock(c), ~RestoreCommit(c)
      PROVE  UNCHANGED book
  BY <1>4 DEF CallerStep, StartDeduct, StartRestore, SkipUnbound, ReadLine, Acquire, PassExpired,
       Replay, Busy, Conflict, Leave, FailShort, WriteRefused, RestoreRead, RestoreLock,
       RestoreRefused, Abort
<1>5. CASE \/ \E x \in Slots : LeaseLapses(x) \/ KeyExpires(x)
           \/ \E l \in Lines, s \in Skus : Bind(l, s)
           \/ \E l \in Lines, q \in Quantities : Resize(l, q)
           \/ \E p \in Purchases : Receive(p)
           \/ \E s \in Skus, from, to \in Warehouses, q \in Quantities : Transfer(s, from, to, q)
           \/ \E a \in Adjusters, s \in Skus, wh \in Open \union {NoPin}, level \in Levels :
                AdjustRead(a, s, wh, level)
           \/ \E a \in Adjusters : AdjustWrite(a)
           \/ LogSync
           \/ UNCHANGED vars
  <2>1. UNCHANGED book
    BY <1>5 DEF LeaseLapses, KeyExpires, Bind, Resize, Receive, Transfer, AdjustRead,
                AdjustWrite, LogSync, vars
  <2> QED  BY <1>3, <2>1
<1> QED  BY <1>1, <1>2, <1>3, <1>4, <1>5 DEF Next

LEMMA StepWarehouses == TypeInv /\ WarehousesInv /\ [Next]_vars => WarehousesHoldTheirOwn'
<1> SUFFICES ASSUME TypeInv, WarehousesInv, [Next]_vars, NoNegatives
             PROVE  \A s \in Skus, w \in Others : held'[s][w] >= 0
  BY DEF WarehousesHoldTheirOwn, NoNegatives
<1>1. \A s \in Skus, w \in Others : held[s][w] >= 0 /\ held[s][w] \in Int
  BY TablesTyped DEF WarehousesInv, WarehousesHoldTheirOwn, NoNegatives
<1>2. held \in [Skus -> [Others -> Int]] /\ Others \subseteq Warehouses
  BY TablesTyped DEF Others
<1>3. CASE UNCHANGED held
  BY <1>1, <1>3
<1>4. ASSUME NEW c \in Callers, DeductStock(c)
      PROVE  \A s \in Skus, w \in Others : held'[s][w] >= 0
  <2> DEFINE s == Item(c).sku
             q == Item(c).qty
             pin == call[c].opts.pin
             took == Allocation(s, q, pin)
  <2>1. /\ held' = [held EXCEPT ![s] = Moved(s, took, -1)]
        /\ s \in Skus /\ q \in Nat /\ pin \in Warehouses \union {NoPin}
        /\ took \in [Warehouses -> Int]
    BY <1>4, DeductFacts
  <2>2. ASSUME NEW w \in Others PROVE took[w] <= held[s][w]
    <3>1. CASE pin # w
      <4>1. took[w] = 0 \/ took[w] <= held[s][w]
        BY <2>1, <3>1, Allocates
      <4> QED  BY <1>1, <2>1, <4>1
    <3>2. CASE pin = w
      <4>1. took[w] = q
        BY <2>1, <3>2, Allocates
      <4>2. pin \in Open /\ ~(Avail(s, pin) < q)
        <5>1. pin \in Open
          BY <1>4, <3>2, WarehousesAssumption DEF DeductStock, Takeable, Others
        <5> QED  BY <1>4, <5>1, NobodyOversells DEF DeductStock, Short
      <4>3. Avail(s, pin) = held[s][w]
        BY <3>2 DEF Avail, Others
      <4> HIDE DEF took, pin, s, q
      <4> QED  BY <1>1, <2>1, <4>1, <4>2, <4>3
    <3> QED  BY <3>1, <3>2
  <2> HIDE DEF s, q, pin, took
  <2>3. ASSUME NEW t \in Skus, NEW w \in Others PROVE held'[t][w] >= 0
    <3>1. CASE t = s
      <4>1. held'[t][w] = held[s][w] + (-1) * took[w]
        BY <1>2, <2>1, <3>1 DEF Moved
      <4>2. took[w] \in Int
        BY <1>2, <2>1
      <4> QED  BY <1>1, <2>1, <2>2, <4>1, <4>2
    <3>2. CASE t # s
      BY <1>1, <1>2, <2>1, <3>2
    <3> QED  BY <3>1, <3>2
  <2> QED  BY <2>3
<1>5. ASSUME NEW c \in Callers, RestoreCommit(c), NEW s \in Skus, NEW w \in Others
      PROVE  held'[s][w] >= 0
  <2> DEFINE E == {j \in call[c].jobs : j.sku = s}
             g == [j \in E |-> GivenBack(j)[w]]
  <2>1. held'[s][w] = held[s][w] + BackTo(call[c].jobs, s, w)
    <3>1. held' = [t \in Skus |-> [v \in Others |->
                                     held[t][v] + BackTo(call[c].jobs, t, v)]]
      BY <1>5, RestoreFacts
    <3> QED  BY <3>1
  <2>2. BackTo(call[c].jobs, s, w) = Total(g) /\ DOMAIN g = E
    BY DEF BackTo
  <2>3. IsFiniteSet(E)
    BY CallTypes, SmallerIsFinite DEF WellFormed
  <2>4. \A j \in E : g[j] \in Nat
    <3>1. ASSUME NEW j \in call[c].jobs PROVE GivenBack(j)[w] \in Nat
      <4>1. GivenBack(j)[w] \in Int
        BY <1>2, GivesBack
      <4>2. book[<<j.line, j.sku, j.round>>].took[w] >= 0
        BY JobTyped DEF WarehousesInv, NothingPutIn
      <4>3. \/ GivenBack(j)[w] = 0
            \/ GivenBack(j)[w] = book[<<j.line, j.sku, j.round>>].took[w]
        BY GivesBack
      <4> QED  BY <4>1, <4>2, <4>3
    <3> QED  BY <3>1
  <2> HIDE DEF g, E
  <2>5. Total(g) \in Nat
    BY <2>2, <2>3, <2>4, TotalIsSum, SumOfNats
  <2> QED  BY <1>1, <2>1, <2>2, <2>5
<1>6. ASSUME NEW p \in Purchases, Receive(p), NEW s \in Skus, NEW w \in Others
      PROVE  held'[s][w] >= 0
  <2> DEFINE f == [Nothing EXCEPT ![p.wh] = p.qty]
  <2>1. held' = [held EXCEPT ![p.sku] = Moved(p.sku, f, 1)] /\ p.qty \in Nat /\ p.sku \in Skus
    BY <1>6, PurchaseTyped DEF Receive
  <2>2. f[w] \in Nat
    BY <1>2, <2>1 DEF Nothing
  <2> HIDE DEF f
  <2>3. CASE s = p.sku
    <3>1. held'[s][w] = held[s][w] + 1 * f[w]
      BY <1>2, <2>1, <2>3 DEF Moved
    <3> QED  BY <1>1, <2>2, <3>1
  <2>4. CASE s # p.sku
    BY <1>1, <1>2, <2>1, <2>4
  <2> QED  BY <2>3, <2>4
<1>7. ASSUME NEW t \in Skus, NEW from \in Warehouses, NEW to \in Warehouses,
             NEW q \in Quantities, Transfer(t, from, to, q), NEW s \in Skus, NEW w \in Others
      PROVE  held'[s][w] >= 0
  <2> DEFINE f == [Nothing EXCEPT ![from] = 0 - q, ![to] = q]
  <2>1. held' = [held EXCEPT ![t] = Moved(t, f, 1)] /\ Avail(t, from) >= q
    BY <1>7 DEF Transfer
  <2>2. q \in Nat
    BY BoundsAssumption
  <2>3. f[w] = IF w = to THEN q ELSE IF w = from THEN 0 - q ELSE 0
    BY <1>2 DEF Nothing
  <2> HIDE DEF f
  <2>4. CASE s = t
    <3>1. held'[s][w] = held[t][w] + 1 * f[w]
      BY <1>2, <2>1, <2>4 DEF Moved
    <3>2. w = from => held[t][w] >= q
      BY <2>1 DEF Avail, Others
    <3>3. held[t][w] \in Int /\ held[t][w] >= 0
      BY <1>1
    <3>4. held[t][w] + f[w] >= 0
      BY <2>2, <2>3, <3>2, <3>3
    <3>5. f[w] \in Int
      BY <2>2, <2>3
    <3> QED  BY <3>1, <3>3, <3>4, <3>5
  <2>5. CASE s # t
    BY <1>1, <1>2, <2>1, <2>5
  <2> QED  BY <2>4, <2>5
<1>8. ASSUME NEW a \in Adjusters, AdjustWrite(a), NEW s \in Skus, NEW w \in Others
      PROVE  held'[s][w] >= 0
  <2> DEFINE t == adjusting[a].sku
             wh == adjusting[a].wh
  <2>1. t \in Skus /\ adjusting[a].level \in Nat /\ Delta(a) \in Int
    BY <1>8, DeltaTyped DEF AdjustWrite
  <2>2. \/ held' = held
        \/ held' = [held EXCEPT ![t] =
                      IF wh \in Others THEN [held[t] EXCEPT ![wh] = @ + Delta(a)] ELSE @]
    BY <1>8 DEF AdjustWrite
  <2>3. wh \in Others => Delta(a) = adjusting[a].level - held[t][wh]
    BY <1>2, WarehousesAssumption DEF Delta, Others
  <2> HIDE DEF t, wh
  <2>4. CASE s = t /\ w = wh /\ held' # held
    <3>1. held'[s][w] = held[t][wh] + Delta(a)
      BY <1>2, <2>1, <2>2, <2>4
    <3> QED  BY <1>1, <2>1, <2>3, <2>4, <3>1
  <2>5. CASE ~(s = t /\ w = wh /\ held' # held)
    <3>1. held'[s][w] = held[s][w]
      BY <1>2, <2>1, <2>2, <2>5
    <3> QED  BY <1>1, <3>1
  <2> QED  BY <2>4, <2>5
<1>9. ASSUME NEW c \in Callers, CallerStep(c), ~DeductStock(c), ~RestoreCommit(c)
      PROVE  UNCHANGED held
  BY <1>9 DEF CallerStep, StartDeduct, StartRestore, SkipUnbound, ReadLine, Acquire, PassExpired,
       Replay, Busy, Conflict, Leave, FailShort, WriteRefused, RestoreRead, RestoreLock,
       RestoreRefused, Abort
<1>10. CASE \/ \E x \in Slots : LeaseLapses(x) \/ KeyExpires(x)
            \/ \E l \in Lines, s \in Skus : Bind(l, s)
            \/ \E l \in Lines, q \in Quantities : Resize(l, q)
            \/ \E a \in Adjusters, s \in Skus, wh \in Open \union {NoPin}, level \in Levels :
                 AdjustRead(a, s, wh, level)
            \/ LogSync
            \/ UNCHANGED vars
  <2>1. UNCHANGED held
    BY <1>10 DEF LeaseLapses, KeyExpires, Bind, Resize, AdjustRead, LogSync, vars
  <2> QED  BY <1>3, <2>1
<1>11. CASE \E c \in Callers : CallerStep(c)
  BY <1>3, <1>4, <1>5, <1>9, <1>11
<1>12. CASE \/ \E p \in Purchases : Receive(p)
            \/ \E s \in Skus, from, to \in Warehouses, q \in Quantities : Transfer(s, from, to, q)
            \/ \E a \in Adjusters : AdjustWrite(a)
  BY <1>6, <1>7, <1>8, <1>12
<1> QED  BY <1>10, <1>11, <1>12 DEF Next

\* No warehouse but the default one is drawn below zero by an order that does
\* not allow it, wherever stock is moved, received, set by hand and given back
\* (allocateDeduction, deductOneOrderLine, TransferStock, AdjustSKUStock).
THEOREM NoWarehouseOwes == Spec => []WarehousesHoldTheirOwn
<1>1. TypeInv /\ WarehousesInv /\ [Next]_vars => WarehousesInv'
  BY StepNothingPutIn, StepWarehouses DEF WarehousesInv
<1>2. WarehousesInv => WarehousesHoldTheirOwn
  BY DEF WarehousesInv
<1> QED  BY InitTypeInv, StepTypeInv, InitWarehousesInv, <1>1, <1>2, PTL DEF Spec

-------------------------------------------------------------------------------
(* The ledger *)

\* The jobs of a restore and the lines before it are of different lines of its
\* order.
Apart(r) ==
  /\ \A i, j \in r.jobs : i.line = j.line => i = j
  /\ \A i, j \in DOMAIN r.rest : r.rest[i].line = r.rest[j].line => i = j
  /\ \A i \in DOMAIN r.rest, j \in r.jobs : r.rest[i].line # j.line

JobsApart == \A c \in Callers : Apart(call[c])

LEMMA IdleApart == Apart(Idle)
BY DEF Apart, Idle

LEMMA LoadedApart ==
  ASSUME TypeInv, NEW o \in Orders, NEW r, r.rest = Loaded(o), r.jobs = {}
  PROVE  Apart(r)
<1>1. IsInjective(o)
  BY LinesAssumption
<1>2. \A i, j \in DOMAIN o : o[i] = o[j] => i = j
  BY <1>1 DEF IsInjective
<1>3. DOMAIN r.rest = DOMAIN o /\ \A i \in DOMAIN o : r.rest[i].line = o[i]
  BY DEF Loaded
<1> QED  BY <1>2, <1>3 DEF Apart

LEMMA TailApart ==
  ASSUME NEW q \in Seq(Items), q # <<>>
  PROVE  /\ Tail(q) \in Seq(Items)
         /\ 1 \in DOMAIN q /\ Head(q) = q[1]
         /\ \A i \in DOMAIN Tail(q) : i + 1 \in DOMAIN q /\ i + 1 # 1 /\ Tail(q)[i] = q[i + 1]
  OBVIOUS

\* A call that goes on to the next line
LEMMA NextApart ==
  ASSUME NEW p \in CallRows, Apart(p), NEW r, r.jobs = p.jobs,
         \/ r.rest = p.rest
         \/ p.rest # <<>> /\ r.rest = Tail(p.rest)
  PROVE  Apart(r)
<1>1. CASE r.rest = p.rest
  BY <1>1 DEF Apart
<1>2. CASE p.rest # <<>> /\ r.rest = Tail(p.rest)
  <2>1. /\ p.rest \in Seq(Items)
        /\ DOMAIN p.rest \subseteq Int
        /\ DOMAIN r.rest \subseteq Int
    BY <1>2, TailApart DEF CallRows
  <2>2. \A i \in DOMAIN r.rest : i + 1 \in DOMAIN p.rest /\ r.rest[i] = p.rest[i + 1]
    BY <1>2, <2>1, TailApart
  <2>3. \A i, j \in DOMAIN r.rest : r.rest[i].line = r.rest[j].line => i = j
    <3> SUFFICES ASSUME NEW i \in DOMAIN r.rest, NEW j \in DOMAIN r.rest,
                        r.rest[i].line = r.rest[j].line
                 PROVE  i = j
      OBVIOUS
    <3>1. i + 1 = j + 1
      BY <2>2 DEF Apart
    <3> QED  BY <2>1, <3>1
  <2> QED  BY <2>2, <2>3 DEF Apart
<1> QED  BY <1>1, <1>2

\* A restore that has locked the SKU of a line
LEMMA LockApart ==
  ASSUME NEW p \in CallRows, Apart(p), p.rest # <<>>, NEW k, k.line = Head(p.rest).line,
         NEW r, r.rest = Tail(p.rest), r.jobs = p.jobs \union {k}
  PROVE  Apart(r)
<1>1. p.rest \in Seq(Items) /\ DOMAIN p.rest \subseteq Int /\ DOMAIN r.rest \subseteq Int
  BY TailApart DEF CallRows
<1>2. /\ 1 \in DOMAIN p.rest /\ k.line = p.rest[1].line
      /\ \A i \in DOMAIN r.rest : i + 1 \in DOMAIN p.rest /\ i + 1 # 1 /\ r.rest[i] = p.rest[i + 1]
  BY <1>1, TailApart
<1>3. \A i, j \in r.jobs : i.line = j.line => i = j
  BY <1>2 DEF Apart
<1>4. \A i \in DOMAIN r.rest, j \in r.jobs : r.rest[i].line # j.line
  <2> SUFFICES ASSUME NEW i \in DOMAIN r.rest, NEW j \in r.jobs PROVE r.rest[i].line # j.line
    OBVIOUS
  <2>1. CASE j = k
    BY <1>2, <2>1 DEF Apart
  <2>2. CASE j \in p.jobs
    BY <1>2, <2>2 DEF Apart
  <2> QED  BY <2>1, <2>2
<1>5. \A i, j \in DOMAIN r.rest : r.rest[i].line = r.rest[j].line => i = j
  <2> SUFFICES ASSUME NEW i \in DOMAIN r.rest, NEW j \in DOMAIN r.rest,
                      r.rest[i].line = r.rest[j].line
               PROVE  i = j
    OBVIOUS
  <2>1. i + 1 = j + 1
    BY <1>2 DEF Apart
  <2> QED  BY <1>1, <2>1
<1> QED  BY <1>3, <1>4, <1>5 DEF Apart

LEMMA CallApart ==
  ASSUME TypeInv, JobsApart, NEW c \in Callers, NEW r, Apart(r),
         call' = [call EXCEPT ![c] = r]
  PROVE  JobsApart'
<1>1. call \in [Callers -> CallRows]
  BY DEF TypeInv, TypeOK, CallRows
<1> QED  BY <1>1 DEF JobsApart

LEMMA StepJobsApart == TypeInv /\ JobsApart /\ [Next]_vars => JobsApart'
<1> SUFFICES ASSUME TypeInv, JobsApart, [Next]_vars PROVE JobsApart'
  OBVIOUS
<1>1. ASSUME NEW c \in Callers, CallerStep(c)
      PROVE  JobsApart'
  <2> DEFINE p == call[c]
  <2>1. p \in CallRows /\ Apart(p)
    BY CallTypes DEF JobsApart
  <2>2. ASSUME NEW o \in Orders, NEW opts \in Options, StartDeduct(c, o, opts)
        PROVE  JobsApart'
    <3> DEFINE r == [Idle EXCEPT !.op = "deduct", !.at = "read", !.rest = Loaded(o), !.opts = opts]
    <3>1. call' = [call EXCEPT ![c] = r] /\ r.rest = Loaded(o) /\ r.jobs = {}
      BY <2>2 DEF StartDeduct, Idle
    <3> HIDE DEF r
    <3> QED  BY <3>1, LoadedApart, CallApart
  <2>3. ASSUME NEW o \in Orders, StartRestore(c, o)
        PROVE  JobsApart'
    <3> DEFINE r == [Idle EXCEPT !.op = "restore", !.at = "read", !.rest = Loaded(o)]
    <3>1. call' = [call EXCEPT ![c] = r] /\ r.rest = Loaded(o) /\ r.jobs = {}
      BY <2>3 DEF StartRestore, Idle
    <3> HIDE DEF r
    <3> QED  BY <3>1, LoadedApart, CallApart
  <2>4. p.rest # <<>> => Apart(NextLine(c))
    <3> SUFFICES ASSUME p.rest # <<>> PROVE Apart(NextLine(c))
      OBVIOUS
    <3>1. CASE Tail(p.rest) = <<>>
      BY <3>1, IdleApart DEF NextLine
    <3>2. CASE Tail(p.rest) # <<>>
      <4> DEFINE r == [call[c] EXCEPT !.at = "read", !.rest = Tail(@), !.round = 0]
      <4>1. NextLine(c) = r
        BY <3>2 DEF NextLine
      <4>2. r.rest = Tail(p.rest) /\ r.jobs = p.jobs
        BY <2>1 DEF CallRows
      <4> HIDE DEF r
      <4> QED  BY <2>1, <4>1, <4>2, NextApart
    <3> QED  BY <3>1, <3>2
  <2>5. CASE SkipUnbound(c) \/ Replay(c) \/ FailShort(c) \/ DeductStock(c)
    <3>1. p.rest # <<>>
      BY <2>5, CallTypes DEF SkipUnbound, Replay, FailShort, DeductStock, At, WellFormed
    <3>2. call' = [call EXCEPT ![c] = NextLine(c)]
      BY <2>5 DEF SkipUnbound, Replay, FailShort, DeductStock
    <3> QED  BY <2>4, <3>1, <3>2, CallApart
  <2>6. CASE Busy(c) \/ Leave(c) \/ WriteRefused(c) \/ RestoreCommit(c) \/ RestoreRefused(c)
             \/ Abort(c)
    <3>1. call' = [call EXCEPT ![c] = Idle]
      BY <2>6 DEF Busy, Leave, WriteRefused, RestoreCommit, RestoreRefused, Abort
    <3> QED  BY <3>1, IdleApart, CallApart
  <2>7. CASE ReadLine(c)
    <3>1. CASE CurrentlyDeducted(Item(c).line, Item(c).sku)
      <4>1. call' = [call EXCEPT ![c] = NextLine(c)] /\ p.rest # <<>>
        BY <2>7, <3>1, CallTypes DEF ReadLine, At, WellFormed
      <4> QED  BY <2>4, <4>1, CallApart
    <3>2. CASE ~CurrentlyDeducted(Item(c).line, Item(c).sku)
      <4> DEFINE n == RestoreRounds(Item(c).line, Item(c).sku)
                 r == [call[c] EXCEPT !.at = "acquire", !.round = n]
      <4>1. call' = [call EXCEPT ![c] = r] /\ r.rest = p.rest /\ r.jobs = p.jobs
        BY <2>1, <2>7, <3>2 DEF ReadLine, CallRows
      <4> HIDE DEF r
      <4> QED  BY <2>1, <4>1, NextApart, CallApart
    <3> QED  BY <3>1, <3>2
  <2>8. CASE Acquire(c) \/ PassExpired(c)
    <3> DEFINE r == [call[c] EXCEPT !.at = "write"]
    <3>1. call' = [call EXCEPT ![c] = r] /\ r.rest = p.rest /\ r.jobs = p.jobs
      BY <2>1, <2>8 DEF Acquire, PassExpired, CallRows
    <3> HIDE DEF r
    <3> QED  BY <2>1, <3>1, NextApart, CallApart
  <2>9. CASE Conflict(c)
    <3> DEFINE r == [call[c] EXCEPT !.at = "refused"]
    <3>1. call' = [call EXCEPT ![c] = r] /\ r.rest = p.rest /\ r.jobs = p.jobs
      BY <2>1, <2>9 DEF Conflict, CallRows
    <3> HIDE DEF r
    <3> QED  BY <2>1, <3>1, NextApart, CallApart
  <2>10. CASE RestoreRead(c)
    <3> DEFINE n == RestoreRounds(Item(c).line, Item(c).sku)
               r == [call[c] EXCEPT !.at = "lock", !.round = n]
               t == [call[c] EXCEPT !.rest = Tail(@)]
    <3>1. p.rest # <<>> /\ (call' = [call EXCEPT ![c] = r] \/ call' = [call EXCEPT ![c] = t])
      BY <2>10 DEF RestoreRead
    <3>2. r.rest = p.rest /\ r.jobs = p.jobs /\ t.rest = Tail(p.rest) /\ t.jobs = p.jobs
      BY <2>1 DEF CallRows
    <3> HIDE DEF r, t
    <3> QED  BY <2>1, <3>1, <3>2, NextApart, CallApart
  <2>11. CASE RestoreLock(c)
    <3> DEFINE k == [line |-> Item(c).line, sku |-> Item(c).sku, qty |-> Item(c).qty,
                     round |-> call[c].round]
               r == [call[c] EXCEPT !.at = "read", !.rest = Tail(@), !.jobs = @ \union {k}]
    <3>1. call' = [call EXCEPT ![c] = r] /\ p.rest # <<>>
      BY <2>11, CallTypes DEF RestoreLock, At, WellFormed
    <3>2. r.rest = Tail(p.rest) /\ r.jobs = p.jobs \union {k} /\ k.line = Head(p.rest).line
      BY <2>1 DEF CallRows, Item
    <3> HIDE DEF r, k
    <3> QED  BY <2>1, <3>1, <3>2, LockApart, CallApart
  <2> QED
    BY <1>1, <2>2, <2>3, <2>5, <2>6, <2>7, <2>8, <2>9, <2>10, <2>11 DEF CallerStep
<1>2. CASE ~\E c \in Callers : CallerStep(c)
  <2>1. UNCHANGED call
    BY <1>2 DEF Next, LeaseLapses, KeyExpires, Bind, Resize, Receive, Transfer, AdjustRead,
                AdjustWrite, LogSync, vars
  <2> QED  BY <2>1 DEF JobsApart
<1> QED  BY <1>1, <1>2

\* The slots of a SKU, what logs b gained it in each, and what came in for it
SlotsOf(s) == {x \in Slots : x[2] = s}

Net(b, s) == [x \in SlotsOf(s) |-> Total(b[x].gave) - Total(b[x].took)]

Came(r, s) == [p \in {p \in r : p.sku = s} |-> p.qty]

LEMMA GainedIs == \A s : Gained(s) = adjusted[s] + Total(Came(received, s)) + Total(Net(book, s))
BY DEF Gained, Came, Net, SlotsOf

LEMMA NetTyped ==
  ASSUME NEW b \in [Slots -> Entries], NEW s
  PROVE  /\ IsFiniteSet(SlotsOf(s))
         /\ DOMAIN Net(b, s) = SlotsOf(s)
         /\ \A x \in SlotsOf(s) : /\ Total(b[x].gave) \in Int /\ Total(b[x].took) \in Int
                                  /\ Net(b, s)[x] = Total(b[x].gave) - Total(b[x].took)
                                  /\ Net(b, s)[x] \in Int
         /\ Total(Net(b, s)) = SumFunctionOnSet(Net(b, s), SlotsOf(s))
         /\ Total(Net(b, s)) \in Int
<1>1. IsFiniteSet(SlotsOf(s))
  <2>1. IsFiniteSet(Rounds)
    BY BoundsAssumption, FS_Interval DEF Rounds
  <2>2. IsFiniteSet(Skus \X Rounds) /\ IsFiniteSet(Lines \X Rounds) /\ IsFiniteSet(Lines \X Skus)
    BY <2>1, RowsAssumption, FS_Product
  <2>3. IsFiniteSet((Lines \X Skus) \X Rounds)
    BY <2>1, <2>2, FS_Product
  <2> DEFINE P == (Lines \X Skus) \X Rounds
             h == [y \in P |-> <<y[1][1], y[1][2], y[2]>>]
  <2>4. IsFiniteSet({h[y] : y \in P})
    <3> DEFINE T == {h[y] : y \in P}
    <3>1. h \in Surjection(P, T)
      BY DEF Surjection
    <3> HIDE DEF h, T, P
    <3>2. IsFiniteSet(P) => IsFiniteSet(T)
      BY <3>1, FS_Surjection
    <3> QED  BY <2>3, <3>2 DEF T, P
  <2>5. SlotsOf(s) \subseteq {h[y] : y \in P}
    <3> SUFFICES ASSUME NEW x \in Slots PROVE x \in {h[y] : y \in P}
      BY DEF SlotsOf
    <3>1. PICK l \in Lines, t \in Skus, n \in Rounds : x = <<l, t, n>>
      BY DEF Slots
    <3>2. <<<<l, t>>, n>> \in P /\ h[<<<<l, t>>, n>>] = x
      BY <3>1
    <3> QED  BY <3>2
  <2> HIDE DEF h, P
  <2> QED  BY <2>4, <2>5, SmallerIsFinite
<1>2. ASSUME NEW x \in SlotsOf(s)
      PROVE  Total(b[x].gave) \in Int /\ Total(b[x].took) \in Int
  <2>1. b[x].gave \in [Warehouses -> Int] /\ b[x].took \in [Warehouses -> Int]
    BY DEF SlotsOf, Entries
  <2> QED  BY <2>1, TotalOfAll
<1>3. \A x \in SlotsOf(s) : /\ Net(b, s)[x] = Total(b[x].gave) - Total(b[x].took)
                            /\ Net(b, s)[x] \in Int
  BY <1>2 DEF Net
<1>4. DOMAIN Net(b, s) = SlotsOf(s)
  BY DEF Net
<1>5. Total(Net(b, s)) = SumFunctionOnSet(Net(b, s), SlotsOf(s))
  BY <1>4, TotalIsSum
<1> QED  BY <1>1, <1>2, <1>3, <1>4, <1>5, SumIsInt

\* Logs that say the same of a SKU
LEMMA SameNet ==
  ASSUME NEW b, NEW g, NEW s,
         \A x \in SlotsOf(s) : g[x].gave = b[x].gave /\ g[x].took = b[x].took
  PROVE  Net(g, s) = Net(b, s)
BY DEF Net

LEMMA CameTyped ==
  ASSUME TypeInv, IsFiniteSet(received), NEW s
  PROVE  Total(Came(received, s)) \in Int
<1> DEFINE D == {p \in received : p.sku = s}
           f == Came(received, s)
<1>1. IsFiniteSet(D)
  BY SmallerIsFinite
<1>2. DOMAIN f = D /\ \A p \in D : f[p] = p.qty
  BY DEF Came
<1>3. \A p \in D : f[p] \in Int
  <2>1. \A p \in D : p.qty \in Nat
    BY ManualTyped, PurchaseTyped
  <2> HIDE DEF f
  <2> QED  BY <1>2, <2>1
<1> HIDE DEF D, f
<1>4. Total(f) \in Int
  BY <1>1, <1>2, <1>3, TotalIsSum, SumIsInt
<1> QED  BY <1>4 DEF f

\* A deduction takes off the ledger what it takes off the stock.
LEMMA DeductNet ==
  ASSUME TypeInv, RoundsInv, NEW c \in Callers, DeductStock(c), NEW s \in Skus
  PROVE  Total(Net(book', s)) =
           Total(Net(book, s)) - IF s = Item(c).sku THEN Item(c).qty ELSE 0
<1> DEFINE t == Item(c).sku
           q == Item(c).qty
           took == Allocation(t, q, call[c].opts.pin)
           x == Slot(c)
<1>0. x[2] = t
  BY DEF Slot
<1>1. /\ t \in Skus /\ q \in Nat /\ x \in Slots
      /\ call[c].opts.pin \in Warehouses \union {NoPin}
      /\ took \in [Warehouses -> Int]
      /\ book' = [book EXCEPT ![x] = [book[x] EXCEPT !.deducted = TRUE, !.took = took]]
      /\ ~book[x].deducted
  BY DeductFacts
<1>2. Total(took) = q
  BY <1>1, Allocates
<1>3. book[x].took = Nothing
  BY <1>1 DEF RoundsInv, Filled
<1>4. book \in [Slots -> Entries] /\ book' \in [Slots -> Entries]
  <2>1. TypeInv'
    BY DeductTyped
  <2> QED  BY <2>1, TablesTyped DEF TypeInv, TypeOK
<1> HIDE DEF t, q, took, x
<1>5. /\ book'[x].took = took /\ book'[x].gave = book[x].gave
      /\ \A y \in Slots \ {x} : book'[y] = book[y]
  BY <1>1, <1>4 DEF Entries
<1>6. CASE s # t
  <2>1. \A y \in SlotsOf(s) : y \in Slots \ {x}
    BY <1>0, <1>6 DEF SlotsOf
  <2>2. Net(book', s) = Net(book, s)
    BY <1>5, <2>1, SameNet
  <2>3. Total(Net(book, s)) \in Int
    BY <1>4, NetTyped
  <2> QED  BY <1>6, <2>2, <2>3 DEF t
<1>7. CASE s = t
  <2> DEFINE D == SlotsOf(s)
             f == Net(book, s)
             g == Net(book', s)
  <2>1. x \in D /\ D \subseteq Slots
    BY <1>0, <1>1, <1>7 DEF SlotsOf
  <2>2. /\ IsFiniteSet(D) /\ \A y \in D : f[y] \in Int
        /\ Total(f) = SumFunctionOnSet(f, D) /\ Total(f) \in Int
        /\ f[x] = Total(book[x].gave) - Total(book[x].took)
        /\ Total(book[x].gave) \in Int
    BY <1>4, <2>1, NetTyped
  <2>3. /\ \A y \in D : g[y] = Total(book'[y].gave) - Total(book'[y].took) /\ g[y] \in Int
        /\ Total(g) = SumFunctionOnSet(g, D)
    BY <1>4, NetTyped
  <2>4. \A y \in D : f[y] = Total(book[y].gave) - Total(book[y].took)
    BY <1>4, NetTyped
  <2>5. \A y \in D \ {x} : g[y] = f[y]
    BY <1>5, <2>1, <2>3, <2>4
  <2>6. g[x] = f[x] - q
    <3>1. f[x] = Total(book[x].gave) - 0
      BY <1>3, <2>2, TotalOfNothing
    <3>2. g[x] = Total(book[x].gave) - q
      BY <1>2, <1>5, <2>1, <2>3
    <3> HIDE DEF f, g
    <3> QED  BY <1>1, <2>2, <3>1, <3>2
  <2>7. g[x] \in Int /\ f[x] \in Int
    BY <2>1, <2>2, <2>3
  <2> HIDE DEF D, f, g
  <2>8. SumFunctionOnSet(g, D) = SumFunctionOnSet(f, D) - f[x] + g[x]
    BY <2>1, <2>2, <2>5, <2>7, SumUpdate
  <2>9. Total(g) = Total(f) - q
    BY <1>1, <2>2, <2>3, <2>6, <2>7, <2>8
  <2> QED  BY <1>7, <2>9 DEF f, g, q, t
<1> QED  BY <1>6, <1>7

\* A restore puts on the ledger what it puts on the stock.
LEMMA RestoreNet ==
  ASSUME TypeInv, RoundsInv, JobsApart, NEW c \in Callers, RestoreCommit(c), NEW s \in Skus
  PROVE  Total(Net(book', s)) =
           Total(Net(book, s)) + Total([j \in {j \in call[c].jobs : j.sku = s} |-> j.qty])
<1> DEFINE E == {j \in call[c].jobs : j.sku = s}
           q == [j \in E |-> j.qty]
           k == [j \in E |-> <<j.line, j.sku, j.round>>]
           D == SlotsOf(s)
           f == Net(book', s)
           g == Net(book, s)
<1>1. book \in [Slots -> Entries] /\ book' \in [Slots -> Entries]
  <2>1. TypeInv'
    BY RestoreCommitTyped
  <2> QED  BY <2>1, TablesTyped DEF TypeInv, TypeOK
<1>2. IsFiniteSet(E) /\ DOMAIN q = E /\ E \subseteq call[c].jobs
  BY CallTypes, SmallerIsFinite DEF WellFormed
<1>3. ASSUME NEW j \in E
      PROVE  /\ q[j] = j.qty /\ q[j] \in Int
             /\ k[j] = <<j.line, j.sku, j.round>> /\ k[j] \in D /\ k[j] \in Slots
  <2>1. j.qty \in Nat /\ <<j.line, j.sku, j.round>> \in Slots
    BY JobTyped
  <2>2. q[j] = j.qty /\ k[j] = <<j.line, j.sku, j.round>> /\ j.sku = s
    OBVIOUS
  <2> QED  BY <2>1, <2>2 DEF SlotsOf
<1>4. \A i, j \in E : i.line = j.line => i = j
  BY <1>2 DEF JobsApart, Apart
<1>5. ASSUME NEW i \in E, NEW j \in E, k[i] = k[j] PROVE i = j
  <2>1. i.line = j.line
    BY <1>3, <1>5
  <2> QED  BY <1>4, <2>1
<1>6. /\ IsFiniteSet(D)
      /\ \A x \in D : /\ g[x] = Total(book[x].gave) - Total(book[x].took) /\ g[x] \in Int
                      /\ Total(book[x].gave) \in Int /\ Total(book[x].took) \in Int
      /\ Total(g) = SumFunctionOnSet(g, D)
  BY <1>1, NetTyped
<1>7. /\ \A x \in D : f[x] = Total(book'[x].gave) - Total(book'[x].took)
      /\ Total(f) = SumFunctionOnSet(f, D)
  BY <1>1, NetTyped
<1> HIDE DEF f, g, D
<1>8. ASSUME NEW j \in E PROVE f[k[j]] = g[k[j]] + q[j]
  <2> DEFINE x == k[j]
  <2>1. x \in Slots /\ x \in D /\ x = <<j.line, j.sku, j.round>> /\ q[j] = j.qty /\ q[j] \in Int
    BY <1>3
  <2>2. j \in JobsIn(c, x)
    BY <1>2, <2>1 DEF JobsIn, JobsOf
  <2>3. \A i \in JobsIn(c, x) : i = j
    <3>1. \A i \in JobsIn(c, x) : i.line = j.line /\ i \in call[c].jobs
      BY <2>1 DEF JobsIn, JobsOf
    <3> QED  BY <1>2, <3>1 DEF JobsApart, Apart
  <2> HIDE DEF x
  <2>4. book'[x].gave = GivenBack(j) /\ book'[x].took = book[x].took
    BY <2>1, <2>2, <2>3, RestoredRow
  <2>5. Total(GivenBack(j)) = j.qty
    BY <1>2, GivesBack
  <2>6. Total(book[x].gave) = 0
    <3>1. ~book[x].restored
      BY <1>2, <2>1, JobIsOutstanding
    <3>2. book[x].gave = Nothing
      BY <2>1, <3>1 DEF RoundsInv, Filled
    <3> QED  BY <3>2, TotalOfNothing
  <2>7. f[x] = g[x] + q[j]
    BY <1>6, <1>7, <2>1, <2>4, <2>5, <2>6
  <2> QED  BY <2>7 DEF x
<1>9. ASSUME NEW x \in D, \A j \in E : k[j] # x PROVE f[x] = g[x]
  <2>1. x \in Slots /\ x[2] = s
    BY DEF D, SlotsOf
  <2>2. JobsIn(c, x) = {}
    <3> SUFFICES ASSUME NEW j \in JobsIn(c, x) PROVE FALSE
      OBVIOUS
    <3>1. j \in call[c].jobs /\ j.line = x[1] /\ j.sku = x[2] /\ j.round = x[3]
      BY DEF JobsIn, JobsOf
    <3>2. j \in E
      BY <2>1, <3>1
    <3>3. k[j] = x
      BY <1>3, <2>1, <3>1, <3>2 DEF Slots
    <3> QED  BY <1>9, <3>2, <3>3
  <2>3. book'[x] = book[x]
    BY <2>1, <2>2, RestoredRow
  <2> QED  BY <1>6, <1>7, <2>3
<1> HIDE DEF E, q, k
<1>10. SumFunctionOnSet(f, D) = SumFunctionOnSet(g, D) + SumFunctionOnSet(q, E)
  BY <1>2, <1>3, <1>5, <1>6, <1>8, <1>9, SumRaised
<1>11. Total(q) = SumFunctionOnSet(q, E)
  BY <1>2, TotalIsSum
<1>12. Total(f) = Total(g) + Total(q)
  BY <1>6, <1>7, <1>10, <1>11
<1> QED  BY <1>12 DEF f, g, q, E

\* A purchase that comes in
LEMMA ReceiveCame ==
  ASSUME TypeInv, IsFiniteSet(received), NEW p \in Purchases, Receive(p), NEW s \in Skus
  PROVE  Total(Came(received', s)) =
           Total(Came(received, s)) + IF s = p.sku THEN p.qty ELSE 0
<1> DEFINE D == {o \in received : o.sku = s}
           E == {o \in received' : o.sku = s}
           f == Came(received, s)
           g == Came(received', s)
<1>1. p \notin received /\ received' = received \union {p}
  BY DEF Receive
<1>2. p.qty \in Nat /\ \A o \in received : o.qty \in Nat
  BY ManualTyped, PurchaseTyped
<1>3. IsFiniteSet(D)
  BY SmallerIsFinite
<1>4. /\ DOMAIN f = D /\ \A o \in D : f[o] = o.qty
      /\ DOMAIN g = E /\ \A o \in E : g[o] = o.qty
  BY DEF Came
<1>5. CASE s # p.sku
  <2>1. g = f
    <3>1. E = D
      BY <1>1, <1>5
    <3> QED  BY <3>1 DEF Came
  <2> QED  BY <1>5, <2>1, CameTyped
<1>6. CASE s = p.sku
  <2>1. E = D \union {p} /\ p \notin D /\ p \in E
    BY <1>1, <1>6
  <2>2. \A o \in D : o \in E /\ g[o] = f[o] /\ g[o] \in Int
    <3>1. \A o \in D : o \in E /\ o.qty \in Int
      BY <1>1, <1>2
    <3> HIDE DEF f, g, D, E
    <3> QED  BY <1>4, <3>1
  <2>3. g[p] = p.qty /\ g[p] \in Int
    <3> HIDE DEF f, g, D, E
    <3> QED  BY <1>2, <1>4, <2>1
  <2> HIDE DEF f, g, D, E
  <2>4. SumFunctionOnSet(g, D \union {p}) = SumFunctionOnSet(g, D) + g[p]
    BY <1>3, <2>1, <2>2, <2>3, SumWith
  <2>5. SumFunctionOnSet(g, D) = SumFunctionOnSet(f, D)
    BY <1>3, <2>2, SumAgrees
  <2>6. Total(f) = SumFunctionOnSet(f, D) /\ Total(g) = SumFunctionOnSet(g, E)
    BY <1>4, TotalIsSum
  <2>7. Total(g) = Total(f) + p.qty
    BY <2>1, <2>3, <2>4, <2>5, <2>6
  <2> QED  BY <1>6, <2>7 DEF f, g
<1> QED  BY <1>5, <1>6

LedgerInv == JobsApart /\ IsFiniteSet(received) /\ LedgerAddsUp

LEMMA InitLedgerInv == Init => LedgerInv
<1> SUFFICES ASSUME Init PROVE LedgerInv
  OBVIOUS
<1>1. JobsApart
  BY IdleApart DEF Init, JobsApart
<1>2. received = {} /\ IsFiniteSet(received)
  BY FS_EmptySet DEF Init
<1>3. ASSUME NEW s \in Skus PROVE stock[s] = Opening[s] + Gained(s)
  <2>1. adjusted[s] = 0 /\ stock[s] = Opening[s] /\ Opening[s] \in Int
    BY BoundsAssumption DEF Init
  <2>2. Total(Came(received, s)) = 0
    <3> DEFINE f == Came(received, s)
    <3>1. DOMAIN f = {p \in received : p.sku = s} /\ {p \in received : p.sku = s} = {}
      BY <1>2 DEF Came
    <3> HIDE DEF f
    <3>2. Total(f) = 0
      BY <3>1, TotalIsSum, SumOfNone
    <3> QED  BY <3>2 DEF f
  <2>3. Total(Net(book, s)) = 0
    <3>1. book \in [Slots -> Entries]
      BY InitTypeInv, TablesTyped
    <3>2. \A x \in SlotsOf(s) : book[x].took = Nothing /\ book[x].gave = Nothing
      BY DEF Init, Blank, SlotsOf
    <3>3. \A x \in SlotsOf(s) : Net(book, s)[x] = 0
      BY <3>1, <3>2, NetTyped, TotalOfNothing
    <3> QED  BY <3>1, <3>3, NetTyped, SumOfZeros
  <2> QED  BY <2>1, <2>2, <2>3, GainedIs
<1> QED  BY <1>1, <1>2, <1>3 DEF LedgerInv, LedgerAddsUp

LEMMA StepLedger == TypeInv /\ RoundsInv /\ LedgerInv /\ [Next]_vars => LedgerAddsUp'
<1> SUFFICES ASSUME TypeInv, RoundsInv, LedgerInv, [Next]_vars, NEW s \in Skus, s \notin raced'
             PROVE  stock'[s] = Opening[s] + Gained(s)'
  BY DEF LedgerAddsUp
<1> DEFINE in == Total(Came(received, s))
           net == Total(Net(book, s))
<1>1. Gained(s) = adjusted[s] + in + net
  BY GainedIs
<1>2. Gained(s)' = adjusted'[s] + Total(Came(received', s)) + Total(Net(book', s))
  BY DEF Gained, Came, Net, SlotsOf
<1>3. in \in Int /\ net \in Int /\ adjusted[s] \in Int /\ stock[s] \in Int /\ Opening[s] \in Int
  BY TablesTyped, ManualTyped, CameTyped, NetTyped, BoundsAssumption DEF LedgerInv
<1>4. s \notin raced => stock[s] = Opening[s] + adjusted[s] + in + net
  BY <1>1, <1>3 DEF LedgerInv, LedgerAddsUp
<1> HIDE DEF in, net
<1>5. CASE UNCHANGED <<stock, adjusted, raced, received, book>>
  BY <1>2, <1>3, <1>4, <1>5 DEF in, net
<1>6. ASSUME NEW c \in Callers, DeductStock(c) PROVE stock'[s] = Opening[s] + Gained(s)'
  <2> DEFINE q == IF s = Item(c).sku THEN Item(c).qty ELSE 0
  <2>1. /\ stock' = [stock EXCEPT ![Item(c).sku] = @ - Item(c).qty]
        /\ Item(c).qty \in Nat
    BY <1>6, DeductFacts
  <2>2. stock'[s] = stock[s] - q /\ q \in Int
    BY <1>3, <2>1, TablesTyped
  <2>3. Total(Net(book', s)) = net - q
    BY <1>6, DeductNet DEF net
  <2>4. UNCHANGED <<adjusted, raced, received>>
    BY <1>6 DEF DeductStock, manual
  <2> HIDE DEF q
  <2> QED  BY <1>2, <1>3, <1>4, <2>2, <2>3, <2>4 DEF in
<1>7. ASSUME NEW c \in Callers, RestoreCommit(c) PROVE stock'[s] = Opening[s] + Gained(s)'
  <2> DEFINE q(t) == Total([j \in {j \in call[c].jobs : j.sku = t} |-> j.qty])
  <2>1. stock' = [t \in Skus |-> stock[t] + q(t)]
    BY <1>7, RestoreFacts
  <2>2. q(s) \in Nat
    BY BackTyped
  <2>3. Total(Net(book', s)) = net + q(s)
    BY <1>7, RestoreNet DEF net, LedgerInv
  <2>4. UNCHANGED <<adjusted, raced, received>>
    BY <1>7 DEF RestoreCommit, manual
  <2> HIDE DEF q
  <2> QED  BY <1>2, <1>3, <1>4, <2>1, <2>2, <2>3, <2>4 DEF in
<1>8. ASSUME NEW p \in Purchases, Receive(p) PROVE stock'[s] = Opening[s] + Gained(s)'
  <2> DEFINE q == IF s = p.sku THEN p.qty ELSE 0
  <2>1. stock' = [stock EXCEPT ![p.sku] = @ + p.qty] /\ p.qty \in Nat
    BY <1>8, PurchaseTyped DEF Receive
  <2>2. stock'[s] = stock[s] + q /\ q \in Int
    BY <1>3, <2>1, TablesTyped
  <2>3. Total(Came(received', s)) = in + q
    BY <1>8, ReceiveCame DEF in, LedgerInv
  <2>4. UNCHANGED <<adjusted, raced, book>>
    BY <1>8 DEF Receive, manual
  <2> HIDE DEF q
  <2> QED  BY <1>2, <1>3, <1>4, <2>2, <2>3, <2>4 DEF net
<1>9. ASSUME NEW a \in Adjusters, AdjustWrite(a) PROVE stock'[s] = Opening[s] + Gained(s)'
  <2> DEFINE t == adjusting[a].sku
  <2>1. /\ UNCHANGED <<received, book>>
        /\ \/ UNCHANGED <<stock, adjusted, raced>>
           \/ /\ stock' = [stock EXCEPT ![t] = NewTotal(a)]
              /\ adjusted' = [adjusted EXCEPT ![t] = @ + Delta(a)]
              /\ raced' = IF stock[t] = adjusting[a].total THEN raced ELSE raced \union {t}
    BY <1>9 DEF AdjustWrite, manual
  <2>2. /\ Delta(a) \in Int /\ adjusting[a].total \in Int
        /\ NewTotal(a) = adjusting[a].total + Delta(a)
    BY <1>9, DeltaTyped DEF AdjustWrite, NewTotal
  <2>3. CASE UNCHANGED <<stock, adjusted, raced>>
    BY <1>5, <2>1, <2>3
  <2>4. CASE /\ stock' = [stock EXCEPT ![t] = NewTotal(a)]
             /\ adjusted' = [adjusted EXCEPT ![t] = @ + Delta(a)]
             /\ raced' = IF stock[t] = adjusting[a].total THEN raced ELSE raced \union {t}
    <3>1. s \notin raced /\ (s = t => stock[s] = adjusting[a].total)
      BY <2>4
    <3>2. /\ stock'[s] = stock[s] + IF s = t THEN Delta(a) ELSE 0
          /\ adjusted'[s] = adjusted[s] + IF s = t THEN Delta(a) ELSE 0
      BY <1>3, <2>2, <2>4, <3>1, TablesTyped, ManualTyped
    <3> HIDE DEF t
    <3> QED  BY <1>2, <1>3, <1>4, <2>1, <2>2, <3>1, <3>2 DEF in, net
  <2> QED  BY <2>1, <2>3, <2>4
<1>10. ASSUME NEW c \in Callers, CallerStep(c), ~DeductStock(c), ~RestoreCommit(c)
       PROVE  UNCHANGED <<stock, adjusted, raced, received, book>>
  BY <1>10 DEF CallerStep, StartDeduct, StartRestore, SkipUnbound, ReadLine, Acquire, PassExpired,
       Replay, Busy, Conflict, Leave, FailShort, WriteRefused, RestoreRead, RestoreLock,
       RestoreRefused, Abort, manual
<1>11. CASE \/ \E x \in Slots : LeaseLapses(x) \/ KeyExpires(x)
            \/ \E l \in Lines, t \in Skus : Bind(l, t)
            \/ \E l \in Lines, q \in Quantities : Resize(l, q)
            \/ \E t \in Skus, from, to \in Warehouses, q \in Quantities : Transfer(t, from, to, q)
            \/ \E a \in Adjusters, t \in Skus, wh \in Open \union {NoPin}, level \in Levels :
                 AdjustRead(a, t, wh, level)
            \/ LogSync
            \/ UNCHANGED vars
  <2>1. UNCHANGED <<stock, adjusted, raced, received, book>>
    BY <1>11 DEF LeaseLapses, KeyExpires, Bind, Resize, Transfer, AdjustRead, LogSync, vars, manual
  <2> QED  BY <1>5, <2>1
<1>12. CASE \E c \in Callers : CallerStep(c)
  BY <1>5, <1>6, <1>7, <1>10, <1>12
<1> QED  BY <1>8, <1>9, <1>11, <1>12 DEF Next

LEMMA StepReceived == TypeInv /\ IsFiniteSet(received) /\ [Next]_vars => IsFiniteSet(received')
<1> SUFFICES ASSUME IsFiniteSet(received), [Next]_vars PROVE IsFiniteSet(received')
  OBVIOUS
<1>1. received' = received \/ \E p \in Purchases : received' = received \union {p}
  BY DEF Next, CallerStep, StartDeduct, StartRestore, SkipUnbound, ReadLine, Acquire, PassExpired,
       Replay, Busy, Conflict, Leave, FailShort, DeductStock, WriteRefused, RestoreRead,
       RestoreLock, RestoreCommit, RestoreRefused, Abort, LeaseLapses, KeyExpires, Bind, Resize,
       Receive, Transfer, AdjustRead, AdjustWrite, LogSync, vars
<1> QED  BY <1>1, FS_AddElement

\* The change logs account for every change of a stock that no adjustment has
\* overwritten: nothing is booked twice or not at all, in one warehouse or
\* spread over several, for one line or a whole order.
THEOREM TheLedgerAddsUp == Spec => []LedgerAddsUp
<1>1. TypeInv /\ RoundsInv /\ LedgerInv /\ [Next]_vars => LedgerInv'
  BY StepJobsApart, StepReceived, StepLedger DEF LedgerInv
<1>2. LedgerInv => LedgerAddsUp
  BY DEF LedgerInv
<1> QED
  BY InitTypeInv, StepTypeInv, InitRoundsInv, StepRoundsInv, InitLedgerInv, <1>1, <1>2, PTL DEF Spec

-------------------------------------------------------------------------------
(* Keys and books *)

\* What only this proof needs of the shape of the two tables
Shape ==
  /\ DOMAIN book = Slots
  /\ \A x \in Slots : DOMAIN book[x] = {"deducted", "restored", "took", "gave"}
  /\ DOMAIN key = Slots
  /\ \A x \in Slots :
       DOMAIN key[x] = {"status", "owner", "qty", "reason", "live", "fresh"}

IInv == Shape /\ KeysMatchTheBooks

\* What one write does to the rows of a table, whether or not the slot is one
LEMMA WriteOne ==
  ASSUME NEW f, DOMAIN f = Slots, NEW y, NEW e
  PROVE  LET g == [f EXCEPT ![y] = e]
         IN  DOMAIN g = Slots /\ \A x \in Slots : g[x] = IF x = y THEN e ELSE f[x]
  OBVIOUS

LEMMA InitIInv == Init => IInv
<1> SUFFICES ASSUME Init PROVE IInv
  OBVIOUS
<1>1. /\ DOMAIN book = Slots
      /\ \A x \in Slots : book[x] = Blank
      /\ DOMAIN key = Slots
      /\ \A x \in Slots : key[x] = NoKey
  BY DEF Init
<1>2. DOMAIN Blank = {"deducted", "restored", "took", "gave"} /\ Blank.deducted = FALSE
  BY DEF Blank
<1>3. /\ DOMAIN NoKey = {"status", "owner", "qty", "reason", "live", "fresh"}
      /\ NoKey.status = "absent"
  BY DEF NoKey
<1>4. Shape
  BY <1>1, <1>2, <1>3 DEF Shape
<1>5. KeysMatchTheBooks
  BY <1>1, <1>2, <1>3 DEF KeysMatchTheBooks
<1> QED
  BY <1>4, <1>5 DEF IInv

\* Steps that write neither table keep the invariant.
LEMMA NeitherTable == IInv /\ UNCHANGED <<book, key>> => IInv'
  BY DEF IInv, Shape, KeysMatchTheBooks

\* A line that is booked has its record succeed in the same transaction.
LEMMA DeductStockIInv == \A c : IInv /\ DeductStock(c) => IInv'
<1> SUFFICES ASSUME NEW c, IInv, DeductStock(c) PROVE IInv'
  OBVIOUS
<1> DEFINE x == Slot(c)
           took == Allocation(Item(c).sku, Item(c).qty, call[c].opts.pin)
           b == [book[x] EXCEPT !.deducted = TRUE, !.took = took]
           k == [key[x] EXCEPT !.status = "succeeded", !.live = FALSE]
<1>1. book' = [book EXCEPT ![x] = b] /\ key' = [key EXCEPT ![x] = k]
  BY DEF DeductStock
<1>2. /\ DOMAIN book' = Slots
      /\ \A y \in Slots : book'[y] = IF y = x THEN b ELSE book[y]
  BY <1>1, WriteOne DEF IInv, Shape
<1>3. /\ DOMAIN key' = Slots
      /\ \A y \in Slots : key'[y] = IF y = x THEN k ELSE key[y]
  BY <1>1, WriteOne DEF IInv, Shape
<1>4. ASSUME x \in Slots
      PROVE  /\ DOMAIN b = {"deducted", "restored", "took", "gave"}
             /\ b.deducted = TRUE
             /\ DOMAIN k = {"status", "owner", "qty", "reason", "live", "fresh"}
             /\ k.status = "succeeded"
  BY <1>4 DEF IInv, Shape
<1>5. Shape'
  BY <1>2, <1>3, <1>4 DEF IInv, Shape, Slots
<1>6. KeysMatchTheBooks'
  BY <1>2, <1>3, <1>4 DEF IInv, KeysMatchTheBooks, Slots
<1> QED
  BY <1>5, <1>6 DEF IInv

\* A restore writes the logs of its own rounds beside those of the deductions.
LEMMA RestoreCommitIInv == \A c : IInv /\ RestoreCommit(c) => IInv'
<1> SUFFICES ASSUME NEW c, IInv, RestoreCommit(c) PROVE IInv'
  OBVIOUS
<1> DEFINE In(x) == {j \in {j \in call[c].jobs : j.line = x[1] /\ j.sku = x[2]} :
                       j.round = x[3]}
           back(x) == GivenBack(CHOOSE j \in In(x) : TRUE)
<1>1. /\ book' = [x \in Slots |->
                    IF In(x) = {} THEN book[x]
                    ELSE [book[x] EXCEPT !.restored = TRUE, !.gave = back(x)]]
      /\ key' = key
  BY DEF RestoreCommit
<1> HIDE DEF In, back
<1>2. DOMAIN book' = Slots
  BY <1>1
<1>3. ASSUME NEW x \in Slots
      PROVE  DOMAIN book'[x] = DOMAIN book[x] /\ book'[x].deducted = book[x].deducted
  <2>1. DOMAIN book[x] = {"deducted", "restored", "took", "gave"}
    BY DEF IInv, Shape
  <2> QED
    BY <1>1, <2>1
<1>4. Shape'
  BY <1>1, <1>2, <1>3 DEF IInv, Shape, Slots
<1>5. KeysMatchTheBooks'
  BY <1>1, <1>3 DEF IInv, KeysMatchTheBooks, Slots
<1> QED
  BY <1>4, <1>5 DEF IInv

LEMMA StepIInv == IInv /\ [Next]_vars => IInv'
<1> SUFFICES ASSUME IInv, [Next]_vars PROVE IInv'
  OBVIOUS
<1>1. ASSUME NEW c \in Callers, Acquire(c) PROVE IInv'
  <2> DEFINE e == [key[Slot(c)] EXCEPT !.status = "processing", !.live = TRUE,
                     !.owner = call[c].opts.owner, !.qty = Item(c).qty,
                     !.reason = call[c].opts.reason]
  <2>1. key' = [key EXCEPT ![Slot(c)] = e] /\ book' = book
    BY <1>1 DEF Acquire
  <2>2. key[Slot(c)].status # "succeeded"
    BY <1>1 DEF Acquire, Acquirable
  <2> QED
    BY <2>1, <2>2 DEF IInv, Shape, KeysMatchTheBooks
<1>2. ASSUME NEW c \in Callers, FailShort(c) PROVE IInv'
  <2> DEFINE e == [key[Slot(c)] EXCEPT !.status = "failed", !.live = FALSE]
  <2>1. CASE KeyIsMine(c)
    <3>1. key' = [key EXCEPT ![Slot(c)] = e] /\ book' = book
      BY <1>2, <2>1 DEF FailShort
    <3>2. key[Slot(c)].status # "succeeded"
      BY <2>1 DEF KeyIsMine
    <3> QED
      BY <3>1, <3>2 DEF IInv, Shape, KeysMatchTheBooks
  <2>2. CASE ~KeyIsMine(c)
    BY <1>2, <2>2, NeitherTable DEF FailShort
  <2> QED
    BY <2>1, <2>2
<1>3. ASSUME NEW x \in Slots, LeaseLapses(x) \/ KeyExpires(x) PROVE IInv'
  BY <1>3 DEF LeaseLapses, KeyExpires, IInv, Shape, KeysMatchTheBooks
<1>4. ASSUME NEW c \in Callers, CallerStep(c) PROVE IInv'
  <2>1. CASE Acquire(c) \/ FailShort(c) \/ DeductStock(c) \/ RestoreCommit(c)
    BY <1>1, <1>2, <2>1, DeductStockIInv, RestoreCommitIInv
  <2>2. CASE ~(Acquire(c) \/ FailShort(c) \/ DeductStock(c) \/ RestoreCommit(c))
    <3>1. UNCHANGED <<book, key>>
      BY <1>4, <2>2 DEF CallerStep, StartDeduct, SkipUnbound, ReadLine, PassExpired,
         Replay, Busy, Conflict, Leave, WriteRefused, StartRestore, RestoreRead,
         RestoreLock, RestoreRefused, Abort
    <3> QED
      BY <3>1, NeitherTable
  <2> QED
    BY <2>1, <2>2
<1>5. ASSUME NEW l \in Lines, NEW s \in Skus, Bind(l, s) PROVE IInv'
  BY <1>5, NeitherTable DEF Bind
<1>6. ASSUME NEW l \in Lines, NEW q \in Quantities, Resize(l, q) PROVE IInv'
  BY <1>6, NeitherTable DEF Resize
<1>7. ASSUME NEW p \in Purchases, Receive(p) PROVE IInv'
  BY <1>7, NeitherTable DEF Receive
<1>8. ASSUME NEW s \in Skus, NEW from \in Warehouses, NEW to \in Warehouses,
             NEW q \in Quantities, Transfer(s, from, to, q)
      PROVE  IInv'
  BY <1>8, NeitherTable DEF Transfer
<1>9. ASSUME NEW a \in Adjusters, NEW s \in Skus, NEW wh \in Open \union {NoPin},
             NEW level \in Levels, AdjustRead(a, s, wh, level)
      PROVE  IInv'
  BY <1>9, NeitherTable DEF AdjustRead
<1>10. ASSUME NEW a \in Adjusters, AdjustWrite(a) PROVE IInv'
  BY <1>10, NeitherTable DEF AdjustWrite
<1>11. CASE LogSync
  BY <1>11, NeitherTable DEF LogSync
<1>12. CASE UNCHANGED vars
  BY <1>12, NeitherTable DEF vars
<1> QED
  BY <1>3, <1>4, <1>5, <1>6, <1>7, <1>8, <1>9, <1>10, <1>11, <1>12 DEF Next

-------------------------------------------------------------------------------
\* A deduction's record has succeeded if and only if its change log is there,
\* whatever leases lapse, requests die or warehouses lack (completeDeductLine
\* and the change log in one transaction).
THEOREM KeysAndBooksAgree == Spec => []KeysMatchTheBooks
<1>1. IInv => KeysMatchTheBooks
  BY DEF IInv
<1> QED
  BY InitIInv, StepIInv, <1>1, PTL DEF Spec

===============================================================================
