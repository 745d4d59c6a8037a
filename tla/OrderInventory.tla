---------------------------- MODULE OrderInventory ----------------------------
(***************************************************************************)
(* Stock taken for orders and given back: DeductInventoryForOrder and      *)
(* RestoreInventoryForOrder of backend/internal/modules/inventory, beside  *)
(* everything else that writes the same stock.                             *)
(*                                                                         *)
(* A deduction handles the lines of an order one transaction after the     *)
(* other. In each it reads what is on record of the line, acquires the     *)
(* idempotency key of the line's round over a connection of its own, and   *)
(* only then locks the SKU and does the rest, so a line is three steps:    *)
(* read, acquire, write. A restore is one transaction for all lines: it    *)
(* reads a line, locks its SKU, goes on to the next and commits at the     *)
(* end. Both read BEFORE they lock; what stops a second booking of a round *)
(* is the unique business_event_key of the change log.                     *)
(*                                                                         *)
(* The lines are the ones loaded when the call began; binding a line to    *)
(* another SKU and changing its quantity go on meanwhile. A SKU's stock    *)
(* lies in warehouses: the table has a row for every one but the default,  *)
(* which holds what is left of product_skus.stock.                         *)
(***************************************************************************)
EXTENDS Integers, Sequences, FiniteSets, Functions

CONSTANTS
  Lines, Skus,
  Orders,       \* orders, each the sequence of its lines
  Placed,       \* what the lines may be when their orders are placed
  Warehouses,
  Main,         \* the default warehouse
  Priority,     \* the warehouses in the order they are taken from
  Open,         \* those that are enabled; the default one always is
  Callers,      \* requests and order syncs
  Adjusters,    \* administrators setting a stock by hand
  Options,      \* what a caller may ask for: owner, reason, neg, pin
  Quantities,   \* bound: quantities of lines and transfers
  Levels,       \* bound: stocks set by hand
  Opening,      \* stock of each SKU at the start
  Purchases,    \* lines of purchase orders still to come in
  MaxRounds,    \* bound: rounds are 0..MaxRounds
  MaxEvents     \* bound: lapses, expiries, edits, transfers, adjustments, syncs

NoSku == "no sku"
NoOne == "no one"
NoPin == "no warehouse"
Others == Warehouses \ {Main}

ASSUME WarehousesAssumption ==
  /\ IsFiniteSet(Warehouses)
  /\ Main \in Warehouses
  /\ Main \in Open
  /\ Open \subseteq Warehouses
  /\ NoPin \notin Warehouses

ASSUME RowsAssumption == IsFiniteSet(Lines) /\ IsFiniteSet(Skus)

ASSUME NamesAssumption == NoSku \notin Skus /\ NoOne \notin Callers

ASSUME LinesAssumption ==
  /\ Orders \subseteq Seq(Lines)
  /\ \A o \in Orders : o # <<>> /\ IsInjective(o)

ASSUME BoundsAssumption ==
  /\ MaxRounds \in Nat
  /\ MaxEvents \in Nat
  /\ Quantities \subseteq Nat \ {0}
  /\ Placed \subseteq [Lines -> [sku: Skus \union {NoSku}, qty: Quantities]]
  /\ Levels \subseteq Nat
  /\ Opening \in [Skus -> Nat]
  /\ Options \subseteq [owner: STRING, reason: STRING, neg: BOOLEAN,
                        pin: Warehouses \union {NoPin}]
  /\ Purchases \subseteq [sku: Skus, wh: Warehouses, qty: Nat \ {0}]

VARIABLES
  stock,      \* product_skus.stock
  held,       \* warehouse_stocks: what lies in each but the default one
  line,       \* order_items: the SKU and the quantity of a line
  effect,     \* order_inventory_effects: the latest state per line and SKU
  book,       \* inventory_change_logs of orders, by line, SKU and round
  key,        \* idempotency_records of deductions, by line, SKU and round
  lock,       \* the restore that has locked a SKU's row
  call,       \* where each caller is
  adjusting,  \* where each adjustment is
  adjusted,   \* the sum of the deltas adjustments have logged
  raced,      \* SKUs an adjustment has overwritten on a stale reading
  keyless,    \* the change log has a row without a business_event_key
  received,   \* purchases that are in
  events      \* lapses, expiries, edits, transfers, adjustments, syncs so far

vars == <<stock, held, line, effect, book, key, lock, call, adjusting,
          adjusted, raced, keyless, received, events>>

\* What only adjustments and platform syncs write
manual == <<adjusted, raced, keyless>>

Rounds == 0..MaxRounds

Slots == Lines \X Skus \X Rounds

Items == [line: Lines, sku: Skus \union {NoSku}, qty: Quantities]

Effects == [deduct: {"none", "skipped", "failed", "success"},
            restore: {"none", "success"}]

Entries == [deducted: BOOLEAN, restored: BOOLEAN,
            took: [Warehouses -> Int], gave: [Warehouses -> Int]]

Keys == [status: {"absent", "processing", "succeeded", "failed"},
         owner: {o.owner : o \in Options} \union {NoOne},
         qty: Quantities \union {0},
         reason: {o.reason : o \in Options} \union {""},
         live: BOOLEAN, fresh: BOOLEAN]

Jobs == [line: Lines, sku: Skus, qty: Quantities, round: Rounds]

NoEffect == [deduct |-> "none", restore |-> "none"]

Nothing == [w \in Warehouses |-> 0]

Blank == [deducted |-> FALSE, restored |-> FALSE,
          took |-> Nothing, gave |-> Nothing]

NoKey == [status |-> "absent", owner |-> NoOne, qty |-> 0, reason |-> "",
          live |-> FALSE, fresh |-> TRUE]

NoOptions == [owner |-> NoOne, reason |-> "", neg |-> FALSE, pin |-> NoPin]

Idle == [op |-> "none", at |-> "idle", rest |-> <<>>, opts |-> NoOptions,
         round |-> 0, jobs |-> {}]

NotAdjusting == [sku |-> NoSku, wh |-> NoPin, level |-> 0, total |-> 0]

-------------------------------------------------------------------------------
(* What is on record of a line *)

Total(f) == SumFunction(f)

CurrentlyDeducted(l, s) ==
  effect[<<l, s>>].deduct = "success" /\ effect[<<l, s>>].restore # "success"

\* The number of logs restores have left is the round of the next deduction;
\* a restore leaves one for every warehouse it gives something back to.
RestoreRounds(l, s) ==
  Cardinality({x \in Rounds \X Warehouses : book[<<l, s, x[1]>>].gave[x[2]] > 0})

\* warehouseAvailsTx: the default warehouse has what the others leave.
Avail(s, w) == IF w = Main THEN stock[s] - Total(held[s]) ELSE held[s][w]

-------------------------------------------------------------------------------
(* allocateDeduction *)

Rank(w) == CHOOSE i \in DOMAIN Priority : Priority[i] = w

Usable(s) == {w \in Open : Avail(s, w) > 0}

\* What the warehouses before w can give
Ahead(s, w) ==
  Total([v \in {v \in Usable(s) : Rank(v) < Rank(w)} |-> Avail(s, v)])

Least(a, b) == IF a < b THEN a ELSE b

InTurn(s, q) ==
  [w \in Warehouses |->
     IF w \in Usable(s) /\ Ahead(s, w) < q
     THEN Least(Avail(s, w), q - Ahead(s, w)) ELSE 0]

\* From the warehouse asked for, or in turn; the default one has the remainder.
Allocation(s, q, pin) ==
  IF pin # NoPin THEN [Nothing EXCEPT ![pin] = q]
  ELSE LET turn == InTurn(s, q)
       IN  [turn EXCEPT ![Main] = @ + (q - Total(turn))]

\* Mutant: the default warehouse has a row as well.
MovedEverywhere(s, f, sign) ==
  [w \in Warehouses |-> (IF w = Main THEN Avail(s, w) ELSE held[s][w]) + sign * f[w]]

\* Only rows of warehouse_stocks: the default warehouse has none.
Moved(s, f, sign) == [w \in Others |-> held[s][w] + sign * f[w]]

-------------------------------------------------------------------------------
Init ==
  /\ stock = Opening
  /\ held = [s \in Skus |-> [w \in Others |-> 0]]
  /\ line \in Placed
  /\ effect = [x \in Lines \X (Skus \union {NoSku}) |-> NoEffect]
  /\ book = [x \in Slots |-> Blank]
  /\ key = [x \in Slots |-> NoKey]
  /\ lock = [s \in Skus |-> NoOne]
  /\ call = [c \in Callers |-> Idle]
  /\ adjusting = [a \in Adjusters |-> NotAdjusting]
  /\ adjusted = [s \in Skus |-> 0]
  /\ raced = {}
  /\ keyless = FALSE
  /\ received = {}
  /\ events = 0

\* loadOrderItems
Loaded(o) == [i \in DOMAIN o |-> [line |-> o[i], sku |-> line[o[i]].sku,
                                  qty |-> line[o[i]].qty]]

-------------------------------------------------------------------------------
(* DeductInventoryForOrder *)

Item(c) == Head(call[c].rest)

Slot(c) == <<Item(c).line, Item(c).sku, call[c].round>>

At(c, op, at) == call[c].op = op /\ call[c].at = at

\* The transaction of this line is over: the next line, or the end.
NextLine(c) ==
  IF Tail(call[c].rest) = <<>> THEN Idle
  ELSE [call[c] EXCEPT !.at = "read", !.rest = Tail(@), !.round = 0]

StartDeduct(c, o, opts) ==
  /\ call[c].at = "idle"
  /\ call' = [call EXCEPT ![c] = [Idle EXCEPT !.op = "deduct", !.at = "read",
                                              !.rest = Loaded(o), !.opts = opts]]
  /\ UNCHANGED <<stock, held, line, effect, book, key, lock, adjusting,
                 manual, received, events>>

\* A line without a SKU leaves a row that says so, once.
SkipUnbound(c) ==
  /\ At(c, "deduct", "read")
  /\ Item(c).sku = NoSku
  /\ effect' = [effect EXCEPT ![<<Item(c).line, NoSku>>] =
                  [@ EXCEPT !.deduct = "skipped"]]
  /\ call' = [call EXCEPT ![c] = NextLine(c)]
  /\ UNCHANGED <<stock, held, line, book, key, lock, adjusting, manual,
                 received, events>>

\* loadLineEffectState, without a lock
ReadLine(c) ==
  /\ At(c, "deduct", "read")
  /\ Item(c).sku # NoSku
  /\ LET l == Item(c).line
         s == Item(c).sku
     IN  IF CurrentlyDeducted(l, s)
         THEN call' = [call EXCEPT ![c] = NextLine(c)]
         ELSE /\ RestoreRounds(l, s) \in Rounds
              /\ call' = [call EXCEPT ![c] =
                            [@ EXCEPT !.at = "acquire",
                                      !.round = RestoreRounds(l, s)]]
  /\ UNCHANGED <<stock, held, line, effect, book, key, lock, adjusting,
                 manual, received, events>>

\* The request hash is made of the quantity and the reason.
SameRequest(c) ==
  LET k == key[Slot(c)]
  IN  k.qty = Item(c).qty /\ k.reason = call[c].opts.reason

Acquirable(c) ==
  LET k == key[Slot(c)]
  IN  \/ k.status = "absent"
      \/ /\ k.status = "processing"
         /\ SameRequest(c)
         /\ k.fresh
         /\ ~k.live \/ k.owner = call[c].opts.owner

\* acquireDeductLine: the record is created or taken over ...
Acquire(c) ==
  /\ At(c, "deduct", "acquire")
  /\ Acquirable(c)
  /\ key' = [key EXCEPT ![Slot(c)] =
               [@ EXCEPT !.status = "processing", !.live = TRUE,
                         !.owner = call[c].opts.owner, !.qty = Item(c).qty,
                         !.reason = call[c].opts.reason]]
  /\ call' = [call EXCEPT ![c] = [@ EXCEPT !.at = "write"]]
  /\ UNCHANGED <<stock, held, line, effect, book, lock, adjusting, manual,
                 received, events>>

\* ... or is past its seven days, and the line goes on without it ...
PassExpired(c) ==
  /\ At(c, "deduct", "acquire")
  /\ key[Slot(c)].status # "absent"
  /\ SameRequest(c)
  /\ ~key[Slot(c)].fresh
  /\ call' = [call EXCEPT ![c] = [@ EXCEPT !.at = "write"]]
  /\ UNCHANGED <<stock, held, line, effect, book, key, lock, adjusting,
                 manual, received, events>>

\* ... or has succeeded, and resolveExistingDeductOutcome reports that ...
Replay(c) ==
  /\ At(c, "deduct", "acquire")
  /\ SameRequest(c)
  /\ key[Slot(c)].fresh
  /\ key[Slot(c)].status = "succeeded"
  /\ call' = [call EXCEPT ![c] = NextLine(c)]
  /\ UNCHANGED <<stock, held, line, effect, book, key, lock, adjusting,
                 manual, received, events>>

\* ... or is being processed, which ends the call with an error ...
Busy(c) ==
  /\ At(c, "deduct", "acquire")
  /\ SameRequest(c)
  /\ key[Slot(c)].fresh
  /\ key[Slot(c)].status = "processing"
  /\ ~Acquirable(c)
  /\ call' = [call EXCEPT ![c] = Idle]
  /\ UNCHANGED <<stock, held, line, effect, book, key, lock, adjusting,
                 manual, received, events>>

\* ... as does another request's key, and one that has failed for good.
Conflict(c) ==
  /\ At(c, "deduct", "acquire")
  /\ key[Slot(c)].status # "absent"
  /\ \/ ~SameRequest(c)
     \/ key[Slot(c)].fresh /\ key[Slot(c)].status = "failed"
  /\ call' = [call EXCEPT ![c] = [@ EXCEPT !.at = "refused"]]
  /\ UNCHANGED <<stock, held, line, effect, book, key, lock, adjusting,
                 manual, received, events>>

Leave(c) ==
  /\ call[c].at = "refused"
  /\ call' = [call EXCEPT ![c] = Idle]
  /\ UNCHANGED <<stock, held, line, effect, book, key, lock, adjusting,
                 manual, received, events>>

\* Mutants: only one of the two is looked at.
ShortInWarehouse(c) ==
  LET pin == call[c].opts.pin
  IN  ~call[c].opts.neg /\ pin \in Open /\ Avail(Item(c).sku, pin) < Item(c).qty

ShortInAll(c) == ~call[c].opts.neg /\ stock[Item(c).sku] < Item(c).qty

\* Too little in all, or too little in the warehouse asked for
Short(c) ==
  LET s == Item(c).sku
      q == Item(c).qty
      pin == call[c].opts.pin
  IN  /\ ~call[c].opts.neg
      /\ stock[s] < q \/ (pin \in Open /\ Avail(s, pin) < q)

\* Mutant: whatever has become of the key
KeyWasMine(c) == key[Slot(c)].owner = call[c].opts.owner

KeyIsMine(c) ==
  /\ key[Slot(c)].status = "processing"
  /\ key[Slot(c)].owner = call[c].opts.owner

\* A failed effect, unless one that succeeded is there, and a key that has
\* failed for good if it is still this caller's
FailShort(c) ==
  /\ At(c, "deduct", "write")
  /\ lock[Item(c).sku] = NoOne
  /\ Short(c)
  /\ IF effect[<<Item(c).line, Item(c).sku>>].deduct = "success" THEN UNCHANGED effect
     ELSE effect' = [effect EXCEPT ![<<Item(c).line, Item(c).sku>>] =
                       [@ EXCEPT !.deduct = "failed"]]
  /\ IF KeyIsMine(c)
     THEN key' = [key EXCEPT ![Slot(c)] = [@ EXCEPT !.status = "failed",
                                                    !.live = FALSE]]
     ELSE UNCHANGED key
  /\ call' = [call EXCEPT ![c] = NextLine(c)]
  /\ UNCHANGED <<stock, held, line, book, lock, adjusting, manual, received,
                 events>>

\* The unique index has no row of this round, and Complete finds the key as
\* Acquire left it.
Bookable(c) == ~book[Slot(c)].deducted /\ KeyIsMine(c) /\ key[Slot(c)].live

Takeable(c) == call[c].opts.pin \in Open \union {NoPin}

\* Mutant: the row of the last restore is left where it is.
DeductRowOnly(l, s) == [effect[<<l, s>>] EXCEPT !.deduct = "success"]

\* Effect rows keep the latest state only.
AfterDeduct(l, s) == [deduct |-> "success", restore |-> "none"]

\* Change logs, warehouses, stock, effect and key in one transaction
DeductStock(c) ==
  /\ At(c, "deduct", "write")
  /\ lock[Item(c).sku] = NoOne
  /\ ~Short(c)
  /\ Takeable(c)
  /\ Bookable(c)
  /\ LET l == Item(c).line
         s == Item(c).sku
         q == Item(c).qty
         took == Allocation(s, q, call[c].opts.pin)
     IN  /\ stock' = [stock EXCEPT ![s] = @ - q]
         /\ held' = [held EXCEPT ![s] = Moved(s, took, -1)]
         /\ effect' = [effect EXCEPT ![<<l, s>>] = AfterDeduct(l, s)]
         /\ book' = [book EXCEPT ![Slot(c)] = [@ EXCEPT !.deducted = TRUE,
                                                        !.took = took]]
         /\ key' = [key EXCEPT ![Slot(c)] = [@ EXCEPT !.status = "succeeded",
                                                      !.live = FALSE]]
  /\ call' = [call EXCEPT ![c] = NextLine(c)]
  /\ UNCHANGED <<line, lock, adjusting, manual, received, events>>

\* A disabled warehouse, a row that is there, or a lease lost: all is undone.
WriteRefused(c) ==
  /\ At(c, "deduct", "write")
  /\ lock[Item(c).sku] = NoOne
  /\ ~Short(c)
  /\ ~(Takeable(c) /\ Bookable(c))
  /\ call' = [call EXCEPT ![c] = Idle]
  /\ UNCHANGED <<stock, held, line, effect, book, key, lock, adjusting,
                 manual, received, events>>

-------------------------------------------------------------------------------
(* RestoreInventoryForOrder *)

StartRestore(c, o) ==
  /\ call[c].at = "idle"
  /\ call' = [call EXCEPT ![c] = [Idle EXCEPT !.op = "restore", !.at = "read",
                                              !.rest = Loaded(o)]]
  /\ UNCHANGED <<stock, held, line, effect, book, key, lock, adjusting,
                 manual, received, events>>

\* Lines that are not deducted are passed over.
RestoreRead(c) ==
  /\ At(c, "restore", "read")
  /\ call[c].rest # <<>>
  /\ LET l == Item(c).line
         s == Item(c).sku
     IN  IF s # NoSku /\ CurrentlyDeducted(l, s)
         THEN /\ RestoreRounds(l, s) \in Rounds
              /\ call' = [call EXCEPT ![c] =
                            [@ EXCEPT !.at = "lock", !.round = RestoreRounds(l, s)]]
         ELSE call' = [call EXCEPT ![c] = [call[c] EXCEPT !.rest = Tail(@)]]
  /\ UNCHANGED <<stock, held, line, effect, book, key, lock, adjusting,
                 manual, received, events>>

RestoreLock(c) ==
  /\ At(c, "restore", "lock")
  /\ lock[Item(c).sku] \in {NoOne, c}
  /\ lock' = [lock EXCEPT ![Item(c).sku] = c]
  /\ call' = [call EXCEPT ![c] =
                [call[c] EXCEPT !.at = "read", !.rest = Tail(@),
                   !.jobs = @ \union {[line |-> Item(c).line, sku |-> Item(c).sku,
                                       qty |-> Item(c).qty, round |-> call[c].round]}]]
  /\ UNCHANGED <<stock, held, line, effect, book, key, adjusting, manual,
                 received, events>>

Released(c) == [s \in Skus |-> IF lock[s] = c THEN NoOne ELSE lock[s]]

\* Mutant: there are no unique indexes.
AlwaysRestorable(j) == TRUE

\* Two unique indexes: one on the key of the round's change log, one on the
\* restore row of the line's effects
Restorable(j) ==
  /\ ~book[<<j.line, j.sku, j.round>>].restored
  /\ effect[<<j.line, j.sku>>].restore # "success"

\* To the warehouses it came from, or all to the default one when the logs of
\* the round do not add up to the quantity of the line
GivenBack(j) ==
  LET took == book[<<j.line, j.sku, j.round>>].took
  IN  IF Total(took) = j.qty THEN took ELSE [Nothing EXCEPT ![Main] = j.qty]

\* The sum over a call's jobs of what each gives back to a SKU, in warehouse w
BackTo(jobs, s, w) ==
  Total([j \in {j \in jobs : j.sku = s} |-> GivenBack(j)[w]])

RestoreCommit(c) ==
  /\ At(c, "restore", "read")
  /\ call[c].rest = <<>>
  /\ \A j \in call[c].jobs : Restorable(j)
  /\ LET jobs == call[c].jobs
         Of(x) == {j \in jobs : j.line = x[1] /\ j.sku = x[2]}
         In(x) == {j \in Of(x) : j.round = x[3]}
     IN  /\ stock' = [s \in Skus |-> stock[s]
                        + Total([j \in {j \in jobs : j.sku = s} |-> j.qty])]
         /\ held' = [s \in Skus |-> [w \in Others |->
                                       held[s][w] + BackTo(jobs, s, w)]]
         /\ effect' = [x \in Lines \X (Skus \union {NoSku}) |->
                         IF Of(x) = {} THEN effect[x]
                         ELSE [effect[x] EXCEPT !.restore = "success"]]
         /\ book' = [x \in Slots |->
                       IF In(x) = {} THEN book[x]
                       ELSE [book[x] EXCEPT !.restored = TRUE,
                               !.gave = GivenBack(CHOOSE j \in In(x) : TRUE)]]
  /\ lock' = Released(c)
  /\ call' = [call EXCEPT ![c] = Idle]
  /\ UNCHANGED <<line, key, adjusting, manual, received, events>>

\* A row is there already: the whole transaction is undone.
RestoreRefused(c) ==
  /\ At(c, "restore", "read")
  /\ call[c].rest = <<>>
  /\ \E j \in call[c].jobs : ~Restorable(j)
  /\ lock' = Released(c)
  /\ call' = [call EXCEPT ![c] = Idle]
  /\ UNCHANGED <<stock, held, line, effect, book, key, adjusting, manual,
                 received, events>>

\* A database error, the victim of a deadlock or a dead process: the open
\* transaction is undone, and what Acquire has committed stays.
Abort(c) ==
  /\ call[c].at # "idle"
  /\ lock' = Released(c)
  /\ call' = [call EXCEPT ![c] = Idle]
  /\ UNCHANGED <<stock, held, line, effect, book, key, adjusting, manual,
                 received, events>>

-------------------------------------------------------------------------------
(* Time *)

LeaseLapses(x) ==
  /\ key[x].live
  /\ events < MaxEvents
  /\ key' = [key EXCEPT ![x] = [@ EXCEPT !.live = FALSE]]
  /\ events' = events + 1
  /\ UNCHANGED <<stock, held, line, effect, book, lock, call, adjusting,
                 manual, received>>

\* The seven days of a record are over.
KeyExpires(x) ==
  /\ key[x].status # "absent"
  /\ key[x].fresh
  /\ events < MaxEvents
  /\ key' = [key EXCEPT ![x] = [@ EXCEPT !.fresh = FALSE]]
  /\ events' = events + 1
  /\ UNCHANGED <<stock, held, line, effect, book, lock, call, adjusting,
                 manual, received>>

-------------------------------------------------------------------------------
(* Other writers *)

\* BindOrderItemSKU; the setting that forbids it after a deduction is off.
Bind(l, s) ==
  /\ events < MaxEvents
  /\ line[l].sku # s
  /\ line' = [line EXCEPT ![l] = [@ EXCEPT !.sku = s]]
  /\ events' = events + 1
  /\ UNCHANGED <<stock, held, effect, book, key, lock, call, adjusting,
                 manual, received>>

\* PatchItem, or the order is synced again with another quantity.
Resize(l, q) ==
  /\ events < MaxEvents
  /\ line[l].qty # q
  /\ line' = [line EXCEPT ![l] = [@ EXCEPT !.qty = q]]
  /\ events' = events + 1
  /\ UNCHANGED <<stock, held, effect, book, key, lock, call, adjusting,
                 manual, received>>

\* inboundStockTx, under the lock, once for each purchase line
Receive(p) ==
  /\ p \notin received
  /\ lock[p.sku] = NoOne
  /\ received' = received \union {p}
  /\ stock' = [stock EXCEPT ![p.sku] = @ + p.qty]
  /\ held' = [held EXCEPT ![p.sku] = Moved(p.sku, [Nothing EXCEPT ![p.wh] = p.qty], 1)]
  /\ UNCHANGED <<line, effect, book, key, lock, call, adjusting, manual,
                 events>>

\* TransferStock, under the lock
Transfer(s, from, to, q) ==
  /\ from # to
  /\ events < MaxEvents
  /\ to \in Open
  /\ lock[s] = NoOne
  /\ Avail(s, from) >= q
  /\ held' = [held EXCEPT ![s] =
                Moved(s, [Nothing EXCEPT ![from] = 0 - q, ![to] = q], 1)]
  /\ events' = events + 1
  /\ UNCHANGED <<stock, line, effect, book, key, lock, call, adjusting,
                 manual, received>>

\* AdjustSKUStock reads the stock before it begins its transaction ...
AdjustRead(a, s, wh, level) ==
  /\ adjusting[a] = NotAdjusting
  /\ events < MaxEvents
  /\ adjusting' = [adjusting EXCEPT ![a] = [sku |-> s, wh |-> wh,
                                            level |-> level, total |-> stock[s]]]
  /\ events' = events + 1
  /\ UNCHANGED <<stock, held, line, effect, book, key, lock, call, manual,
                 received>>

\* What the adjustment writes: all of the stock, or that of one warehouse and
\* the total moved by as much
Delta(a) ==
  LET s == adjusting[a].sku
      wh == adjusting[a].wh
      total == adjusting[a].total
      before == IF wh = NoPin THEN total
                ELSE IF wh = Main THEN total - Total(held[s]) ELSE held[s][wh]
  IN  adjusting[a].level - before

NewTotal(a) == adjusting[a].total + Delta(a)

\* ... and writes what it has read, moved. Its change log has no event key, and
\* the unique index has room for one row like that. raced is a history variable.
AdjustWrite(a) ==
  LET s == adjusting[a].sku
      wh == adjusting[a].wh
  IN  /\ adjusting[a] # NotAdjusting
      /\ lock[s] = NoOne
      /\ adjusting' = [adjusting EXCEPT ![a] = NotAdjusting]
      /\ IF NewTotal(a) < 0 \/ keyless
         THEN UNCHANGED <<stock, held, manual>>
         ELSE /\ stock' = [stock EXCEPT ![s] = NewTotal(a)]
              /\ held' = [held EXCEPT ![s] =
                            IF wh \in Others THEN [held[s] EXCEPT ![wh] = @ + Delta(a)] ELSE @]
              /\ adjusted' = [adjusted EXCEPT ![s] = @ + Delta(a)]
              /\ raced' = IF stock[s] = adjusting[a].total THEN raced ELSE raced \union {s}
              /\ keyless' = TRUE
      /\ UNCHANGED <<line, effect, book, key, lock, call, received, events>>

\* A stock has been pushed to a platform: appendChange logs it, without a key
\* and without asking whether the row was refused.
LogSync ==
  /\ ~keyless
  /\ events < MaxEvents
  /\ keyless' = TRUE
  /\ events' = events + 1
  /\ UNCHANGED <<stock, held, line, effect, book, key, lock, call, adjusting,
                 adjusted, raced, received>>

-------------------------------------------------------------------------------
CallerStep(c) ==
  \/ \E o \in Orders : StartRestore(c, o) \/ \E opts \in Options : StartDeduct(c, o, opts)
  \/ SkipUnbound(c) \/ ReadLine(c) \/ Acquire(c) \/ PassExpired(c)
  \/ Replay(c) \/ Busy(c) \/ Conflict(c) \/ Leave(c)
  \/ FailShort(c) \/ DeductStock(c) \/ WriteRefused(c)
  \/ RestoreRead(c) \/ RestoreLock(c) \/ RestoreCommit(c) \/ RestoreRefused(c)
  \/ Abort(c)

Next ==
  \/ \E c \in Callers : CallerStep(c)
  \/ \E x \in Slots : LeaseLapses(x) \/ KeyExpires(x)
  \/ \E l \in Lines, s \in Skus : Bind(l, s)
  \/ \E l \in Lines, q \in Quantities : Resize(l, q)
  \/ \E p \in Purchases : Receive(p)
  \/ \E s \in Skus, from, to \in Warehouses, q \in Quantities : Transfer(s, from, to, q)
  \/ \E a \in Adjusters, s \in Skus, wh \in Open \union {NoPin}, level \in Levels :
       AdjustRead(a, s, wh, level)
  \/ \E a \in Adjusters : AdjustWrite(a)
  \/ LogSync

Spec == Init /\ [][Next]_vars

-------------------------------------------------------------------------------
(* Properties *)

\* Rows, keys, locks and calls keep their types (the tables and gorm models
\* of inventory, order and idempotency).
TypeOK ==
  /\ stock \in [Skus -> Int]
  /\ held \in [Skus -> [Others -> Int]]
  /\ line \in [Lines -> [sku: Skus \union {NoSku}, qty: Quantities]]
  /\ effect \in [Lines \X (Skus \union {NoSku}) -> Effects]
  /\ book \in [Slots -> Entries]
  /\ key \in [Slots -> Keys]
  /\ lock \in [Skus -> Callers \union {NoOne}]
  /\ call \in [Callers -> [op: {"none", "deduct", "restore"},
                 at: {"idle", "read", "acquire", "write", "lock", "refused"},
                 rest: Seq(Items), opts: Options \union {NoOptions},
                 round: Rounds, jobs: SUBSET Jobs]]
  /\ adjusting \in [Adjusters -> [sku: Skus \union {NoSku},
                      wh: Warehouses \union {NoPin}, level: Levels \union {0},
                      total: Int]]
  /\ adjusted \in [Skus -> Int]
  /\ raced \subseteq Skus
  /\ keyless \in BOOLEAN
  /\ received \subseteq Purchases
  /\ events \in 0..MaxEvents

\* No order takes stock that is not there: the check of deductOneOrderLine
\* runs under the lock its caller keeps, whatever was read before it.
NoOversell ==
  (\A o \in Options : ~o.neg) => \A s \in Skus : stock[s] >= 0

\* What a round took is given back before another round takes anything: of the
\* rounds deducted only the one the logs have counted up to may be outstanding,
\* and it is exactly if the effect rows say so. Stale readings, doubled
\* requests and retries book nothing twice (loadLineEffectState and the unique
\* event keys).
RoundsAlternate ==
  \A l \in Lines, s \in Skus : LET n == RestoreRounds(l, s) IN
    /\ CurrentlyDeducted(l, s) <=> n \in Rounds /\ book[<<l, s, n>>].deducted
    /\ \A r \in Rounds :
         /\ book[<<l, s, r>>].restored => book[<<l, s, r>>].deducted /\ r < n
         /\ book[<<l, s, r>>].deducted => book[<<l, s, r>>].restored \/ r = n

\* The idempotency record of a round has succeeded exactly when the change log
\* of the round is there: neither is without the other after a lost lease, an
\* aborted transaction or a takeover (completeDeductLine in the line's own tx).
KeysMatchTheBooks ==
  \A x \in Slots : key[x].status = "succeeded" <=> book[x].deducted

\* What the logs say a SKU gained
Gained(s) ==
  adjusted[s]
    + Total([p \in {p \in received : p.sku = s} |-> p.qty])
    + Total([x \in {x \in Slots : x[2] = s} |->
               Total(book[x].gave) - Total(book[x].took)])

\* The change logs account for every change of a stock, as long as no
\* adjustment has overwritten what was booked after it had read the stock.
LedgerAddsUp ==
  \A s \in Skus \ raced : stock[s] = Opening[s] + Gained(s)

\* No warehouse but the default one is drawn below zero by an order that does
\* not allow it, wherever stock was moved and given back meanwhile.
WarehousesHoldTheirOwn ==
  (\A o \in Options : ~o.neg) => \A s \in Skus, w \in Others : held[s][w] >= 0

\* docs/DOUYIN_E2E_CHECKLIST.md: a deduction that failed for want of stock can
\* be retried from the exception workbench. Refused by what the code does: the
\* key of the round has failed for good.
RetryIsNotRefused ==
  [][\A c \in Callers :
       call[c].at = "acquire" /\ call'[c].at = "refused" =>
         ~(effect[<<Item(c).line, Item(c).sku>>].deduct = "failed"
             /\ stock[Item(c).sku] >= Item(c).qty)]_vars

\* docs/INVENTORY_CONSISTENCY_DESIGN.md has an event key for each manual
\* adjustment, so that none is refused for another's sake. Refused by what the
\* code does: the keys are all empty, and empty is unique, too.
AdjustmentsAreKept ==
  [][\A a \in Adjusters :
       adjusting[a] # NotAdjusting /\ adjusting'[a] = NotAdjusting
         /\ NewTotal(a) >= 0 =>
           stock'[adjusting[a].sku] = NewTotal(a)]_vars

\* The comment in RestoreInventoryForOrder: a restore returns the stock of the
\* matching round to the warehouses it was taken from.
RestoreMirrorsDeduct ==
  \A x \in Slots : book[x].restored => book[x].gave = book[x].took

===============================================================================
