------------------------- MODULE ConfirmedWritesProofs -------------------------
(***************************************************************************)
(* Proofs about ConfirmedWrites, for every value of its constants.         *)
(***************************************************************************)
EXTENDS ConfirmedWrites, SumTheorems, FiniteSetTheorems, TLAPS

-------------------------------------------------------------------------------
(* The state machine and the moves *)

\* The moves and the statuses they lead to
LEMMA Targets ==
  /\ Moves = {"Submit", "Confirm", "Retry", "MarkPlaced", "MarkPaid", "FillLogistics",
              "MarkDelivered", "Cancel", "Void"}
  /\ Target["Submit"] = "pending_confirm" /\ Target["Confirm"] = "placing"
  /\ Target["Retry"] = "placing" /\ Target["MarkPlaced"] = "placed"
  /\ Target["MarkPaid"] = "paid" /\ Target["FillLogistics"] = "shipped"
  /\ Target["MarkDelivered"] = "delivered" /\ Target["Cancel"] = "cancelled"
  /\ Target["Void"] = "voided"
BY DEF Moves, Target

\* The tools that move an order, and how
LEMMA ToolMoves ==
  /\ MoveTools = {"procurement_mark_placed", "procurement_mark_paid",
                  "procurement_fill_logistics"}
  /\ ToolMove["procurement_mark_placed"] = "MarkPlaced"
  /\ ToolMove["procurement_mark_paid"] = "MarkPaid"
  /\ ToolMove["procurement_fill_logistics"] = "FillLogistics"
BY DEF MoveTools, ToolMove

\* A row that no two moves have mixed, and that never failed
Whole(row) ==
  /\ row.status # "failed"
  /\ row.status \in {"placed", "paid", "shipped", "delivered"} => row.numbered
  /\ row.status \in {"draft", "pending_confirm", "placing", "placed"} => ~row.paid
  /\ row.status \in {"paid", "shipped", "delivered"} => row.paid

\* A row that the move op may be made of
Movable(row, op) == row \in Row /\ Whole(row) /\ CanTransition(row.status, Target[op])

\* A move makes a row of a row, and a whole one of a whole one.
LEMMA MovedIsWhole ==
  ASSUME NEW row, NEW op \in Moves, NEW total \in Nat, Movable(row, op)
  PROVE  Moved(row, op, total) \in Row /\ Whole(Moved(row, op, total))
<1>1. row \in Row /\ Whole(row) /\ CanTransition(row.status, Target[op])
  BY DEF Movable
<1>2. Target[op] \in Statuses \ {"failed", "draft"}
  BY Targets DEF Statuses
<1>3. Moved(row, op, total) \in Row
  <2> DEFINE paid == row.paid \/ op = "MarkPaid"
             numbered == row.numbered \/ op = "MarkPlaced"
             confirmed == row.confirmed \/ op = "Confirm"
             retries == IF op = "Retry" THEN row.retries + 1 ELSE row.retries
  <2>1. row.retries \in Nat
    BY <1>1 DEF Row
  <2>2. retries \in Nat
    BY <2>1
  <2>3. paid \in BOOLEAN /\ numbered \in BOOLEAN /\ confirmed \in BOOLEAN
    OBVIOUS
  <2>4. Target[op] \in Statuses /\ total \in Nat
    BY <1>2
  <2> DEFINE moved == [row EXCEPT !.status = Target[op], !.total = total, !.paid = paid,
                                  !.numbered = numbered, !.confirmed = confirmed,
                                  !.retries = retries]
  <2>5. moved = Moved(row, op, total)
    BY Zenon DEF Moved
  <2> HIDE DEF paid, numbered, confirmed, retries
  <2>6. moved \in Row
    BY <1>1, <2>2, <2>3, <2>4 DEF Row
  <2> QED BY <2>5, <2>6
<1>4. /\ Moved(row, op, total).status = Target[op]
      /\ Moved(row, op, total).paid = (row.paid \/ op = "MarkPaid")
      /\ Moved(row, op, total).numbered = (row.numbered \/ op = "MarkPlaced")
  BY <1>1 DEF Moved, Row
<1>5. Whole(Moved(row, op, total))
  <2>1. CASE op \in {"Submit", "Confirm", "Retry", "MarkPlaced"}
    <3>1. row.status \in {"draft", "pending_confirm", "placing"}
      BY <2>1, <1>1, Targets DEF CanTransition, Whole
    <3>2. Target[op] \in {"pending_confirm", "placing", "placed"} /\ op # "MarkPaid"
      BY <2>1, Targets
    <3>3. Target[op] = "placed" => op = "MarkPlaced"
      BY <2>1, Targets
    <3> QED BY <1>1, <1>4, <3>1, <3>2, <3>3 DEF Whole
  <2>2. CASE op \in {"MarkPaid", "FillLogistics", "MarkDelivered"}
    <3>1. row.status \in {"placed", "paid", "shipped"}
      BY <2>2, <1>1, Targets DEF CanTransition, Whole
    <3>2. Target[op] \in {"paid", "shipped", "delivered"}
      BY <2>2, Targets
    <3>3. row.status = "placed" => op = "MarkPaid"
      BY <2>2, <1>1, Targets DEF CanTransition
    <3> QED BY <1>1, <1>4, <3>1, <3>2, <3>3 DEF Whole
  <2>3. CASE op \in {"Cancel", "Void"}
    <3>1. Target[op] \in {"cancelled", "voided"}
      BY <2>3, Targets
    <3> QED BY <1>4, <3>1 DEF Whole
  <2> QED BY <2>1, <2>2, <2>3, Targets
<1> QED BY <1>3, <1>5

-------------------------------------------------------------------------------
(* The orders and the operators: what holds of them whoever moves them *)

\* The variables of PurchaseOrders have their types.
OrdersTyped ==
  /\ po \in [Orders -> Row \union {None}]
  /\ expected \in [Orders -> Nat]
  /\ actual \in [Orders -> Nat]
  /\ mcpMoves \in [Orders -> [Statuses -> Nat]]
  /\ delivered \subseteq Orders
  /\ inbound \subseteq Orders
  /\ stock \in Nat

\* What an operator read may be moved, and the order is still there.
Held ==
  /\ doing \in [Operators -> Doing \union {None}]
  /\ \A x \in Operators : doing[x] # None =>
       /\ doing[x].op \in Moves => Movable(doing[x].row, doing[x].op)
       /\ doing[x].op # "Generate" => po[doing[x].order] # None

\* Every row is whole.
RowsWhole == \A o \in Orders : po[o] # None => Whole(po[o])

\* The change log, the events and the stock agree.
GoodsIn ==
  /\ inbound = delivered
  /\ IsFiniteSet(delivered)
  /\ stock = Cardinality(delivered)

OInv == OrdersTyped /\ Held /\ RowsWhole /\ GoodsIn

\* No operation and no row is None.
LEMMA NoneIsNone ==
  /\ \A r \in Row : r # None
  /\ \A d \in Doing : d # None
  /\ \A c \in Confirmation : c # None
  /\ \A c \in Call : c # None
  /\ \A k \in Callers : k # None
BY NoneAssumption

\* A whole row may be saved: no order is lost.
LEMMA SaveKeeps ==
  ASSUME OInv, NEW o \in Orders, NEW row \in Row, Whole(row), Save(o, row)
  PROVE  /\ po' \in [Orders -> Row \union {None}]
         /\ RowsWhole'
         /\ \A p \in Orders : po[p] # None => po'[p] # None
BY NoneIsNone DEF OInv, OrdersTyped, RowsWhole, Save

\* An operator that is done holds nothing, and the others what they held.
LEMMA DoneKeeps ==
  ASSUME OInv, NEW x \in Operators, Done(x),
         \A p \in Orders : po[p] # None => po'[p] # None
  PROVE  Held'
<1>1. doing' \in [Operators -> Doing \union {None}]
  BY DEF OInv, Held, Done
<1>2. ASSUME NEW y \in Operators, doing'[y] # None
      PROVE  y # x /\ doing'[y] = doing[y] /\ doing[y] \in Doing
  BY <1>2 DEF OInv, Held, Done
<1>3. \A y \in Operators : doing'[y] # None =>
        /\ doing'[y].op \in Moves => Movable(doing'[y].row, doing'[y].op)
        /\ doing'[y].op # "Generate" => po'[doing'[y].order] # None
  BY <1>2 DEF OInv, Held, Doing
<1> QED BY <1>1, <1>3 DEF Held

\* Who begins to do something reads the order as it is.
LEMMA StartsKeeps ==
  ASSUME OInv, NEW x \in Operators, NEW o \in Orders, NEW price \in Nat,
         NEW op \in Moves \union {"Generate", "UpdateItemPrice", "UpdateItemActualPrice"},
         Starts(x, op, o, price), UNCHANGED orders,
         op # "Generate" => po[o] # None,
         op \in Moves => CanTransition(po[o].status, Target[op])
  PROVE  OInv'
<1> DEFINE d == [op |-> op, order |-> o, row |-> po[o], price |-> price]
<1>1. po[o] \in Row \union {None}
  BY DEF OInv, OrdersTyped
<1>2. d \in Doing
  BY <1>1 DEF Doing
<1>3. doing' = [doing EXCEPT ![x] = d]
  BY DEF Starts
<1>4. op \in Moves => Movable(po[o], op)
  <2> HAVE op \in Moves
  <2>1. po[o] # None
    BY Targets
  <2> QED BY <2>1, <1>1 DEF Movable, OInv, RowsWhole
<1>5. d.op = op /\ d.row = po[o] /\ d.order = o
  OBVIOUS
<1> HIDE DEF d
<1>6. po' = po
  BY DEF orders
<1>7. doing' \in [Operators -> Doing \union {None}]
  BY <1>2, <1>3 DEF OInv, Held
<1>8. \A y \in Operators : doing'[y] # None =>
        /\ doing'[y].op \in Moves => Movable(doing'[y].row, doing'[y].op)
        /\ doing'[y].op # "Generate" => po'[doing'[y].order] # None
  <2> TAKE y \in Operators
  <2>1. CASE y = x
    BY <2>1, <1>3, <1>4, <1>5, <1>6 DEF OInv, Held
  <2>2. CASE y # x
    BY <2>2, <1>3, <1>6 DEF OInv, Held
  <2> QED BY <2>1, <2>2
<1>9. Held'
  BY <1>7, <1>8 DEF Held
<1> QED BY <1>9 DEF OInv, OrdersTyped, RowsWhole, GoodsIn, orders

\* Initially there is no order.
LEMMA OrdersBegin == InitOrders => OInv
<1> SUFFICES ASSUME InitOrders PROVE OInv
  OBVIOUS
<1>1. OrdersTyped /\ Held /\ RowsWhole
  BY DEF InitOrders, OrdersTyped, Held, RowsWhole
<1>2. GoodsIn
  BY FS_EmptySet DEF InitOrders, GoodsIn
<1> QED BY <1>1, <1>2 DEF OInv

\* An operation that has begun: its order, its price, and the move if it is one
LEMMA Begun ==
  ASSUME OInv, NEW x \in Operators, doing[x] # None
  PROVE  /\ doing[x] \in Doing
         /\ doing[x].order \in Orders /\ doing[x].price \in Nat
         /\ doing[x].op \in Moves => Movable(doing[x].row, doing[x].op)
         /\ doing[x].op # "Generate" => po[doing[x].order] # None
BY DEF OInv, Held, Doing

\* A new order is a draft that nobody paid.
LEMMA CreateKeeps ==
  ASSUME OInv, NEW x \in Operators, Create(x)
  PROVE  OInv'
<1> DEFINE o == doing[x].order
           row == [status |-> "draft", total |-> doing[x].price, paid |-> FALSE,
                   numbered |-> FALSE, confirmed |-> FALSE, retries |-> 0]
<1>1. o \in Orders /\ doing[x].price \in Nat
  BY Begun DEF Create
<1>2. row \in Row /\ Whole(row)
  BY <1>1 DEF Row, Statuses, Whole
<1>3. Save(o, row) /\ expected' = [expected EXCEPT ![o] = doing[x].price]
      /\ Done(x) /\ UNCHANGED <<actual, inbound, stock, mcpMoves, delivered>>
  BY DEF Create, Save, Recorded
<1> HIDE DEF o, row
<1>4. /\ po' \in [Orders -> Row \union {None}]
      /\ RowsWhole'
      /\ \A p \in Orders : po[p] # None => po'[p] # None
  BY <1>1, <1>2, <1>3, SaveKeeps
<1>5. Held'
  BY <1>3, <1>4, DoneKeeps
<1>6. expected' \in [Orders -> Nat]
  BY <1>1, <1>3 DEF OInv, OrdersTyped
<1>7. OrdersTyped' /\ GoodsIn'
  BY <1>3, <1>4, <1>6 DEF OInv, OrdersTyped, GoodsIn
<1> QED BY <1>4, <1>5, <1>7 DEF OInv

\* A move keeps the rows whole, whatever total it saves.
LEMMA MoveKeeps ==
  ASSUME OInv, NEW x \in Operators, doing[x] # None, doing[x].op \in Moves,
         NEW total \in Nat, Save(doing[x].order, Moved(doing[x].row, doing[x].op, total)),
         Done(x)
  PROVE  /\ po' \in [Orders -> Row \union {None}]
         /\ RowsWhole'
         /\ Held'
<1>1. doing[x].order \in Orders /\ Movable(doing[x].row, doing[x].op)
  BY Begun
<1>2. /\ Moved(doing[x].row, doing[x].op, total) \in Row
      /\ Whole(Moved(doing[x].row, doing[x].op, total))
  BY <1>1, MovedIsWhole
<1>3. /\ po' \in [Orders -> Row \union {None}]
      /\ RowsWhole'
      /\ \A p \in Orders : po[p] # None => po'[p] # None
  BY <1>1, <1>2, SaveKeeps
<1> QED BY <1>3, DoneKeeps

\* The moves that neither set prices nor receive goods
LEMMA SaveMoveKeeps ==
  ASSUME OInv, NEW x \in Operators, SaveMove(x)
  PROVE  OInv'
<1> DEFINE total == IF doing[x].op = "Submit" THEN doing[x].price ELSE doing[x].row.total
<1>1. doing[x] # None /\ doing[x].op \in Moves /\ doing[x].op # "MarkDelivered"
  BY DEF SaveMove
<1>2. /\ doing[x].order \in Orders /\ doing[x].price \in Nat
      /\ Movable(doing[x].row, doing[x].op)
  BY <1>1, Begun
<1>3. total \in Nat
  BY <1>2 DEF Movable, Row
<1>4. /\ Save(doing[x].order, Moved(doing[x].row, doing[x].op, total))
      /\ Recorded(doing[x].order, Target[doing[x].op])
      /\ Done(x) /\ UNCHANGED <<expected, actual, inbound, stock>>
  BY DEF SaveMove
<1> HIDE DEF total
<1>5. po' \in [Orders -> Row \union {None}] /\ RowsWhole' /\ Held'
  BY <1>1, <1>3, <1>4, MoveKeeps
<1>6. UNCHANGED <<mcpMoves, delivered>>
  BY <1>1, <1>4, Targets DEF Recorded
<1> QED BY <1>4, <1>5, <1>6 DEF OInv, OrdersTyped, GoodsIn

\* MarkPlaced
LEMMA SavePlacedKeeps ==
  ASSUME OInv, NEW x \in Operators, NEW price \in Prices \union {0}, SavePlaced(x, price)
  PROVE  OInv'
<1> DEFINE o == doing[x].order  total == PlacedTotal(o, price)
<1>1. doing[x] # None /\ doing[x].op \in Moves /\ doing[x].op = "MarkPlaced"
  BY Targets DEF SavePlaced
<1>2. price \in Nat
  BY PricesAssumption
<1>3. o \in Orders
  BY <1>1, Begun
<1>4. total \in Nat
  BY <1>2, <1>3 DEF PlacedTotal, OInv, OrdersTyped
<1>5. /\ Save(o, Moved(doing[x].row, doing[x].op, total))
      /\ actual' = [actual EXCEPT ![o] = IF price > 0 THEN price ELSE @]
      /\ Done(x) /\ UNCHANGED <<expected, inbound, stock, mcpMoves, delivered>>
  BY <1>1 DEF SavePlaced, Recorded
<1> HIDE DEF total
<1>6. po' \in [Orders -> Row \union {None}] /\ RowsWhole' /\ Held'
  BY <1>4, <1>1, <1>5, MoveKeeps
<1>7. actual' \in [Orders -> Nat]
  BY <1>2, <1>3, <1>5 DEF OInv, OrdersTyped
<1> QED BY <1>5, <1>6, <1>7 DEF OInv, OrdersTyped, GoodsIn

\* MarkDelivered: the goods of an order come in with its first such event.
LEMMA SaveDeliveredKeeps ==
  ASSUME OInv, NEW x \in Operators, SaveDelivered(x)
  PROVE  OInv'
<1> DEFINE o == doing[x].order
<1>1. doing[x] # None /\ doing[x].op \in Moves /\ doing[x].op = "MarkDelivered"
  BY Targets DEF SaveDelivered
<1>2. o \in Orders /\ doing[x].row.total \in Nat
  BY <1>1, Begun DEF Movable, Row
<1>3. /\ Save(o, Moved(doing[x].row, doing[x].op, doing[x].row.total))
      /\ Receive(o) /\ delivered' = delivered \union {o}
      /\ Done(x) /\ UNCHANGED <<expected, actual, mcpMoves>>
  BY <1>1 DEF SaveDelivered, Recorded
<1>4. po' \in [Orders -> Row \union {None}] /\ RowsWhole' /\ Held'
  BY <1>1, <1>2, <1>3, MoveKeeps
<1>5. GoodsIn' /\ stock' \in Nat
  <2>1. CASE o \in inbound
    BY <1>3, <2>1 DEF Receive, AlreadyInbound, OInv, OrdersTyped, GoodsIn
  <2>2. CASE o \notin inbound
    <3>1. inbound' = inbound \union {o} /\ stock' = stock + 1
      BY <1>3, <2>2 DEF Receive, AlreadyInbound
    <3>2. IsFiniteSet(delivered \union {o}) /\ Cardinality(delivered \union {o}) = Cardinality(delivered) + 1
      BY <2>2, FS_AddElement DEF OInv, GoodsIn
    <3> QED BY <1>3, <3>1, <3>2 DEF OInv, OrdersTyped, GoodsIn
  <2> QED BY <2>1, <2>2
<1>6. delivered' \subseteq Orders /\ inbound' \subseteq Orders
  BY <1>2, <1>3, <1>5 DEF OInv, OrdersTyped, GoodsIn
<1> QED BY <1>3, <1>4, <1>5, <1>6 DEF OInv, OrdersTyped

\* A price changes nothing of a row but its total.
LEMMA UpdatePriceKeeps ==
  ASSUME OInv, NEW x \in Operators, UpdatePrice(x)
  PROVE  OInv'
<1> DEFINE o == doing[x].order  price == doing[x].price
           row == [po[o] EXCEPT !.total = price]
<1>1. doing[x] # None /\ doing[x].op \in DOMAIN Priceable
  BY DEF UpdatePrice
<1>2. doing[x].op # "Generate"
  BY <1>1 DEF Priceable
<1>3. o \in Orders /\ price \in Nat /\ po[o] # None
  BY <1>1, <1>2, Begun
<1>4. po[o] \in Row /\ Whole(po[o])
  BY <1>3 DEF OInv, OrdersTyped, RowsWhole
<1>5. row \in Row /\ row.status = po[o].status /\ row.paid = po[o].paid
      /\ row.numbered = po[o].numbered
  BY <1>3, <1>4 DEF Row
<1>6. Whole(row)
  BY <1>4, <1>5 DEF Whole
<1>7. po' = [po EXCEPT ![o].total = price] /\ Done(x)
      /\ UNCHANGED <<mcpMoves, delivered, inbound, stock>>
  BY DEF UpdatePrice
<1>8. Save(o, row)
  BY <1>7 DEF Save
<1>9. expected' \in [Orders -> Nat] /\ actual' \in [Orders -> Nat]
  <2>1. CASE doing[x].op = "UpdateItemPrice"
    BY <1>3, <2>1 DEF UpdatePrice, OInv, OrdersTyped
  <2>2. CASE doing[x].op # "UpdateItemPrice"
    BY <1>3, <2>2 DEF UpdatePrice, OInv, OrdersTyped
  <2> QED BY <2>1, <2>2
<1> HIDE DEF o, price, row
<1>10. /\ po' \in [Orders -> Row \union {None}]
       /\ RowsWhole'
       /\ \A p \in Orders : po[p] # None => po'[p] # None
  BY <1>3, <1>5, <1>6, <1>8, SaveKeeps
<1>11. Held'
  BY <1>7, <1>10, DoneKeeps
<1> QED BY <1>7, <1>9, <1>10, <1>11 DEF OInv, OrdersTyped, GoodsIn

\* A rollback leaves the orders as they are.
LEMMA RollBackKeeps ==
  ASSUME OInv, NEW x \in Operators, RollBack(x)
  PROVE  OInv'
<1>1. UNCHANGED orders /\ Done(x)
  BY DEF RollBack
<1>2. Held'
  BY <1>1, DoneKeeps DEF orders
<1> QED BY <1>1, <1>2 DEF OInv, OrdersTyped, RowsWhole, GoodsIn, orders

\* Every step of an operator
LEMMA OperatorKeeps ==
  ASSUME OInv, NEW x \in Operators, OperatorStep(x)
  PROVE  OInv'
<1>1. ASSUME NEW o \in Orders, Generate(x, o)
      PROVE  OInv'
  <2>1. PICK price \in Prices : Starts(x, "Generate", o, price)
    BY <1>1 DEF Generate
  <2>2. price \in Nat /\ UNCHANGED orders /\ "Generate" \notin Moves
    BY <1>1, PricesAssumption, Targets DEF Generate
  <2> QED BY <2>1, <2>2, StartsKeeps
<1>2. ASSUME NEW o \in Orders, NEW op \in Moves, Read(x, op, o)
      PROVE  OInv'
  <2>1. expected[o] \in Nat
    BY DEF OInv, OrdersTyped
  <2>2. /\ Starts(x, op, o, expected[o]) /\ UNCHANGED orders /\ po[o] # None
        /\ CanTransition(po[o].status, Target[op])
    BY <1>2 DEF Read
  <2> QED BY <2>1, <2>2, StartsKeeps
<1>3. ASSUME NEW o \in Orders, NEW op \in DOMAIN Priceable, ReadForPrice(x, op, o)
      PROVE  OInv'
  <2>1. PICK price \in Prices : Starts(x, op, o, price)
    BY <1>3 DEF ReadForPrice
  <2>2. op \in {"UpdateItemPrice", "UpdateItemActualPrice"}
    BY DEF Priceable
  <2>3. price \in Nat /\ UNCHANGED orders /\ op \notin Moves /\ po[o] # None
    BY <1>3, <2>2, PricesAssumption, Targets DEF ReadForPrice
  <2> QED BY <2>1, <2>2, <2>3, StartsKeeps
<1>4. \/ \E o \in Orders : \/ Generate(x, o)
                           \/ \E op \in Moves : Read(x, op, o)
                           \/ \E op \in DOMAIN Priceable : ReadForPrice(x, op, o)
      \/ Create(x) \/ SaveMove(x)
      \/ \E price \in Prices \union {0} : SavePlaced(x, price)
      \/ SaveDelivered(x) \/ UpdatePrice(x) \/ RollBack(x)
  BY DEF OperatorStep
<1> QED BY <1>1, <1>2, <1>3, <1>4, CreateKeeps, SaveMoveKeeps, SavePlacedKeeps,
           SaveDeliveredKeeps, UpdatePriceKeeps, RollBackKeeps

-------------------------------------------------------------------------------
(* The pipeline of confirmations: what holds of it whatever the orders do *)

\* The variables of ConfirmedWrites have their types.
PipelineTyped ==
  /\ conf \in [Confirmations -> Confirmation \union {None}]
  /\ audit \in Seq(Confirmations)
  /\ hour \in 1..(Len(audit) + 1)
  /\ day \in 1..hour
  /\ lock \in Callers \union {None}
  /\ call \in [Callers -> Call \union {None}]

\* A call has consumed its confirmation, holds the lock from its admission on,
\* and the order it read may make the move.
CallsHold ==
  \A k \in Callers : call[k] # None =>
    /\ conf[call[k].conf] # None
    /\ conf[call[k].conf].state = "consumed"
    /\ call[k].at # "locking" <=> lock = k
    /\ call[k].at = "writing" /\ RequestOf(k).tool \in MoveTools =>
         Movable(call[k].row, ToolMove[RequestOf(k).tool])

\* The lock is never left behind.
LockHeld == lock # None => call[lock] # None

\* No two calls have one confirmation.
Distinct ==
  \A k1, k2 \in Callers :
    call[k1] # None /\ call[k2] # None /\ call[k1].conf = call[k2].conf => k1 = k2

\* Who holds the lock has room in the quota.
QuotaRoom == lock # None => WithinQuota(RequestOf(lock).token)

PInv == PipelineTyped /\ CallsHold /\ LockHeld /\ Distinct /\ ExecutedOnce

QInv == QuotaRoom /\ QuotasHold

\* A call that has begun
LEMMA Called ==
  ASSUME PInv, NEW k \in Callers, call[k] # None
  PROVE  /\ call[k] \in Call /\ call[k].conf \in Confirmations /\ call[k].at \in Stages
         /\ conf[call[k].conf] \in Confirmation
         /\ conf[call[k].conf].state = "consumed"
         /\ RequestOf(k) \in Request
         /\ call[k].at # "locking" <=> lock = k
BY NoneIsNone DEF PInv, PipelineTyped, CallsHold, Call, Confirmation, RequestOf

\* What the log has was executed.
LEMMA LoggedIsExecuted ==
  ASSUME PInv, NEW i \in DOMAIN audit
  PROVE  /\ audit[i] \in Confirmations
         /\ conf[audit[i]] # None
         /\ conf[audit[i]].state = "executed"
         /\ conf[audit[i]] \in Confirmation
<1>1. audit[i] \in Confirmations
  BY DEF PInv, PipelineTyped
<1>2. conf[audit[i]] # None /\ conf[audit[i]].state = "executed"
  BY <1>1 DEF PInv, ExecutedOnce
<1> QED BY <1>1, <1>2 DEF PInv, PipelineTyped

\* Initially nothing was confirmed.
LEMMA PipelineBegins == Init => PInv
<1> SUFFICES ASSUME Init PROVE PInv
  OBVIOUS
<1>1. PipelineTyped
  BY DEF Init, PipelineTyped
<1>2. CallsHold /\ LockHeld /\ Distinct
  BY DEF Init, CallsHold, LockHeld, Distinct
<1>3. ExecutedOnce
  BY DEF Init, ExecutedOnce
<1> QED BY <1>1, <1>2, <1>3 DEF PInv

\* What happens to confirmations that no call and no row has matters to none.
LEMMA OthersKeep ==
  ASSUME PInv, conf' \in [Confirmations -> Confirmation \union {None}],
         UNCHANGED <<audit, lock, call>>,
         hour' \in 1..(Len(audit) + 1), day' \in 1..hour',
         \A c \in Confirmations :
           \/ conf'[c] = conf[c]
           \/ /\ conf[c] = None \/ conf[c].state \notin {"consumed", "executed"}
              /\ conf'[c] = None \/ conf'[c].state \notin {"consumed", "executed"}
  PROVE  PInv'
<1>1. PipelineTyped'
  BY DEF PInv, PipelineTyped
<1>2. \A k \in Callers : call[k] # None =>
        call[k].conf \in Confirmations /\ conf'[call[k].conf] = conf[call[k].conf]
  BY Called DEF PInv, CallsHold
<1>3. CallsHold'
  BY <1>2 DEF PInv, CallsHold, RequestOf
<1>4. LockHeld' /\ Distinct'
  BY DEF PInv, LockHeld, Distinct
<1>5. ExecutedOnce'
  <2>1. \A c \in Confirmations :
          (conf'[c] # None /\ conf'[c].state = "executed") <=> (conf[c] # None /\ conf[c].state = "executed")
    OBVIOUS
  <2> QED BY <2>1 DEF PInv, ExecutedOnce
<1> QED BY <1>1, <1>3, <1>4, <1>5 DEF PInv

\* A dry run issues a confirmation.
LEMMA DryRunKeeps ==
  ASSUME PInv, NEW c \in Confirmations, NEW r \in Request, DryRun(c, r)
  PROVE  PInv'
<1> DEFINE new == [state |-> "open", request |-> r]
<1>1. new \in Confirmation /\ new.state = "open"
  BY DEF Confirmation, ConfirmationStates
<1>2. conf[c] = None /\ conf' = [conf EXCEPT ![c] = new]
      /\ UNCHANGED <<audit, hour, day, lock, call>>
  BY DEF DryRun
<1> HIDE DEF new
<1>3. conf' \in [Confirmations -> Confirmation \union {None}]
  BY <1>1, <1>2 DEF PInv, PipelineTyped
<1>4. \A d \in Confirmations :
        \/ conf'[d] = conf[d]
        \/ /\ conf[d] = None
           /\ conf'[d].state \notin {"consumed", "executed"}
  BY <1>1, <1>2 DEF PInv, PipelineTyped
<1>5. hour' \in 1..(Len(audit) + 1) /\ day' \in 1..hour'
  BY <1>2 DEF PInv, PipelineTyped
<1> QED BY <1>2, <1>3, <1>4, <1>5, OthersKeep

\* An open confirmation expires.
LEMMA ExpireKeeps ==
  ASSUME PInv, NEW c \in Confirmations, Expire(c)
  PROVE  PInv'
<1> DEFINE new == [conf[c] EXCEPT !.state = "expired"]
<1>1. conf[c] # None /\ conf[c].state = "open" /\ conf[c] \in Confirmation
  BY DEF Expire, Open, PInv, PipelineTyped
<1>2. new \in Confirmation /\ new.state = "expired"
  BY <1>1 DEF Confirmation, ConfirmationStates
<1>3. conf' = [conf EXCEPT ![c] = new] /\ UNCHANGED <<audit, hour, day, lock, call>>
  BY DEF Expire
<1> HIDE DEF new
<1>4. conf' \in [Confirmations -> Confirmation \union {None}]
  BY <1>2, <1>3 DEF PInv, PipelineTyped
<1>5. \A d \in Confirmations :
        \/ conf'[d] = conf[d]
        \/ /\ conf[d].state \notin {"consumed", "executed"}
           /\ conf'[d].state \notin {"consumed", "executed"}
  BY <1>1, <1>2, <1>3 DEF PInv, PipelineTyped
<1>6. hour' \in 1..(Len(audit) + 1) /\ day' \in 1..hour'
  BY <1>3 DEF PInv, PipelineTyped
<1> QED BY <1>3, <1>4, <1>5, <1>6, OthersKeep

\* Time moves the windows within the log, the day behind the hour.
LEMMA TimeMoves ==
  ASSUME PInv, TimePasses
  PROVE  /\ hour' \in 1..(Len(audit) + 1) /\ day' \in 1..hour'
         /\ hour' >= hour /\ day' >= day
         /\ UNCHANGED <<conf, audit, lock, call>>
<1>1. Len(audit) \in Nat
  BY DEF PInv, PipelineTyped
<1> QED BY <1>1 DEF TimePasses, Pass, PInv, PipelineTyped

\* Time does nothing else.
LEMMA TimeKeeps ==
  ASSUME PInv, TimePasses
  PROVE  PInv'
<1>1. conf' \in [Confirmations -> Confirmation \union {None}]
  BY TimeMoves DEF PInv, PipelineTyped
<1> QED BY <1>1, TimeMoves, OthersKeep

\* An open confirmation is nobody's; now it is the call's.
LEMMA ConsumeKeeps ==
  ASSUME PInv, NEW k \in Callers, NEW c \in Confirmations, Consume(k, c)
  PROVE  PInv'
<1> DEFINE new == [conf[c] EXCEPT !.state = "consumed"]
           begun == [at |-> "locking", conf |-> c, row |-> None]
<1>1. conf[c] # None /\ conf[c].state = "open" /\ conf[c] \in Confirmation /\ call[k] = None
  BY DEF Consume, Open, PInv, PipelineTyped
<1>2. new \in Confirmation /\ new.state = "consumed" /\ new # None
  BY <1>1, NoneIsNone DEF Confirmation, ConfirmationStates
<1>3. begun \in Call /\ begun.at = "locking" /\ begun.conf = c
  BY DEF Call, Stages
<1>4. /\ conf' = [conf EXCEPT ![c] = new] /\ call' = [call EXCEPT ![k] = begun]
      /\ UNCHANGED <<audit, hour, day, lock>>
  BY DEF Consume
<1> HIDE DEF new, begun
<1>5. PipelineTyped'
  BY <1>2, <1>3, <1>4 DEF PInv, PipelineTyped
<1>6. \A j \in Callers : call[j] # None => call[j].conf # c
  BY <1>1 DEF PInv, CallsHold
<1>7. lock # k
  BY <1>1, NoneIsNone DEF PInv, LockHeld, PipelineTyped
<1>8. CallsHold'
  <2> SUFFICES ASSUME NEW j \in Callers, call'[j] # None
               PROVE  (/\ conf[call[j].conf] # None
                       /\ conf[call[j].conf].state = "consumed"
                       /\ call[j].at # "locking" <=> lock = j
                       /\ call[j].at = "writing" /\ RequestOf(j).tool \in MoveTools =>
                            Movable(call[j].row, ToolMove[RequestOf(j).tool]))'
    BY DEF CallsHold
  <2>1. CASE j = k
    <3>1. call'[k] = begun /\ conf'[c] = new
      BY <1>4 DEF PInv, PipelineTyped
    <3> QED BY <1>2, <1>3, <1>4, <1>7, <2>1, <3>1
  <2>2. CASE j # k
    <3>1. call'[j] = call[j] /\ call[j] # None
      BY <1>4, <2>2 DEF PInv, PipelineTyped
    <3>2. conf'[call[j].conf] = conf[call[j].conf]
      BY <1>4, <1>6, <3>1, Called DEF PInv, PipelineTyped
    <3> QED BY <1>4, <3>1, <3>2 DEF PInv, CallsHold, RequestOf
  <2> QED BY <2>1, <2>2
<1>9. LockHeld'
  BY <1>4, <1>7 DEF PInv, LockHeld, PipelineTyped
<1>10. Distinct'
  BY <1>3, <1>4, <1>6 DEF PInv, Distinct, PipelineTyped
<1>11. ExecutedOnce'
  <2>1. \A d \in Confirmations :
          (conf'[d] # None /\ conf'[d].state = "executed") <=> (conf[d] # None /\ conf[d].state = "executed")
    BY <1>1, <1>2, <1>4 DEF PInv, PipelineTyped
  <2> QED BY <1>4, <2>1 DEF PInv, ExecutedOnce
<1> QED BY <1>5, <1>8, <1>9, <1>10, <1>11 DEF PInv

\* A call that takes its next step keeps its confirmation.
LEMMA GotoKeeps ==
  ASSUME PInv, NEW k \in Callers, call[k] # None,
         NEW stage \in Stages, NEW row \in Row \union {None}, Goto(k, stage, row),
         UNCHANGED <<conf, audit, hour, day>>,
         lock' = k, lock \in {None, k}, stage # "locking",
         stage = "writing" /\ RequestOf(k).tool \in MoveTools =>
           Movable(row, ToolMove[RequestOf(k).tool])
  PROVE  PInv'
<1> DEFINE new == [call[k] EXCEPT !.at = stage, !.row = row]
<1>1. new \in Call /\ new.at = stage /\ new.row = row /\ new.conf = call[k].conf
  BY Called DEF Call
<1>2. call' = [call EXCEPT ![k] = new] /\ new # None
  BY <1>1, NoneIsNone DEF Goto, PInv, PipelineTyped
<1> HIDE DEF new
<1>3. PipelineTyped'
  BY <1>1, <1>2 DEF PInv, PipelineTyped
<1>4. \A j \in Callers : j # k => call'[j] = call[j] /\ (call[j] # None => call[j].at = "locking")
  BY <1>2, NoneIsNone DEF PInv, PipelineTyped, CallsHold
<1>5. call'[k] = new
  BY <1>2 DEF PInv, PipelineTyped
<1>6. CallsHold'
  BY <1>1, <1>4, <1>5 DEF PInv, CallsHold, RequestOf
<1>7. LockHeld'
  BY <1>2, <1>5 DEF LockHeld
<1>8. Distinct'
  BY <1>1, <1>4, <1>5 DEF PInv, Distinct
<1>9. ExecutedOnce'
  BY DEF PInv, ExecutedOnce
<1> QED BY <1>3, <1>6, <1>7, <1>8, <1>9 DEF PInv

\* A call takes the lock.
LEMMA AdmitKeeps ==
  ASSUME PInv, NEW k \in Callers, Admit(k)
  PROVE  PInv'
<1>1. /\ call[k] # None /\ lock = None /\ lock' = k /\ Goto(k, "admitted", None)
      /\ UNCHANGED <<conf, audit, hour, day>>
  BY DEF Admit, Free
<1> QED BY <1>1, GotoKeeps DEF Stages

\* It reads a row that may make the move.
LEMMA ReadOrderKeeps ==
  ASSUME PInv, OInv, NEW k \in Callers, ReadOrder(k)
  PROVE  PInv'
<1> DEFINE r == RequestOf(k)
           row == IF r.tool \in MoveTools THEN po[r.order] ELSE None
<1>1. /\ call[k] # None /\ call[k].at = "admitted" /\ Goto(k, "writing", row)
      /\ r.tool \in MoveTools => MayMove(r)
      /\ UNCHANGED <<conf, audit, hour, day, lock>>
  BY DEF ReadOrder
<1>2. lock = k /\ r \in Request
  BY <1>1, Called
<1>3. r.order \in Orders
  BY <1>2 DEF Request
<1>4. row \in Row \union {None}
  BY <1>3 DEF OInv, OrdersTyped
<1>5. r.tool \in MoveTools => Movable(row, ToolMove[r.tool])
  BY <1>1, <1>3, <1>4 DEF MayMove, Movable, OInv, RowsWhole
<1> QED BY <1>1, <1>2, <1>4, <1>5, GotoKeeps DEF Stages

\* A call that ends without a row leaves its confirmation burned.
LEMMA EndsKeeps ==
  ASSUME PInv, NEW k \in Callers, call[k] # None, Ends(k),
         UNCHANGED <<conf, audit, hour, day>>
  PROVE  PInv'
<1>1. /\ call' = [call EXCEPT ![k] = None]
      /\ lock' = IF lock = k THEN None ELSE lock
  BY DEF Ends
<1>2. PipelineTyped'
  BY <1>1 DEF PInv, PipelineTyped
<1>3. \A j \in Callers : call'[j] # None => j # k /\ call'[j] = call[j]
  BY <1>1 DEF PInv, PipelineTyped
<1>4. CallsHold'
  BY <1>1, <1>3, NoneIsNone DEF PInv, CallsHold, RequestOf
<1>5. LockHeld'
  BY <1>1 DEF PInv, LockHeld, PipelineTyped
<1>6. Distinct'
  BY <1>3 DEF PInv, Distinct
<1>7. ExecutedOnce'
  BY DEF PInv, ExecutedOnce
<1> QED BY <1>2, <1>4, <1>5, <1>6, <1>7 DEF PInv

\* What an execute appends, and to what
LEMMA Executes ==
  ASSUME PInv, NEW k \in Callers, Execute(k)
  PROVE  /\ call[k].conf \in Confirmations
         /\ lock = k
         /\ Len(audit) \in Nat
         /\ Len(audit') = Len(audit) + 1
         /\ DOMAIN audit' = 1..(Len(audit) + 1)
         /\ audit'[Len(audit) + 1] = call[k].conf
         /\ \A i \in 1..Len(audit) : audit'[i] = audit[i] /\ audit[i] # call[k].conf
         /\ conf'[call[k].conf].state = "executed"
         /\ conf'[call[k].conf].request = RequestOf(k)
         /\ conf'[call[k].conf] \in Confirmation
         /\ \A c \in Confirmations : c # call[k].conf => conf'[c] = conf[c]
         /\ UNCHANGED <<hour, day>>
<1> DEFINE c == call[k].conf  new == [conf[c] EXCEPT !.state = "executed"]
<1>1. call[k] # None /\ call[k].at = "writing"
  BY DEF Execute
<1>2. c \in Confirmations /\ conf[c] \in Confirmation /\ conf[c].state = "consumed" /\ lock = k
  BY <1>1, Called
<1>3. audit' = Append(audit, c) /\ conf' = [conf EXCEPT ![c] = new] /\ UNCHANGED <<hour, day>>
  BY DEF Execute
<1>4. /\ new \in Confirmation /\ new.state = "executed"
      /\ new.request = RequestOf(k)
  BY <1>2 DEF Confirmation, ConfirmationStates, RequestOf
<1>5. audit \in Seq(Confirmations)
  BY DEF PInv, PipelineTyped
<1>6. \A i \in 1..Len(audit) : audit[i] # c
  <2>1. \A i \in DOMAIN audit : audit[i] # c
    BY <1>2, LoggedIsExecuted
  <2> QED BY <2>1, <1>5
<1> HIDE DEF c, new
<1>7. /\ Len(audit) \in Nat /\ Len(audit') = Len(audit) + 1
      /\ DOMAIN audit' = 1..(Len(audit) + 1) /\ audit'[Len(audit) + 1] = c
      /\ \A i \in 1..Len(audit) : audit'[i] = audit[i]
  BY <1>2, <1>3, <1>5
<1>8. conf'[c] = new /\ \A d \in Confirmations : d # c => conf'[d] = conf[d]
  BY <1>2, <1>3 DEF PInv, PipelineTyped
<1> QED BY <1>2, <1>3, <1>4, <1>6, <1>7, <1>8 DEF c

\* The confirmation executed is in the log from now on, and once.
LEMMA ExecuteKeeps ==
  ASSUME PInv, NEW k \in Callers, Execute(k)
  PROVE  PInv'
<1> DEFINE c == call[k].conf
<1>1. /\ call' = [call EXCEPT ![k] = None] /\ lock' = None
      /\ audit' = Append(audit, c)
      /\ \E new : conf' = [conf EXCEPT ![c] = new]
  BY Executes DEF Execute, Ends
<1>2. conf' \in [Confirmations -> Confirmation \union {None}]
  <2>1. conf' = [d \in Confirmations |-> conf'[d]]
    BY <1>1 DEF PInv, PipelineTyped
  <2>2. \A d \in Confirmations : conf'[d] \in Confirmation \union {None}
    BY Executes DEF PInv, PipelineTyped
  <2> QED BY <2>1, <2>2
<1>3. PipelineTyped'
  <2>1. audit' \in Seq(Confirmations)
    BY <1>1, Executes DEF PInv, PipelineTyped
  <2>2. hour' \in 1..(Len(audit') + 1) /\ day' \in 1..hour'
    BY Executes DEF PInv, PipelineTyped
  <2>3. lock' \in Callers \union {None} /\ call' \in [Callers -> Call \union {None}]
    BY <1>1 DEF PInv, PipelineTyped
  <2> QED BY <1>2, <2>1, <2>2, <2>3 DEF PipelineTyped
<1>4. \A j \in Callers : call'[j] # None => j # k /\ call'[j] = call[j]
  BY <1>1 DEF PInv, PipelineTyped
<1>5. \A j \in Callers : call'[j] # None => call[j].conf \in Confirmations /\ conf'[call[j].conf] = conf[call[j].conf]
  <2> SUFFICES ASSUME NEW j \in Callers, call'[j] # None
               PROVE  call[j].conf \in Confirmations /\ conf'[call[j].conf] = conf[call[j].conf]
    OBVIOUS
  <2>1. call[j] # None /\ call[j].conf \in Confirmations /\ j # k
    BY <1>4, Called
  <2>2. call[j].conf # c
    BY <2>1 DEF PInv, Distinct, Execute
  <2> QED BY <2>1, <2>2, Executes
<1>6. CallsHold'
  BY <1>1, <1>4, <1>5, Executes, NoneIsNone DEF PInv, CallsHold, RequestOf
<1>7. LockHeld' /\ Distinct'
  BY <1>1, <1>4 DEF PInv, LockHeld, Distinct
<1>8. ExecutedOnce'
  <2>1. DOMAIN audit = 1..Len(audit)
    BY DEF PInv, PipelineTyped
  <2>2. \A i, j \in DOMAIN audit' : audit'[i] = audit'[j] => i = j
    BY <2>1, Executes DEF PInv, ExecutedOnce
  <2>3. \A d \in Confirmations :
          (conf'[d] # None /\ conf'[d].state = "executed") <=> \E i \in DOMAIN audit' : audit'[i] = d
    <3> TAKE d \in Confirmations
    <3>1. CASE d = c
      BY <3>1, Executes, NoneIsNone
    <3>2. CASE d # c
      <4>1. (\E i \in DOMAIN audit' : audit'[i] = d) <=> (\E i \in DOMAIN audit : audit[i] = d)
        BY <2>1, <3>2, Executes
      <4> QED BY <3>2, <4>1, Executes DEF PInv, ExecutedOnce
    <3> QED BY <3>1, <3>2
  <2> QED BY <2>2, <2>3 DEF ExecutedOnce
<1> QED BY <1>3, <1>6, <1>7, <1>8 DEF PInv

\* An event through MCP is one more of its status.
LEMMA RecordsMcp ==
  ASSUME OrdersTyped, NEW o \in Orders, NEW to \in Statuses, RecordedMcp(o, to)
  PROVE  /\ mcpMoves' \in [Orders -> [Statuses -> Nat]]
         /\ UNCHANGED delivered
         /\ mcpMoves'[o][to] = mcpMoves[o][to] + 1
         /\ \A p \in Orders, s \in Statuses :
              p # o \/ s # to => mcpMoves'[p][s] = mcpMoves[p][s]
<1> DEFINE of == [mcpMoves[o] EXCEPT ![to] = @ + 1]
<1>1. mcpMoves[o] \in [Statuses -> Nat] /\ mcpMoves[o][to] \in Nat
  BY DEF OrdersTyped
<1>2. /\ of \in [Statuses -> Nat] /\ of[to] = mcpMoves[o][to] + 1
      /\ \A s \in Statuses : s # to => of[s] = mcpMoves[o][s]
  BY <1>1
<1>3. mcpMoves' = [mcpMoves EXCEPT ![o] = of] /\ UNCHANGED delivered
  BY DEF RecordedMcp
<1> HIDE DEF of
<1> QED BY <1>2, <1>3 DEF OrdersTyped

\* Every step of the pipeline, next to the orders
LEMMA PipelineKeeps ==
  ASSUME PInv, OInv, Next
  PROVE  PInv'
<1>1. ASSUME NEW k \in Callers, CallStep(k)
      PROVE  PInv'
  <2>1. ASSUME AuditFails(k) \/ Fail(k)
        PROVE  PInv'
    BY <2>1, EndsKeeps DEF AuditFails, Fail
  <2> QED BY <1>1, <2>1, ConsumeKeeps, AdmitKeeps, ReadOrderKeeps, ExecuteKeeps DEF CallStep
<1>2. ASSUME UNCHANGED pipeline
      PROVE  PInv'
  BY <1>2 DEF PInv, PipelineTyped, CallsHold, LockHeld, Distinct, ExecutedOnce, RequestOf, pipeline
<1> QED BY <1>1, <1>2, DryRunKeeps, ExpireKeeps, TimeKeeps DEF Next

\* Every step of the orders, the writes of MCP among them
LEMMA OrdersKeep ==
  ASSUME PInv, OInv, Next
  PROVE  OInv'
<1>1. ASSUME UNCHANGED <<orders, doing>>
      PROVE  OInv'
  BY <1>1 DEF OInv, OrdersTyped, Held, RowsWhole, GoodsIn, orders
<1>2. ASSUME NEW k \in Callers, Execute(k)
      PROVE  OInv'
  <2> DEFINE r == RequestOf(k)  row == call[k].row  op == ToolMove[r.tool]
             total == IF r.tool = "procurement_mark_placed" THEN PlacedTotal(r.order, 0) ELSE row.total
  <2>1. call[k] # None /\ call[k].at = "writing" /\ Change(k) /\ UNCHANGED doing
    BY <1>2 DEF Execute
  <2>2. CASE r.tool \notin MoveTools
    BY <1>1, <2>1, <2>2 DEF Change
  <2>3. CASE r.tool \in MoveTools
    <3>1. r.order \in Orders
      BY <2>1, Called DEF Request
    <3>2. op \in Moves /\ Target[op] \in Statuses
      BY <2>3, ToolMoves, Targets DEF Statuses
    <3>3. Movable(row, op)
      BY <2>1, <2>3 DEF PInv, CallsHold
    <3>4. total \in Nat
      BY <3>1, <3>3 DEF Movable, Row, PlacedTotal, OInv, OrdersTyped
    <3>5. Moved(row, op, total) \in Row /\ Whole(Moved(row, op, total))
      BY <3>2, <3>3, <3>4, MovedIsWhole
    <3>6. /\ Save(r.order, Moved(row, op, total))
          /\ RecordedMcp(r.order, Target[op])
          /\ UNCHANGED <<expected, actual, inbound, stock>>
      BY <2>1, <2>3 DEF Change
    <3> HIDE DEF r, row, op, total
    <3>7. /\ po' \in [Orders -> Row \union {None}]
          /\ RowsWhole'
          /\ \A p \in Orders : po[p] # None => po'[p] # None
      BY <3>1, <3>5, <3>6, SaveKeeps
    <3>8. Held'
      BY <2>1, <3>7 DEF OInv, Held, Doing
    <3>9. mcpMoves' \in [Orders -> [Statuses -> Nat]] /\ UNCHANGED delivered
      BY <3>1, <3>2, <3>6, RecordsMcp DEF OInv
    <3> QED BY <3>6, <3>7, <3>8, <3>9 DEF OInv, OrdersTyped, GoodsIn
  <2> QED BY <2>2, <2>3
<1>3. ASSUME NEW k \in Callers, CallStep(k)
      PROVE  OInv'
  BY <1>1, <1>2, <1>3 DEF CallStep, Consume, Admit, ReadOrder, AuditFails, Fail
<1> QED BY <1>1, <1>3, OperatorKeeps DEF Next, DryRun, Expire, TimePasses

-------------------------------------------------------------------------------
(* Quotas *)

\* The executes of a window are finitely many.
LEMMA WindowsFinite ==
  ASSUME PInv
  PROVE  /\ Len(audit) \in Nat /\ hour \in Nat /\ day \in Nat /\ DOMAIN audit = 1..Len(audit)
         /\ hour >= 1 /\ day >= 1
         /\ IsFiniteSet(ByTenant)
         /\ \A t \in Tokens : IsFiniteSet(ByToken(t))
<1>1. /\ Len(audit) \in Nat /\ hour \in Nat /\ day \in Nat /\ DOMAIN audit = 1..Len(audit)
      /\ hour >= 1 /\ day >= 1
  BY DEF PInv, PipelineTyped
<1>2. IsFiniteSet(hour..Len(audit)) /\ IsFiniteSet(ByTenant)
  BY <1>1, FS_Interval DEF ByTenant
<1>3. ASSUME NEW t \in Tokens
      PROVE  IsFiniteSet(ByToken(t))
  <2>1. ByToken(t) \subseteq hour..Len(audit)
    BY DEF ByToken
  <2> QED BY <1>2, <2>1, FS_Subset
<1> QED BY <1>1, <1>2, <1>3

\* Windows that take in no row keep their counts or lose some.
LEMMA WindowsShrink ==
  ASSUME PInv, UNCHANGED audit, hour' \in Nat, day' \in Nat, hour' >= hour, day' >= day,
         \A i \in DOMAIN audit : conf'[audit[i]].request = conf[audit[i]].request
  PROVE  /\ \A t \in Tokens : /\ Cardinality(ByToken(t)') \in Nat
                              /\ Cardinality(ByToken(t)') <= Cardinality(ByToken(t))
         /\ Cardinality(ByTenant') \in Nat
         /\ Cardinality(ByTenant') <= Cardinality(ByTenant)
<1>1. ByTenant' \subseteq ByTenant
  BY WindowsFinite DEF ByTenant
<1>2. \A t \in Tokens : ByToken(t)' \subseteq ByToken(t)
  BY WindowsFinite DEF ByToken
<1> QED BY <1>1, <1>2, WindowsFinite, FS_Subset, FS_CardinalityType

\* With the same windows, who had room has room.
LEMMA QuotasKeep ==
  ASSUME PInv, QuotaRoom, QuotasHold,
         UNCHANGED audit, hour' \in Nat, day' \in Nat, hour' >= hour, day' >= day,
         \A i \in DOMAIN audit : conf'[audit[i]].request = conf[audit[i]].request,
         \/ lock' = None
         \/ \E k \in Callers, t \in Tokens :
              lock' = k /\ RequestOf(k)'.token = t /\ WithinQuota(t)
  PROVE  QInv'
<1>1. QuotasHold'
  <2>1. \A t \in Tokens : Cardinality(ByToken(t)) \in Nat
    BY WindowsFinite, FS_CardinalityType
  <2>2. Cardinality(ByTenant) \in Nat
    BY WindowsFinite, FS_CardinalityType
  <2> QED BY <2>1, <2>2, WindowsShrink, LimitsAssumption DEF QuotasHold
<1>2. QuotaRoom'
  <2>1. CASE lock' = None
    BY <2>1 DEF QuotaRoom
  <2>2. ASSUME NEW k \in Callers, NEW t \in Tokens, lock' = k, RequestOf(k)'.token = t,
               WithinQuota(t)
        PROVE  QuotaRoom'
    <3>1. Cardinality(ByToken(t)) \in Nat /\ Cardinality(ByTenant) \in Nat
      BY WindowsFinite, FS_CardinalityType
    <3>2. Cardinality(ByToken(t)') < TokenLimit /\ Cardinality(ByTenant') < TenantLimit
      BY <2>2, <3>1, WindowsShrink, LimitsAssumption DEF WithinQuota
    <3>3. WithinQuota(t)'
      BY <3>2 DEF WithinQuota
    <3> QED BY <2>2, <3>3 DEF QuotaRoom, RequestOf
  <2> QED BY <2>1, <2>2
<1> QED BY <1>1, <1>2 DEF QInv

\* A set with at most one element more
LEMMA OneMore ==
  ASSUME NEW S, NEW T, NEW n, IsFiniteSet(S), T \subseteq S \union {n}
  PROVE  Cardinality(S) \in Nat /\ Cardinality(T) \in Nat /\ Cardinality(T) <= Cardinality(S) + 1
<1>1. /\ IsFiniteSet(S \union {n})
      /\ Cardinality(S \union {n}) = IF n \in S THEN Cardinality(S) ELSE Cardinality(S) + 1
  BY FS_AddElement
<1>2. IsFiniteSet(T) /\ Cardinality(T) <= Cardinality(S \union {n})
  BY <1>1, FS_Subset
<1> QED BY <1>1, <1>2, FS_CardinalityType

\* An execute adds one row, of a token that had room.
LEMMA ExecuteCounts ==
  ASSUME PInv, QInv, NEW k \in Callers, Execute(k)
  PROVE  QInv'
<1>1. PICK tok \in Tokens : tok = RequestOf(k).token
  BY Called DEF Request, Execute
<1>2. PICK n : n = Len(audit) + 1
  OBVIOUS
<1>3. lock = k /\ lock' = None /\ lock # None
  BY Executes, NoneIsNone DEF Execute, Ends
<1>4. Cardinality(ByToken(tok)) < TokenLimit /\ Cardinality(ByTenant) < TenantLimit
  BY <1>1, <1>3 DEF QInv, QuotaRoom, WithinQuota
<1>5. Len(audit) \in Nat /\ Len(audit') = n /\ n = Len(audit) + 1 /\ hour' = hour /\ day' = day
  BY <1>2, Executes
<1>6. \A i \in 1..Len(audit) : conf'[audit'[i]] = conf[audit[i]] /\ audit'[i] = audit[i]
  BY Executes, LoggedIsExecuted, WindowsFinite
<1>7. conf'[audit'[n]].request.token = tok
  BY <1>1, <1>2, Executes
<1>8. ByTenant' \subseteq ByTenant \union {n}
  BY <1>5, WindowsFinite DEF ByTenant
<1>9. ByToken(tok)' \subseteq ByToken(tok) \union {n}
  <2> SUFFICES ASSUME NEW i \in ByToken(tok)', i # n
               PROVE  i \in ByToken(tok)
    OBVIOUS
  <2>1. i \in hour..n /\ conf'[audit'[i]].request.token = tok
    BY <1>5 DEF ByToken
  <2>2. i \in hour..Len(audit) /\ i \in 1..Len(audit)
    BY <1>5, <2>1, WindowsFinite
  <2> QED BY <1>6, <2>1, <2>2 DEF ByToken
<1>10. ASSUME NEW t \in Tokens, t # tok
      PROVE  ByToken(t)' \subseteq ByToken(t) \union {n} /\ n \notin ByToken(t)'
  <2>1. n \notin ByToken(t)'
    BY <1>7, <1>10 DEF ByToken
  <2> SUFFICES ASSUME NEW i \in ByToken(t)', i # n
               PROVE  i \in ByToken(t)
    BY <2>1
  <2>2. i \in hour..n /\ conf'[audit'[i]].request.token = t
    BY <1>5 DEF ByToken
  <2>3. i \in hour..Len(audit) /\ i \in 1..Len(audit)
    BY <1>5, <2>2, WindowsFinite
  <2> QED BY <1>6, <2>2, <2>3 DEF ByToken
<1>11. QuotasHold'
  <2>1. Cardinality(ByTenant') <= TenantLimit
    <3>1. /\ Cardinality(ByTenant) \in Nat /\ Cardinality(ByTenant') \in Nat
          /\ Cardinality(ByTenant') <= Cardinality(ByTenant) + 1
      BY <1>8, WindowsFinite, OneMore
    <3> QED BY <1>4, <3>1, LimitsAssumption
  <2>2. Cardinality(ByToken(tok)') <= TokenLimit
    <3>1. IsFiniteSet(ByToken(tok))
      BY WindowsFinite
    <3>2. /\ Cardinality(ByToken(tok)) \in Nat /\ Cardinality(ByToken(tok)') \in Nat
          /\ Cardinality(ByToken(tok)') <= Cardinality(ByToken(tok)) + 1
      BY <1>9, <3>1, OneMore
    <3> QED BY <1>4, <3>2, LimitsAssumption
  <2>3. ASSUME NEW t \in Tokens, t # tok
        PROVE  Cardinality(ByToken(t)') <= TokenLimit
    <3>1. IsFiniteSet(ByToken(t)) /\ Cardinality(ByToken(t)) <= TokenLimit
      BY WindowsFinite DEF QInv, QuotasHold
    <3>2. ByToken(t)' \subseteq ByToken(t)
      BY <1>10, <2>3
    <3>3. /\ Cardinality(ByToken(t)) \in Nat /\ Cardinality(ByToken(t)') \in Nat
          /\ Cardinality(ByToken(t)') <= Cardinality(ByToken(t))
      BY <3>1, <3>2, FS_Subset, FS_CardinalityType
    <3> QED BY <3>1, <3>3, LimitsAssumption
  <2> QED BY <2>1, <2>2, <2>3 DEF QuotasHold
<1> QED BY <1>3, <1>11 DEF QInv, QuotaRoom

\* The requests of what was logged, and of the calls, do not change.
LEMMA RequestsKeep ==
  ASSUME PInv, Next
  PROVE  \A i \in DOMAIN audit : conf'[audit[i]].request = conf[audit[i]].request
<1> SUFFICES ASSUME NEW i \in DOMAIN audit
             PROVE  conf'[audit[i]].request = conf[audit[i]].request
  OBVIOUS
<1>1. audit[i] \in Confirmations /\ conf[audit[i]] # None /\ conf[audit[i]] \in Confirmation
      /\ conf[audit[i]].state = "executed"
  BY LoggedIsExecuted
<1>2. ASSUME NEW c \in Confirmations, NEW r \in Request, DryRun(c, r)
      PROVE  conf'[audit[i]] = conf[audit[i]]
  BY <1>1, <1>2 DEF DryRun, PInv, PipelineTyped
<1>3. ASSUME NEW c \in Confirmations, Expire(c)
      PROVE  conf'[audit[i]] = conf[audit[i]]
  BY <1>1, <1>3 DEF Expire, Open, PInv, PipelineTyped
<1>4. ASSUME NEW k \in Callers, CallStep(k)
      PROVE  conf'[audit[i]] = conf[audit[i]]
  <2>1. ASSUME NEW c \in Confirmations, Consume(k, c)
        PROVE  conf'[audit[i]] = conf[audit[i]]
    BY <1>1, <2>1 DEF Consume, Open, PInv, PipelineTyped
  <2>2. ASSUME Execute(k)
        PROVE  conf'[audit[i]] = conf[audit[i]]
    BY <1>1, <2>2, Executes, WindowsFinite
  <2> QED BY <1>4, <2>1, <2>2 DEF CallStep, Admit, ReadOrder, AuditFails, Fail
<1>5. ASSUME TimePasses \/ UNCHANGED pipeline
      PROVE  conf'[audit[i]] = conf[audit[i]]
  BY <1>5 DEF TimePasses, pipeline
<1> QED BY <1>2, <1>3, <1>4, <1>5 DEF Next

\* But for who is admitted and who executes, nobody comes to hold the lock,
\* no row is logged, and time moves forward only.
LEMMA NobodyAdmitted ==
  ASSUME PInv, Next, \A k \in Callers : ~Admit(k) /\ ~Execute(k)
  PROVE  /\ UNCHANGED audit
         /\ hour' \in Nat /\ day' \in Nat /\ hour' >= hour /\ day' >= day
         /\ lock' = None \/ (lock' = lock /\ RequestOf(lock)' = RequestOf(lock))
<1> DEFINE Quiet == UNCHANGED <<audit, hour, day>>
           LockStays == lock' = None \/ (lock' = lock /\ RequestOf(lock)' = RequestOf(lock))
<1>1. ASSUME lock # None
      PROVE  lock \in Callers /\ call[lock] # None /\ call[lock].conf \in Confirmations
             /\ conf[call[lock].conf] # None /\ conf[call[lock].conf].state = "consumed"
  BY <1>1, Called, NoneIsNone DEF PInv, PipelineTyped, LockHeld
<1>2. ASSUME NEW c \in Confirmations, NEW r \in Request, DryRun(c, r)
      PROVE  Quiet /\ LockStays
  <2>1. UNCHANGED <<audit, hour, day, lock, call>>
    BY <1>2 DEF DryRun
  <2>2. lock # None => RequestOf(lock)' = RequestOf(lock)
    BY <1>1, <1>2, <2>1 DEF DryRun, RequestOf, PInv, PipelineTyped
  <2> QED BY <2>1, <2>2
<1>3. ASSUME NEW c \in Confirmations, Expire(c)
      PROVE  Quiet /\ LockStays
  <2>1. UNCHANGED <<audit, hour, day, lock, call>>
    BY <1>3 DEF Expire
  <2>2. lock # None => RequestOf(lock)' = RequestOf(lock)
    BY <1>1, <1>3, <2>1 DEF Expire, Open, RequestOf, PInv, PipelineTyped
  <2> QED BY <2>1, <2>2
<1>4. ASSUME NEW k \in Callers, NEW c \in Confirmations, Consume(k, c)
      PROVE  Quiet /\ LockStays
  <2>1. UNCHANGED <<audit, hour, day, lock>> /\ Open(c) /\ call[k] = None
    BY <1>4 DEF Consume
  <2>2. lock # None => RequestOf(lock)' = RequestOf(lock)
    BY <1>1, <1>4, <2>1 DEF Consume, Open, RequestOf, PInv, PipelineTyped
  <2> QED BY <2>1, <2>2
<1>5. ASSUME NEW k \in Callers, ReadOrder(k)
      PROVE  Quiet /\ LockStays
  <2>1. PICK row : Goto(k, "writing", row)
    BY <1>5 DEF ReadOrder
  <2>2. call[k] # None /\ UNCHANGED <<conf, audit, hour, day, lock>>
    BY <1>5 DEF ReadOrder
  <2>3. \A j \in Callers : call[j] # None => call'[j].conf = call[j].conf
    BY <2>1, <2>2, Called DEF Goto, PInv, PipelineTyped, Call
  <2>4. lock # None => RequestOf(lock)' = RequestOf(lock)
    BY <1>1, <2>2, <2>3 DEF RequestOf
  <2> QED BY <2>2, <2>4
<1>6. ASSUME NEW k \in Callers, AuditFails(k) \/ Fail(k)
      PROVE  Quiet /\ LockStays
  <2>1. Ends(k) /\ UNCHANGED <<conf, audit, hour, day>>
    BY <1>6 DEF AuditFails, Fail
  <2>2. lock # None /\ lock # k => lock' = lock /\ RequestOf(lock)' = RequestOf(lock)
    BY <1>1, <2>1 DEF Ends, RequestOf, PInv, PipelineTyped
  <2>3. lock = k \/ lock = None => lock' = None
    BY <2>1 DEF Ends
  <2> QED BY <2>1, <2>2, <2>3
<1>7. ASSUME UNCHANGED pipeline
      PROVE  Quiet /\ LockStays
  BY <1>7 DEF pipeline, RequestOf
<1>8. hour \in Nat /\ day \in Nat /\ hour >= hour /\ day >= day
  BY WindowsFinite
<1>9. CASE TimePasses
  <2>1. /\ hour' \in Nat /\ day' \in Nat /\ hour' >= hour /\ day' >= day
        /\ UNCHANGED <<conf, audit, lock, call>>
    BY <1>9, TimeMoves, WindowsFinite
  <2> QED BY <2>1 DEF RequestOf
<1>10. CASE ~TimePasses
  <2>1. Quiet /\ LockStays
    BY <1>2, <1>3, <1>4, <1>5, <1>6, <1>7, <1>10 DEF Next, CallStep
  <2> QED BY <1>8, <2>1
<1> QED BY <1>9, <1>10

\* Every step keeps the quotas.
LEMMA QuotasStep ==
  ASSUME PInv, OInv, QInv, Next
  PROVE  QInv'
<1>1. \A i \in DOMAIN audit : conf'[audit[i]].request = conf[audit[i]].request
  BY RequestsKeep
<1>2. CASE \A k \in Callers : ~Admit(k) /\ ~Execute(k)
  <2>1. /\ UNCHANGED audit
        /\ hour' \in Nat /\ day' \in Nat /\ hour' >= hour /\ day' >= day
        /\ lock' = None \/ (lock' = lock /\ RequestOf(lock)' = RequestOf(lock))
    BY <1>2, NobodyAdmitted
  <2>2. CASE lock' = None
    BY <1>1, <2>1, <2>2, QuotasKeep DEF QInv
  <2>3. CASE lock' # None
    <3>1. lock \in Callers /\ call[lock] # None /\ lock' = lock
      BY <2>1, <2>3 DEF PInv, PipelineTyped, LockHeld
    <3>2. PICK k \in Callers : k = lock
      BY <3>1
    <3>3. RequestOf(k).token \in Tokens
      BY <3>1, <3>2, Called DEF Request
    <3>4. PICK t \in Tokens : t = RequestOf(k).token
      BY <3>3
    <3>5. RequestOf(lock).token = t
      BY <3>2, <3>4 DEF RequestOf
    <3>6. WithinQuota(t)
      BY <3>1, <3>5, NoneIsNone DEF QInv, QuotaRoom
    <3>7. RequestOf(k)' = RequestOf(lock)'
      BY <3>1, <3>2 DEF RequestOf
    <3>8. RequestOf(k)'.token = t
      BY <2>1, <2>3, <3>5, <3>7
    <3>9. lock' = k
      BY <3>1, <3>2
    <3> QED BY <1>1, <2>1, <3>6, <3>8, <3>9, QuotasKeep DEF QInv
  <2> QED BY <2>2, <2>3
<1>3. ASSUME NEW k \in Callers, Admit(k)
      PROVE  QInv'
  <2>1. /\ call[k] # None /\ lock' = k /\ WithinQuota(RequestOf(k).token)
        /\ Goto(k, "admitted", None) /\ UNCHANGED <<conf, audit, hour, day>>
    BY <1>3 DEF Admit
  <2>2. PICK t \in Tokens : t = RequestOf(k).token
    BY <2>1, Called DEF Request
  <2>3. RequestOf(k)' = RequestOf(k)
    BY <2>1, Called DEF Goto, RequestOf, PInv, PipelineTyped, Call
  <2>4. lock' = k /\ RequestOf(k)'.token = t /\ WithinQuota(t)
    BY <2>1, <2>2, <2>3
  <2>5. hour \in Nat /\ day \in Nat /\ hour >= hour /\ day >= day
    BY WindowsFinite
  <2> QED BY <1>1, <2>1, <2>4, <2>5, QuotasKeep DEF QInv
<1> QED BY <1>2, <1>3, ExecuteCounts

-------------------------------------------------------------------------------
(* The ceiling on payments *)

\* The amounts a window has, row by row
Amounts(h, a, D) == [i \in D |-> h[a[i]].request.amount]

LEMMA SpentIsSum ==
  ASSUME NEW h, NEW a, NEW D
  PROVE  MapThenSumSet(LAMBDA i : h[a[i]].request.amount, D) =
           SumFunctionOnSet(Amounts(h, a, D), D)
<1>1. MapThenSumSet(LAMBDA i : h[a[i]].request.amount, D) =
        (CHOOSE g : g = [s \in SUBSET D |->
                           IF s = {} THEN 0
                           ELSE h[a[CHOOSE x \in s : TRUE]].request.amount
                                  + g[s \ {CHOOSE x \in s : TRUE}]])[D]
  BY DEF MapThenSumSet, MapThenFoldSet
<1>2. ASSUME NEW g
      PROVE  Sums(g, Amounts(h, a, D), D) <=>
               g = [s \in SUBSET D |->
                      IF s = {} THEN 0
                      ELSE h[a[CHOOSE x \in s : TRUE]].request.amount
                             + g[s \ {CHOOSE x \in s : TRUE}]]
  BY DEF Sums, Pick, Amounts
<1> QED BY <1>1, <1>2, SumIsValue

LEMMA AmountsAreNat == \A x \in Prices \union {0} : x \in Nat
<1>1. \A x \in Prices : x \in Nat
  BY PricesAssumption
<1> QED BY <1>1

\* What is spent is a sum, before a step and after it.
LEMMA SpentNow == Spent = SumFunctionOnSet(Amounts(conf, audit, ByTenant), ByTenant)
BY SpentIsSum DEF Spent

LEMMA SpentNext == (Spent = SumFunctionOnSet(Amounts(conf, audit, ByTenant), ByTenant))'
BY SpentNow, PTL

\* What is spent in a window, and that it is finite and not negative
LEMMA SpentTyped ==
  ASSUME PInv
  PROVE  /\ Spent = SumFunctionOnSet(Amounts(conf, audit, ByTenant), ByTenant)
         /\ \A i \in ByTenant : /\ i \in DOMAIN audit
                                /\ conf[audit[i]].request.amount \in Nat
         /\ Spent \in Nat
<1>1. Spent = SumFunctionOnSet(Amounts(conf, audit, ByTenant), ByTenant)
  BY SpentNow
<1>2. \A i \in ByTenant : i \in DOMAIN audit
  BY WindowsFinite DEF ByTenant
<1>3. \A i \in DOMAIN audit : conf[audit[i]].request.amount \in Nat
  <2> TAKE i \in DOMAIN audit
  <2>1. conf[audit[i]].request \in Request
    BY LoggedIsExecuted DEF Confirmation
  <2>2. conf[audit[i]].request.amount \in Prices \union {0}
    BY <2>1 DEF Request
  <2> QED BY <2>2, AmountsAreNat
<1> DEFINE f == Amounts(conf, audit, ByTenant)
<1>4. \A i \in ByTenant : f[i] \in Nat
  BY <1>2, <1>3 DEF Amounts
<1> HIDE DEF f
<1>5. SumFunctionOnSet(f, ByTenant) \in Nat
  BY <1>4, WindowsFinite, SumOfNats
<1> QED BY <1>1, <1>2, <1>3, <1>5 DEF f

\* Windows that take in no row spend no more.
LEMMA SpentShrinks ==
  ASSUME PInv, UNCHANGED audit, day' \in Nat, day' >= day,
         \A i \in DOMAIN audit : conf'[audit[i]].request = conf[audit[i]].request
  PROVE  Spent' \in Int /\ Spent' <= Spent
<1> DEFINE D == ByTenant
           E == ByTenant'
           f == Amounts(conf, audit, D)
           g == Amounts(conf', audit', E)
<1>1. E \subseteq D /\ \A i \in E : i \in DOMAIN audit
  BY WindowsFinite DEF ByTenant
<1>2. Spent' = SumFunctionOnSet(g, E)
  BY SpentNext DEF Amounts
<1>3. \A i \in D : f[i] = conf[audit[i]].request.amount /\ f[i] \in Nat
  BY SpentTyped DEF Amounts
<1>4. \A i \in E : g[i] = f[i]
  BY <1>1, <1>3 DEF Amounts
<1>5. IsFiniteSet(D) /\ IsFiniteSet(E)
  BY <1>1, WindowsFinite, SmallerIsFinite
<1>6. Spent = SumFunctionOnSet(f, D)
  BY SpentTyped
<1> HIDE DEF D, E, f, g
<1>7. SumFunctionOnSet(g, E) = SumFunctionOnSet(f, E)
  BY <1>4, <1>5, SumAgrees
<1>8. SumFunctionOnSet(f, E) <= SumFunctionOnSet(f, D)
  BY <1>1, <1>3, <1>5, SumOfFewer
<1>9. SumFunctionOnSet(f, E) \in Int
  BY <1>1, <1>3, <1>5, SumIsInt
<1> QED BY <1>2, <1>6, <1>7, <1>8, <1>9

\* An execute spends the amount of its request.
LEMMA ExecuteSpends ==
  ASSUME PInv, NEW k \in Callers, Execute(k)
  PROVE  Spent' = Spent + RequestOf(k).amount
<1> DEFINE D == ByTenant
           n == Len(audit) + 1
           f == Amounts(conf, audit, D)
           g == Amounts(conf', audit', D \union {n})
<1>1. /\ Len(audit) \in Nat /\ Len(audit') = n /\ day' = day
      /\ conf'[audit'[n]].request = RequestOf(k)
  BY Executes
<1>2. \A i \in 1..Len(audit) : conf'[audit'[i]] = conf[audit[i]]
  BY Executes, LoggedIsExecuted, WindowsFinite
<1>3. ByTenant' = D \union {n} /\ n \notin D /\ D \subseteq 1..Len(audit)
  <2>1. day \in Nat /\ day >= 1 /\ day <= Len(audit) + 1
    <3>1. hour \in 1..(Len(audit) + 1) /\ day \in 1..hour
      BY DEF PInv, PipelineTyped
    <3> QED BY <1>1, <3>1
  <2> QED BY <1>1, <2>1 DEF ByTenant
<1>4. Spent' = SumFunctionOnSet(g, D \union {n})
  BY <1>3, SpentNext DEF Amounts
<1>5. \A i \in D : f[i] = conf[audit[i]].request.amount /\ f[i] \in Int
  BY SpentTyped DEF Amounts
<1>6. \A i \in D : g[i] = f[i] /\ g[i] \in Int
  BY <1>2, <1>3, <1>5 DEF Amounts
<1>7. g[n] = RequestOf(k).amount
  BY <1>1 DEF Amounts
<1>8. g[n] \in Int
  <2>1. RequestOf(k) \in Request
    BY Called DEF Execute
  <2>2. RequestOf(k).amount \in Prices \union {0}
    BY <2>1 DEF Request
  <2> QED BY <1>7, <2>2, AmountsAreNat
<1>9. IsFiniteSet(D) /\ Spent = SumFunctionOnSet(f, D)
  BY WindowsFinite, SpentTyped
<1> HIDE DEF D, f, g, n
<1>10. SumFunctionOnSet(g, D) = SumFunctionOnSet(f, D)
  BY <1>6, <1>9, SumAgrees
<1>11. SumFunctionOnSet(g, D \union {n}) = SumFunctionOnSet(g, D) + g[n]
  BY <1>3, <1>6, <1>8, <1>9, SumWith
<1> QED BY <1>4, <1>7, <1>9, <1>10, <1>11

\* Who holds the lock has room for what it asks for.
CeilingRoom == lock # None => Spent + RequestOf(lock).amount <= DailyLimit

CInv == CeilingRoom /\ CeilingHolds

LEMMA AmountTyped ==
  ASSUME PInv, NEW k \in Callers, call[k] # None
  PROVE  /\ RequestOf(k).amount \in Nat
         /\ RequestOf(k).tool # "procurement_mark_paid" => RequestOf(k).amount = 0
<1>1. RequestOf(k) \in Request
  BY Called
<1>2. /\ RequestOf(k).amount \in Prices \union {0}
      /\ RequestOf(k).tool # "procurement_mark_paid" => RequestOf(k).amount = 0
  BY <1>1 DEF Request
<1> QED BY <1>2, AmountsAreNat

\* Every step keeps the ceiling.
LEMMA CeilingStep ==
  ASSUME PInv, CInv, Next
  PROVE  CInv'
<1>1. \A i \in DOMAIN audit : conf'[audit[i]].request = conf[audit[i]].request
  BY RequestsKeep
<1>2. Spent \in Nat /\ Spent <= DailyLimit /\ DailyLimit \in Nat
  BY SpentTyped, LimitsAssumption DEF CInv, CeilingHolds
<1>3. CASE \A k \in Callers : ~Admit(k) /\ ~Execute(k)
  <2>1. /\ UNCHANGED audit /\ day' \in Nat /\ day' >= day
        /\ lock' = None \/ (lock' = lock /\ RequestOf(lock)' = RequestOf(lock))
    BY <1>3, NobodyAdmitted
  <2>2. Spent' \in Int /\ Spent' <= Spent
    BY <1>1, <2>1, SpentShrinks
  <2>3. CeilingHolds'
    BY <1>2, <2>2 DEF CeilingHolds
  <2>4. ASSUME lock' # None PROVE Spent' + RequestOf(lock)'.amount <= DailyLimit
    <3>1. lock \in Callers /\ call[lock] # None /\ RequestOf(lock)' = RequestOf(lock)
      BY <2>1, <2>4 DEF PInv, PipelineTyped, LockHeld
    <3>2. Spent + RequestOf(lock).amount <= DailyLimit
      BY <2>1, <2>4 DEF CInv, CeilingRoom
    <3>3. PICK k \in Callers : k = lock
      BY <3>1
    <3>4. RequestOf(lock).amount \in Nat
      <4>1. RequestOf(k).amount \in Nat
        BY <3>1, <3>3, AmountTyped
      <4> QED BY <3>3, <4>1 DEF RequestOf
    <3> QED BY <1>2, <2>2, <3>1, <3>2, <3>4
  <2> QED BY <2>3, <2>4 DEF CInv, CeilingRoom, RequestOf
<1>4. ASSUME NEW k \in Callers, Admit(k)
      PROVE  CInv'
  <2>1. /\ call[k] # None /\ lock' = k
        /\ Goto(k, "admitted", None) /\ UNCHANGED <<conf, audit, hour, day>>
        /\ RequestOf(k).tool = "procurement_mark_paid" => MayPay(RequestOf(k))
    BY <1>4 DEF Admit
  <2>2. RequestOf(k)' = RequestOf(k)
    BY <2>1, Called DEF Goto, RequestOf, PInv, PipelineTyped, Call
  <2>3. Spent' = Spent
    BY <2>1, SpentNow, SpentNext DEF Amounts, ByTenant
  <2>4. Spent + RequestOf(k).amount <= DailyLimit
    <3>1. CASE RequestOf(k).tool = "procurement_mark_paid"
      BY <2>1, <3>1 DEF MayPay
    <3>2. CASE RequestOf(k).tool # "procurement_mark_paid"
      BY <1>2, <2>1, <3>2, AmountTyped
    <3> QED BY <3>1, <3>2
  <2>5. RequestOf(lock)' = RequestOf(k)'
    BY <2>1 DEF RequestOf
  <2>6. CeilingRoom'
    BY <2>2, <2>3, <2>4, <2>5 DEF CeilingRoom
  <2> QED BY <1>2, <2>3, <2>6 DEF CInv, CeilingHolds
<1>5. ASSUME NEW k \in Callers, Execute(k)
      PROVE  CInv'
  <2>1. lock = k /\ lock' = None /\ lock # None
    BY <1>5, Executes, NoneIsNone DEF Execute, Ends
  <2>2. Spent' = Spent + RequestOf(k).amount
    BY <1>5, ExecuteSpends
  <2>3. Spent + RequestOf(k).amount <= DailyLimit
    BY <2>1 DEF CInv, CeilingRoom, RequestOf
  <2> QED BY <2>1, <2>2, <2>3 DEF CInv, CeilingRoom, CeilingHolds
<1> QED BY <1>3, <1>4, <1>5

-------------------------------------------------------------------------------
(* The audit log and the events of the orders *)

\* The executes of a tool on an order
Logged(o, tool) == {i \in DOMAIN audit : conf[audit[i]].request.order = o
                                         /\ conf[audit[i]].request.tool = tool}

\* Steps that neither append to the log nor move an order for MCP
LEMMA AuditSame ==
  ASSUME PInv, Next, MovesAreAudited, UNCHANGED <<audit, mcpMoves>>
  PROVE  MovesAreAudited'
<1>1. ASSUME NEW o \in Orders, NEW tool \in MoveTools
      PROVE  Logged(o, tool)' = Logged(o, tool)
  <2>1. \A i \in DOMAIN audit : conf'[audit'[i]].request = conf[audit[i]].request
    BY RequestsKeep
  <2> QED BY <2>1 DEF Logged
<1> QED BY <1>1 DEF MovesAreAudited, Logged

\* An execute does both, or neither of them for a tool that moves nothing.
LEMMA ExecuteAudits ==
  ASSUME PInv, OInv, MovesAreAudited, Next, NEW k \in Callers, Execute(k)
  PROVE  MovesAreAudited'
<1>1. PICK r \in Request : r = RequestOf(k)
  BY Called DEF Execute
<1>2. PICK n : n = Len(audit) + 1
  OBVIOUS
<1>3. r.order \in Orders /\ r.tool \in Tools
  BY DEF Request
<1>4. /\ Len(audit) \in Nat /\ DOMAIN audit = 1..Len(audit) /\ DOMAIN audit' = 1..n
      /\ n \notin DOMAIN audit /\ DOMAIN audit' = DOMAIN audit \union {n}
      /\ conf'[audit'[n]].request = r
      /\ \A i \in DOMAIN audit : conf'[audit'[i]].request = conf[audit[i]].request
  <2>1. \A i \in DOMAIN audit : conf'[audit[i]].request = conf[audit[i]].request
    BY RequestsKeep
  <2>2. Len(audit) \in Nat /\ DOMAIN audit = 1..Len(audit)
    BY WindowsFinite
  <2>3. DOMAIN audit' = 1..n /\ conf'[audit'[n]].request = r
    BY <1>1, <1>2, Executes
  <2>4. \A i \in DOMAIN audit : audit'[i] = audit[i]
    BY <2>2, Executes
  <2>5. n \notin DOMAIN audit /\ 1..n = DOMAIN audit \union {n}
    BY <1>2, <2>2
  <2> QED BY <2>1, <2>2, <2>3, <2>4, <2>5
<1>5. ASSUME NEW o \in Orders, NEW tool \in MoveTools
      PROVE  /\ IsFiniteSet(Logged(o, tool)) /\ Cardinality(Logged(o, tool)) \in Nat
             /\ n \notin Logged(o, tool)
             /\ Logged(o, tool)' = IF r.order = o /\ r.tool = tool
                                   THEN Logged(o, tool) \union {n} ELSE Logged(o, tool)
  <2>1. IsFiniteSet(DOMAIN audit)
    BY WindowsFinite, FS_Interval
  <2>2. Logged(o, tool) \subseteq DOMAIN audit
    BY DEF Logged
  <2>3. Logged(o, tool)' = IF r.order = o /\ r.tool = tool
                           THEN Logged(o, tool) \union {n} ELSE Logged(o, tool)
    BY <1>4 DEF Logged
  <2> QED BY <1>4, <2>1, <2>2, <2>3, FS_Subset, FS_CardinalityType
<1>6. ASSUME NEW o \in Orders, NEW tool \in MoveTools
      PROVE  /\ Target[ToolMove[tool]] \in Statuses
             /\ mcpMoves'[o][Target[ToolMove[tool]]] =
                  IF r.order = o /\ r.tool = tool THEN mcpMoves[o][Target[ToolMove[tool]]] + 1
                  ELSE mcpMoves[o][Target[ToolMove[tool]]]
  <2>1. \A t \in MoveTools : Target[ToolMove[t]] \in Statuses
    BY ToolMoves, Targets DEF Statuses
  <2>2. \A t \in MoveTools : t # tool => Target[ToolMove[t]] # Target[ToolMove[tool]]
    BY ToolMoves, Targets
  <2>3. CASE r.tool \in MoveTools
    <3>1. RecordedMcp(r.order, Target[ToolMove[r.tool]])
      BY <1>1, <2>3 DEF Execute, Change
    <3> QED BY <1>3, <2>1, <2>2, <2>3, <3>1, RecordsMcp DEF OInv
  <2>4. CASE r.tool \notin MoveTools
    <3>1. mcpMoves' = mcpMoves
      BY <1>1, <2>4 DEF Execute, Change, orders
    <3> QED BY <2>1, <2>4, <3>1
  <2> QED BY <2>3, <2>4
<1>7. ASSUME NEW o \in Orders, NEW tool \in MoveTools
      PROVE  mcpMoves'[o][Target[ToolMove[tool]]] = Cardinality(Logged(o, tool)')
  <2>1. mcpMoves[o][Target[ToolMove[tool]]] = Cardinality(Logged(o, tool))
    BY DEF MovesAreAudited, Logged
  <2>2. Cardinality(Logged(o, tool) \union {n}) = Cardinality(Logged(o, tool)) + 1
    BY <1>5, FS_AddElement
  <2> QED BY <1>5, <1>6, <2>1, <2>2
<1> QED BY <1>7 DEF MovesAreAudited, Logged

\* Every step keeps the log and the events alike.
LEMMA AuditStep ==
  ASSUME PInv, OInv, MovesAreAudited, Next
  PROVE  MovesAreAudited'
<1>1. ASSUME NEW x \in Operators, OperatorStep(x), UNCHANGED pipeline
      PROVE  UNCHANGED <<audit, mcpMoves>>
  BY <1>1 DEF pipeline, OperatorStep, Generate, Create, Read, SaveMove, SavePlaced,
              SaveDelivered, ReadForPrice, UpdatePrice, RollBack, Recorded, orders
<1>2. ASSUME NEW k \in Callers, CallStep(k), ~Execute(k)
      PROVE  UNCHANGED <<audit, mcpMoves>>
  BY <1>2 DEF CallStep, Consume, Admit, ReadOrder, AuditFails, Fail, orders
<1>3. ASSUME NEW c \in Confirmations, Expire(c) \/ \E r \in Request : DryRun(c, r)
      PROVE  UNCHANGED <<audit, mcpMoves>>
  BY <1>3 DEF DryRun, Expire, orders
<1>4. ASSUME TimePasses
      PROVE  UNCHANGED <<audit, mcpMoves>>
  BY <1>4 DEF TimePasses, orders
<1> QED BY <1>1, <1>2, <1>3, <1>4, AuditSame, ExecuteAudits DEF Next

-------------------------------------------------------------------------------
(* The theorems *)

IInv == PInv /\ OInv /\ QInv /\ CInv /\ MovesAreAudited

\* Initially all of it holds.
LEMMA Begins == Init => IInv
<1> SUFFICES ASSUME Init PROVE IInv
  OBVIOUS
<1>1. PInv /\ OInv
  BY PipelineBegins, OrdersBegin DEF Init
<1>2. Len(audit) = 0 /\ DOMAIN audit = {} /\ ByTenant = {} /\ \A t \in Tokens : ByToken(t) = {}
  BY DEF Init, ByTenant, ByToken
<1>3. QInv
  <2>1. QuotaRoom
    BY DEF Init, QuotaRoom
  <2>2. Cardinality({}) = 0 /\ 0 <= TokenLimit /\ 0 <= TenantLimit
    BY FS_EmptySet, LimitsAssumption
  <2>3. QuotasHold
    BY <1>2, <2>2 DEF QuotasHold
  <2> QED BY <2>1, <2>3 DEF QInv
<1>4. MovesAreAudited
  <2> SUFFICES ASSUME NEW o \in Orders, NEW tool \in MoveTools
               PROVE  mcpMoves[o][Target[ToolMove[tool]]] = Cardinality(Logged(o, tool))
    BY DEF MovesAreAudited, Logged
  <2>1. Logged(o, tool) = {}
    BY <1>2 DEF Logged
  <2>2. Target[ToolMove[tool]] \in Statuses
    BY ToolMoves, Targets DEF Statuses
  <2> QED BY <2>1, <2>2, FS_EmptySet DEF Init, InitOrders
<1>5. CInv
  <2>1. Spent = 0
    <3>1. Spent = SumFunctionOnSet(Amounts(conf, audit, ByTenant), ByTenant)
      BY <1>1, SpentTyped
    <3> QED BY <1>2, <3>1, SumOfNone
  <2>2. lock = None
    BY DEF Init
  <2> QED BY <2>1, <2>2, LimitsAssumption DEF CInv, CeilingRoom, CeilingHolds
<1> QED BY <1>1, <1>3, <1>4, <1>5 DEF IInv

\* Every step keeps all of it.
LEMMA Keeps == IInv /\ [Next]_vars => IInv'
<1> SUFFICES ASSUME IInv, [Next]_vars PROVE IInv'
  OBVIOUS
<1>1. CASE Next
  BY <1>1, PipelineKeeps, OrdersKeep, QuotasStep, CeilingStep, AuditStep DEF IInv
<1>2. CASE UNCHANGED vars
  <2>1. UNCHANGED <<po, expected, actual, mcpMoves, delivered, inbound, stock, doing,
                    conf, audit, hour, day, lock, call>>
    BY <1>2 DEF vars, orders, pipeline
  <2>2. OInv'
    BY <2>1 DEF IInv, OInv, OrdersTyped, Held, RowsWhole, GoodsIn
  <2>3. PInv'
    BY <2>1 DEF IInv, PInv, PipelineTyped, CallsHold, LockHeld, Distinct, ExecutedOnce, RequestOf
  <2>4. QInv' /\ MovesAreAudited'
    BY <2>1 DEF IInv, QInv, QuotaRoom, QuotasHold, WithinQuota, ByToken, ByTenant, RequestOf,
                MovesAreAudited
  <2>5. CInv'
    <3>1. Spent' = Spent
      BY <2>1, SpentNow, SpentNext DEF Amounts, ByTenant
    <3> QED BY <2>1, <3>1 DEF IInv, CInv, CeilingRoom, CeilingHolds, RequestOf
  <2> QED BY <2>2, <2>3, <2>4, <2>5 DEF IInv
<1> QED BY <1>1, <1>2

\* The inductive invariant, of which the theorems below are parts
THEOREM Invariant == Spec => []IInv
BY Begins, Keeps, PTL DEF Spec

\* All variables keep their types.
THEOREM TypeCorrect == Spec => []TypeOK
<1>1. IInv => TypeOK
  BY DEF IInv, OInv, PInv, OrdersTyped, Held, PipelineTyped, TypeOK
<1> QED BY <1>1, Invariant, PTL

\* A confirmation is executed at most once, and exactly what the audit log has
\* is marked executed (consumeConfirmation, runExecute).
THEOREM ExecutesOnce == Spec => []ExecutedOnce
<1>1. IInv => ExecutedOnce
  BY DEF IInv, PInv
<1> QED BY <1>1, Invariant, PTL

\* Executes stay within the hour's quota of their token and the day's of their
\* tenant, however many replicas execute at once (lockTenant).
THEOREM QuotasKept == Spec => []QuotasHold
<1>1. IInv => QuotasHold
  BY DEF IInv, QInv
<1> QED BY <1>1, Invariant, PTL

\* What is paid through MCP in a day stays below the tenant's ceiling, however
\* many calls passed its check at once (procurementMarkPaidTool, under the lock).
THEOREM CeilingKept == Spec => []CeilingHolds
<1>1. IInv => CeilingHolds
  BY DEF IInv, CInv
<1> QED BY <1>1, Invariant, PTL

\* Every move through MCP has its audit row, and every such row its move
\* (runExecute, writeEvent).
THEOREM AuditComplete == Spec => []MovesAreAudited
<1>1. IInv => MovesAreAudited
  BY DEF IInv
<1> QED BY <1>1, Invariant, PTL

\* Moves that overwrite each other leave a row that one of them made
\* (transitionTx).
THEOREM WholeRows == Spec => []RowsAreWhole
<1>1. IInv => RowsAreWhole
  BY DEF IInv, OInv, RowsWhole, Whole, RowsAreWhole
<1> QED BY <1>1, Invariant, PTL

\* The goods of an order enter the stock once (inboundStockTx).
THEOREM Received == Spec => []ReceivedOnce
<1>1. IInv => ReceivedOnce
  BY DEF IInv, OInv, GoodsIn, ReceivedOnce
<1> QED BY <1>1, Invariant, PTL
===============================================================================
