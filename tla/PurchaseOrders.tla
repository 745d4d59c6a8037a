---------------------------- MODULE PurchaseOrders ----------------------------
(***************************************************************************)
(* Purchase orders and the operators who move them (modules/procurement).  *)
(*                                                                         *)
(* Every move is one transaction of the database, READ COMMITTED: it reads *)
(* the order's row without a lock, asks the state machine, and saves the   *)
(* whole row it read. What others commit between the read and the save is  *)
(* overwritten. A move is therefore two steps here, the read and the save  *)
(* with everything that commits along with it.                             *)
(*                                                                         *)
(* All orders buy the same line of a sales order, one piece of one SKU;    *)
(* an order is named by the idempotency key it is generated with. Of a row *)
(* the status, the total, and whether it is paid, has the supplier's order *)
(* number and was confirmed are kept; addresses, channels, the tracking    *)
(* records and the notices to the supplier's mock are not.                 *)
(***************************************************************************)
EXTENDS Naturals

CONSTANTS
  Operators,  \* requests of operators, one move each at a time
  Orders,     \* purchase orders, by the key of their generation
  Prices,     \* what the line may cost, in cents
  MaxRetries, \* PurchaseOrder.MaxRetries
  None

ASSUME PricesAssumption == Prices \subseteq Nat \ {0}
ASSUME RetriesAssumption == MaxRetries \in Nat

VARIABLES
  po,       \* the row of each order in purchase_orders, or None
  expected, \* the expected price of each order's line
  actual,   \* its actual price, 0 for none
  mcpMoves, \* purchase_order_events: how many rows say that each order came
            \* to each status through MCP,
  delivered, \* and the orders with a row that says they were delivered
  inbound,  \* the orders with a purchase_inbound row in the stock's change log
  stock,    \* the pieces the SKU has
  doing     \* what each operator is doing, and what was read for it

orders == <<po, expected, actual, mcpMoves, delivered, inbound, stock>>

Statuses == {"draft", "pending_confirm", "placing", "placed", "paid", "shipped",
             "delivered", "failed", "cancelled", "voided"}

Row == [status: Statuses, total: Nat, paid: BOOLEAN, numbered: BOOLEAN,
        confirmed: BOOLEAN, retries: Nat]

\* The state machine
CanTransition(from, to) == <<from, to>> \in
  {<<"draft", "pending_confirm">>, <<"draft", "cancelled">>,
   <<"pending_confirm", "placing">>, <<"pending_confirm", "cancelled">>,
   <<"placing", "placed">>, <<"placing", "failed">>, <<"placing", "cancelled">>,
   <<"placed", "paid">>, <<"placed", "failed">>, <<"placed", "cancelled">>,
   <<"paid", "shipped">>, <<"paid", "failed">>,
   <<"shipped", "delivered">>,
   <<"failed", "placing">>, <<"failed", "cancelled">>, <<"failed", "voided">>,
   <<"delivered", "voided">>, <<"cancelled", "voided">>}

\* The moves of an operator, and where each leads
Target == [Submit |-> "pending_confirm", Confirm |-> "placing", Retry |-> "placing",
           MarkPlaced |-> "placed", MarkPaid |-> "paid", FillLogistics |-> "shipped",
           MarkDelivered |-> "delivered", Cancel |-> "cancelled", Void |-> "voided"]
Moves == DOMAIN Target

Doing == [op: Moves \union {"Generate", "UpdateItemPrice", "UpdateItemActualPrice"},
          order: Orders, row: Row \union {None}, price: Nat]

InitOrders ==
  /\ po = [o \in Orders |-> None]
  /\ expected = [o \in Orders |-> 0]
  /\ actual = [o \in Orders |-> 0]
  /\ mcpMoves = [o \in Orders |-> [s \in Statuses |-> 0]]
  /\ delivered = {}
  /\ inbound = {}
  /\ stock = 0
  /\ doing = [x \in Operators |-> None]

Starts(x, op, o, price) ==
  doing' = [doing EXCEPT ![x] = [op |-> op, order |-> o, row |-> po[o], price |-> price]]

Done(x) == doing' = [doing EXCEPT ![x] = None]

\* writeEvent, of a move by an operator and of one through MCP
Recorded(o, to) ==
  /\ delivered' = IF to = "delivered" THEN delivered \union {o} ELSE delivered
  /\ UNCHANGED mcpMoves

RecordedMcp(o, to) ==
  /\ mcpMoves' = [mcpMoves EXCEPT ![o][to] = @ + 1]
  /\ UNCHANGED delivered

-------------------------------------------------------------------------------
(* Service.Generate *)

\* An order that still counts buys the line.
Active(o) == po[o] # None /\ po[o].status \notin {"cancelled", "failed", "voided"}
Covered == \E o \in Orders : Active(o)

\* The key is new and the line is not covered: its price is looked up.
Generate(x, o) ==
  /\ doing[x] = None
  /\ po[o] = None
  /\ ~Covered
  /\ \E price \in Prices : Starts(x, "Generate", o, price)
  /\ UNCHANGED orders

\* The order is created; the unique index refuses a key that was used since.
Create(x) ==
  /\ doing[x] # None
  /\ doing[x].op = "Generate"
  /\ LET o == doing[x].order
     IN  /\ po[o] = None
         /\ po' = [po EXCEPT ![o] =
                     [status |-> "draft", total |-> doing[x].price, paid |-> FALSE,
                      numbered |-> FALSE, confirmed |-> FALSE, retries |-> 0]]
         /\ expected' = [expected EXCEPT ![o] = doing[x].price]
         /\ Recorded(o, "draft")
  /\ Done(x)
  /\ UNCHANGED <<actual, inbound, stock>>

-------------------------------------------------------------------------------
(* Service.transitionTx: a move reads the row, then saves it *)

Read(x, op, o) ==
  /\ doing[x] = None
  /\ po[o] # None
  /\ CanTransition(po[o].status, Target[op])
  /\ op = "Retry" => po[o].retries < MaxRetries
  /\ Starts(x, op, o, expected[o])
  /\ UNCHANGED orders

\* The total MarkPlaced computes from the line, which it reads right before
PlacedTotal(o, price) ==
  IF price > 0 THEN price ELSE IF actual[o] > 0 THEN actual[o] ELSE expected[o]

\* The row as the move op makes it of the row it read
Moved(row, op, total) ==
  [row EXCEPT !.status = Target[op],
              !.total = total,
              !.paid = @ \/ op = "MarkPaid",
              !.numbered = @ \/ op = "MarkPlaced",
              !.confirmed = @ \/ op = "Confirm",
              !.retries = IF op = "Retry" THEN @ + 1 ELSE @]

\* Mutant: the move updates the columns it is about.
SaveMoved(o, row) ==
  po' = [po EXCEPT ![o] = [row EXCEPT !.paid = @ \/ po[o].paid,
                                      !.numbered = @ \/ po[o].numbered]]

\* tx.Save writes every column.
Save(o, row) == po' = [po EXCEPT ![o] = row]

\* Mutant: the change log is not asked.
NeverInbound(o) == FALSE

\* inboundStockTx: a line that is in the change log is skipped. The tracking
\* records, updated first, keep two transactions of one order apart here.
AlreadyInbound(o) == o \in inbound

Receive(o) ==
  \/ AlreadyInbound(o) /\ UNCHANGED <<inbound, stock>>
  \/ ~AlreadyInbound(o) /\ inbound' = inbound \union {o} /\ stock' = stock + 1

\* A move that neither sets prices nor receives goods; Submit takes the total
\* of the preview it asked for beforehand.
SaveMove(x) ==
  /\ doing[x] # None
  /\ doing[x].op \in Moves \ {"MarkPlaced", "MarkDelivered"}
  /\ LET o == doing[x].order  row == doing[x].row  op == doing[x].op
     IN  /\ Save(o, Moved(row, op, IF op = "Submit" THEN doing[x].price ELSE row.total))
         /\ Recorded(o, Target[op])
  /\ Done(x)
  /\ UNCHANGED <<expected, actual, inbound, stock>>

\* MarkPlaced with the actual price, or without (0)
SavePlaced(x, price) ==
  /\ doing[x] # None
  /\ doing[x].op = "MarkPlaced"
  /\ LET o == doing[x].order
     IN  /\ Save(o, Moved(doing[x].row, "MarkPlaced", PlacedTotal(o, price)))
         /\ actual' = [actual EXCEPT ![o] = IF price > 0 THEN price ELSE @]
         /\ Recorded(o, "placed")
  /\ Done(x)
  /\ UNCHANGED <<expected, inbound, stock>>

SaveDelivered(x) ==
  /\ doing[x] # None
  /\ doing[x].op = "MarkDelivered"
  /\ LET o == doing[x].order
     IN  /\ Save(o, Moved(doing[x].row, "MarkDelivered", doing[x].row.total))
         /\ Receive(o)
         /\ Recorded(o, "delivered")
  /\ Done(x)
  /\ UNCHANGED <<expected, actual>>

-------------------------------------------------------------------------------
(* UpdateItemPrice and UpdateItemActualPrice: the status is read, then the   *)
(* price and the row's total_amount alone are updated.                       *)

Priceable == [UpdateItemPrice |-> {"draft", "pending_confirm"},
              UpdateItemActualPrice |-> {"placed", "paid", "shipped", "delivered"}]

ReadForPrice(x, op, o) ==
  /\ doing[x] = None
  /\ po[o] # None
  /\ po[o].status \in Priceable[op]
  /\ \E price \in Prices : Starts(x, op, o, price)
  /\ UNCHANGED orders

UpdatePrice(x) ==
  /\ doing[x] # None
  /\ doing[x].op \in DOMAIN Priceable
  /\ LET o == doing[x].order  price == doing[x].price
     IN  /\ po' = [po EXCEPT ![o].total = price]
         /\ IF doing[x].op = "UpdateItemPrice"
            THEN expected' = [expected EXCEPT ![o] = price] /\ UNCHANGED actual
            ELSE actual' = [actual EXCEPT ![o] = price] /\ UNCHANGED expected
  /\ Done(x)
  /\ UNCHANGED <<mcpMoves, delivered, inbound, stock>>

\* The transaction fails or its process dies: all of it is rolled back.
RollBack(x) ==
  /\ doing[x] # None
  /\ Done(x)
  /\ UNCHANGED orders

OperatorStep(x) ==
  \/ \E o \in Orders :
       \/ Generate(x, o)
       \/ \E op \in Moves : Read(x, op, o)
       \/ \E op \in DOMAIN Priceable : ReadForPrice(x, op, o)
  \/ Create(x)
  \/ SaveMove(x)
  \/ \E price \in Prices \union {0} : SavePlaced(x, price)
  \/ SaveDelivered(x)
  \/ UpdatePrice(x)
  \/ RollBack(x)
===============================================================================
