---------------------------- MODULE ConfirmedWrites ----------------------------
(***************************************************************************)
(* Writes through MCP (modules/mcpwrite and the write tools of             *)
(* modules/mcpserver), next to the operators of PurchaseOrders.            *)
(*                                                                         *)
(* A dry run issues a confirmation that is bound to a request; an execute  *)
(* consumes the confirmation in a transaction of its own, then takes the   *)
(* tenant's lock and, in a second transaction, counts the quota, checks    *)
(* and makes the change, writes its audit row and marks the confirmation   *)
(* executed. Whatever fails in between burns the confirmation.             *)
(*                                                                         *)
(* One tenant whose gates are open. The audit log has the rows of          *)
(* successful executes, in their order: quotas and the ceiling on amounts  *)
(* are counted from those of the last hour and day.                        *)
(***************************************************************************)
EXTENDS PurchaseOrders, Sequences, FiniteSets, FiniteSetsExt

CONSTANTS
  Callers,       \* calls of tools in execute mode, on any replica
  Tokens,        \* MCP tokens of the tenant
  Confirmations, \* bound: the confirmations issued
  TokenLimit,    \* PerTokenHourlyLimit
  TenantLimit,   \* PerTenantDailyLimit
  SingleLimit,   \* the tenant's mark_paid_single_limit, in cents
  DailyLimit     \* the tenant's mark_paid_daily_limit, in cents

ASSUME LimitsAssumption ==
  /\ TokenLimit \in Nat
  /\ TenantLimit \in Nat
  /\ SingleLimit \in Nat
  /\ DailyLimit \in Nat

VARIABLES
  conf,  \* each confirmation: its request and what became of it, or None
  audit, \* the rows of successful executes: whose confirmation
  hour,  \* the first row of the last hour
  day,   \* the first row of the last day
  lock,  \* the call that holds the tenant's lock, or None
  call   \* what each call is at, or None

pipeline == <<conf, audit, hour, day, lock, call>>
vars == <<orders, doing, pipeline>>

\* The write tools and the moves they make; a mark on an exception and a tag
\* of an order make none.
ToolMove == [procurement_mark_placed |-> "MarkPlaced",
             procurement_mark_paid |-> "MarkPaid",
             procurement_fill_logistics |-> "FillLogistics"]
MoveTools == DOMAIN ToolMove
Tools == MoveTools \union {"exceptions_mark"}

\* Only paying has an amount.
Request == {r \in [token: Tokens, tool: Tools, order: Orders, amount: Prices \union {0}] :
              r.amount = 0 <=> r.tool # "procurement_mark_paid"}

ConfirmationStates == {"open", "expired", "consumed", "executed"}
Confirmation == [state: ConfirmationStates, request: Request]
Stages == {"locking", "admitted", "writing"}
Call == [at: Stages, conf: Confirmations, row: Row \union {None}]

ASSUME NoneAssumption ==
  None \notin Row \union Doing \union Confirmation \union Call \union Callers

Init ==
  /\ InitOrders
  /\ conf = [c \in Confirmations |-> None]
  /\ audit = << >>
  /\ hour = 1
  /\ day = 1
  /\ lock = None
  /\ call = [k \in Callers |-> None]

RequestOf(k) == conf[call[k].conf].request

\* The successful executes in the audit log: CountExecutesByToken,
\* CountExecutesByTenant and SumExecuteAmountByTenantTool
ByToken(t) == {i \in hour..Len(audit) : conf[audit[i]].request.token = t}
ByTenant == day..Len(audit)
Spent == MapThenSumSet(LAMBDA i : conf[audit[i]].request.amount, ByTenant)

WithinQuota(t) == Cardinality(ByToken(t)) < TokenLimit /\ Cardinality(ByTenant) < TenantLimit

\* What a tool checks of its order before it is confirmed: the move, and of a
\* payment the ceilings and that the amount is the order's
MayMove(r) == po[r.order] # None /\ CanTransition(po[r.order].status, Target[ToolMove[r.tool]])

\* Mutant: what is spent is compared, without the payment at hand.
MayPayAfter(r) ==
  /\ MayMove(r)
  /\ po[r.order].total = r.amount
  /\ r.amount <= SingleLimit
  /\ Spent <= DailyLimit

MayPay(r) ==
  /\ MayMove(r)
  /\ po[r.order].total = r.amount
  /\ r.amount <= SingleLimit
  /\ Spent + r.amount <= DailyLimit

Valid(r) ==
  CASE r.tool = "procurement_mark_paid" -> MayPay(r)
    [] r.tool \in MoveTools \ {"procurement_mark_paid"} -> MayMove(r)
    [] OTHER -> TRUE

-------------------------------------------------------------------------------
(* Service.runDryRun, and the life of a confirmation *)

DryRun(c, r) ==
  /\ conf[c] = None
  /\ WithinQuota(r.token)
  /\ Valid(r)
  /\ conf' = [conf EXCEPT ![c] = [state |-> "open", request |-> r]]
  /\ UNCHANGED <<orders, doing, audit, hour, day, lock, call>>

\* Mutant: whether it was consumed is not asked.
OpenStill(c) == conf[c] # None /\ conf[c].state \in {"open", "consumed"}

Open(c) == conf[c] # None /\ conf[c].state = "open"

Expire(c) ==
  /\ Open(c)
  /\ conf' = [conf EXCEPT ![c].state = "expired"]
  /\ UNCHANGED <<orders, doing, audit, hour, day, lock, call>>

\* Time: rows leave the last hour, and then the last day.
Pass ==
  \/ hour <= Len(audit) /\ hour' = hour + 1 /\ UNCHANGED day
  \/ day < hour /\ day' = day + 1 /\ UNCHANGED hour

TimePasses ==
  /\ Pass
  /\ UNCHANGED <<orders, doing, conf, audit, lock, call>>

-------------------------------------------------------------------------------
(* Service.runExecute *)

\* consumeConfirmation: one UPDATE takes an open confirmation; any other
\* state, and a request that is not the confirmed one, is refused.
Consume(k, c) ==
  /\ call[k] = None
  /\ Open(c)
  /\ conf' = [conf EXCEPT ![c].state = "consumed"]
  /\ call' = [call EXCEPT ![k] = [at |-> "locking", conf |-> c, row |-> None]]
  /\ UNCHANGED <<orders, doing, audit, hour, day, lock>>

\* Mutant: executes are not serialized.
Unserialized == TRUE

\* lockTenant and lockTenantAdvisory
Free == lock = None

Goto(k, stage, row) == call' = [call EXCEPT ![k].at = stage, ![k].row = row]

\* The transaction begins with the lock, counts the quota anew, and the tool
\* for payments checks all again.
Admit(k) ==
  /\ call[k] # None
  /\ call[k].at = "locking"
  /\ Free
  /\ WithinQuota(RequestOf(k).token)
  /\ RequestOf(k).tool = "procurement_mark_paid" => MayPay(RequestOf(k))
  /\ lock' = k
  /\ Goto(k, "admitted", None)
  /\ UNCHANGED <<orders, doing, conf, audit, hour, day>>

\* transitionTx reads the row anew and asks the state machine; a mark has
\* nothing to read.
ReadOrder(k) ==
  /\ call[k] # None
  /\ call[k].at = "admitted"
  /\ RequestOf(k).tool \in MoveTools => MayMove(RequestOf(k))
  /\ Goto(k, "writing", IF RequestOf(k).tool \in MoveTools THEN po[RequestOf(k).order] ELSE None)
  /\ UNCHANGED <<orders, doing, conf, audit, hour, day, lock>>

\* The change a tool makes of the row it read
Change(k) ==
  LET r == RequestOf(k)  o == r.order  row == call[k].row
  IN  \/ /\ r.tool \notin MoveTools
         /\ UNCHANGED orders
      \/ /\ r.tool \in MoveTools
         /\ Save(o, Moved(row, ToolMove[r.tool],
                          IF r.tool = "procurement_mark_placed" THEN PlacedTotal(o, 0) ELSE row.total))
         /\ RecordedMcp(o, Target[ToolMove[r.tool]])
         /\ UNCHANGED <<expected, actual, inbound, stock>>

Ends(k) == call' = [call EXCEPT ![k] = None] /\ lock' = IF lock = k THEN None ELSE lock

\* The change, its audit row and executed_at commit together.
Execute(k) ==
  /\ call[k] # None
  /\ call[k].at = "writing"
  /\ Change(k)
  /\ audit' = Append(audit, call[k].conf)
  /\ conf' = [conf EXCEPT ![call[k].conf].state = "executed"]
  /\ Ends(k)
  /\ UNCHANGED <<doing, hour, day>>

\* Mutant: the error of the audit is logged, and the change stays.
AuditFailsOpen(k) ==
  /\ call[k] # None
  /\ call[k].at = "writing"
  /\ Change(k)
  /\ Ends(k)
  /\ UNCHANGED <<doing, conf, audit, hour, day>>

\* The audit row cannot be written: the change is rolled back.
AuditFails(k) ==
  /\ call[k] # None
  /\ call[k].at = "writing"
  /\ Ends(k)
  /\ UNCHANGED <<orders, doing, conf, audit, hour, day>>

\* A check fails, the database does, or the process dies: what was consumed
\* stays consumed.
Fail(k) ==
  /\ call[k] # None
  /\ Ends(k)
  /\ UNCHANGED <<orders, doing, conf, audit, hour, day>>

CallStep(k) ==
  \/ \E c \in Confirmations : Consume(k, c)
  \/ Admit(k)
  \/ ReadOrder(k)
  \/ Execute(k)
  \/ AuditFails(k)
  \/ Fail(k)

Next ==
  \/ \E c \in Confirmations :
       \/ \E r \in Request : DryRun(c, r)
       \/ Expire(c)
  \/ TimePasses
  \/ \E k \in Callers : CallStep(k)
  \/ \E x \in Operators : OperatorStep(x) /\ UNCHANGED pipeline

Spec == Init /\ [][Next]_vars

-------------------------------------------------------------------------------
(* Properties *)

\* Types: rows, confirmations and calls have their fields, the windows lie
\* within the audit log, the lock belongs to a call.
TypeOK ==
  /\ po \in [Orders -> Row \union {None}]
  /\ expected \in [Orders -> Nat]
  /\ actual \in [Orders -> Nat]
  /\ mcpMoves \in [Orders -> [Statuses -> Nat]]
  /\ delivered \subseteq Orders
  /\ inbound \subseteq Orders
  /\ stock \in Nat
  /\ doing \in [Operators -> Doing \union {None}]
  /\ conf \in [Confirmations -> Confirmation \union {None}]
  /\ audit \in Seq(Confirmations)
  /\ hour \in 1..(Len(audit) + 1)
  /\ day \in 1..hour
  /\ lock \in Callers \union {None}
  /\ call \in [Callers -> Call \union {None}]

\* A confirmation is executed at most once, and the ones marked executed are
\* those the audit log has, however often and by whom it is presented, and
\* whatever fails after it was consumed: consumeConfirmation and runExecute.
ExecutedOnce ==
  /\ \A i, j \in DOMAIN audit : audit[i] = audit[j] => i = j
  /\ \A c \in Confirmations :
       (conf[c] # None /\ conf[c].state = "executed") <=> \E i \in DOMAIN audit : audit[i] = c

\* Executes that run side by side on several replicas stay within the quota
\* of their token and their tenant: the count is taken under the tenant's lock.
QuotasHold ==
  /\ \A t \in Tokens : Cardinality(ByToken(t)) <= TokenLimit
  /\ Cardinality(ByTenant) <= TenantLimit

\* Nor do payments go over the day's ceiling: procurementMarkPaidTool adds up
\* the audit log again inside the transaction that appends to it.
CeilingHolds == Spent <= DailyLimit

\* The audit log and the orders' own events tell the same: of each order and
\* each tool, there are as many executes as moves that came from MCP. A change
\* whose audit row failed is rolled back (runExecute, writeEvent).
MovesAreAudited ==
  \A o \in Orders, tool \in MoveTools :
    mcpMoves[o][Target[ToolMove[tool]]] =
      Cardinality({i \in DOMAIN audit : conf[audit[i]].request.order = o
                                         /\ conf[audit[i]].request.tool = tool})

\* A row is never a mixture of two moves: an order that is placed has the
\* supplier's number, and says it is paid exactly from the payment on. Moves
\* overwrite each other, but with a row that was whole (transitionTx).
RowsAreWhole ==
  \A o \in Orders : po[o] # None =>
    /\ po[o].status \in {"placed", "paid", "shipped", "delivered"} => po[o].numbered
    /\ po[o].status \in {"draft", "pending_confirm", "placing", "placed"} => ~po[o].paid
    /\ po[o].status \in {"paid", "shipped", "delivered"} => po[o].paid

\* The stock grows by an order's goods once, and only if it was delivered:
\* also when two operators, of whom neither saw the other, mark it delivered
\* (inboundStockTx).
ReceivedOnce ==
  stock = Cardinality(delivered)

\* "Retry moves failed -> placing" (Service.Retry) and Confirm "records manual
\* approval": what is being placed was confirmed. Retry does not look at the
\* status, and the state machine lets pending_confirm become placing.
ConfirmedBeforePlaced ==
  \A o \in Orders : po[o] # None =>
    (po[o].status \in {"placing", "placed", "paid", "shipped", "delivered"} => po[o].confirmed)

\* transition "moves a purchase order along the state machine": the status
\* changes by allowed moves only.
AlongTheStateMachine ==
  [][\A o \in Orders : po[o] # None /\ po[o] # po'[o] /\ po'[o].status # po[o].status
       => CanTransition(po[o].status, po'[o].status)]_vars

\* "any mismatch is rejected before anything mutates": what is paid through
\* MCP is the total the order has.
PaidAsConfirmed ==
  [][\A k \in Callers : Execute(k) /\ RequestOf(k).tool = "procurement_mark_paid"
       => po'[RequestOf(k).order].total = RequestOf(k).amount]_vars

\* A line is bought once: Generate warns that "this line is covered by a
\* purchase order already, it was not generated again".
BoughtOnce ==
  \A o1, o2 \in Orders : Active(o1) /\ Active(o2) => o1 = o2
===============================================================================
