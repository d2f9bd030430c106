----------------------------- MODULE OrderStore -----------------------------
(***************************************************************************)
(* What the order tables of the database promise to their callers: every   *)
(* database function of app/database.py that touches an order is one       *)
(* atomic step on the committed rows.  OrderTransactions shows that the    *)
(* statements, row locks and constraints of the functions keep the         *)
(* promise; OrderWorkflows is built on it.                                 *)
(***************************************************************************)
EXTENDS Integers, FiniteSets

CONSTANTS
    Orders,      \* order numbers: seeded ones and ones still to be created
    Customers,   \* values of orders.customer_id
    Owner,       \* the customer an order is (or will be) created for
    Total,       \* price * quantity of an order
    Writers,     \* who calls refund_order_row: tells two refund rows apart
    SeedStatuses \* the states order numbers may start in

ASSUME OwnerAssumption == Owner \in [Orders -> Customers]
ASSUME TotalAssumption == Total \in [Orders -> Nat \ {0}]

\* The CHECK constraint on orders.status, and a number without a row.
OrderStatuses == {"pending", "paid", "processing", "shipped",
                  "delivered", "cancelled", "refunded"}
RowStates == OrderStatuses \cup {"absent"}

ASSUME SeedAssumption == SeedStatuses \subseteq RowStates

VARIABLES
    status,      \* orders.status of each order number, "absent" without a row
    refunds      \* the rows of the refunds table

storeVars == <<status, refunds>>

\* CANCELLABLE_ORDER_STATUSES
Cancellable == {"pending", "paid", "processing", "shipped"}

RefundRows == [order : Orders, writer : Writers]

RefundRowsOf(o) == {row \in refunds : row.order = o}

\* The WHERE id = .. AND customer_id = .. of every lookup for a customer.
Visible(o, c) == status[o] # "absent" /\ Owner[o] = c

-----------------------------------------------------------------------------
(* The seed data holds orders in all seven statuses, and no refund row:    *)
(* an order may be "refunded" from the start without one.                  *)
StoreInit ==
    /\ status \in [Orders -> SeedStatuses]
    /\ refunds = {}

\* create_order_row: a number without a row gets a pending order.  (An
\* unknown product changes nothing.)
CreateOrderRow(o) ==
    /\ status[o] = "absent"
    /\ status' = [status EXCEPT ![o] = "pending"]
    /\ UNCHANGED refunds

\* Fulfilment is outside the repository: tests stand in for it with UPDATE
\* orders SET status.  It only ever moves an order forward.
NextStage == [pending |-> "paid", paid |-> "processing",
              processing |-> "shipped", shipped |-> "delivered"]

Fulfil(o) ==
    /\ status[o] \in DOMAIN NextStage
    /\ status' = [status EXCEPT ![o] = NextStage[status[o]]]
    /\ UNCHANGED refunds

\* The "reason" cancel_order_row gives for the status it finds.
CancelReason(st) ==
    CASE st \in Cancellable  -> "cancelled"
      [] st = "cancelled"    -> "already_cancelled"
      [] st = "delivered"    -> "delivered_order"
      [] OTHER               -> "refunded_order"

CancelAnswer(o, c) ==
    IF Visible(o, c) THEN CancelReason(status[o]) ELSE "order_not_found"

\* Mistake: the order is updated before its status is looked at.
CancelOrderRowUnchecked(o, c) ==
    /\ status' = IF Visible(o, c) THEN [status EXCEPT ![o] = "cancelled"] ELSE status
    /\ UNCHANGED refunds

\* cancel_order_row
CancelOrderRow(o, c) ==
    /\ status' = IF Visible(o, c) /\ status[o] \in Cancellable
                 THEN [status EXCEPT ![o] = "cancelled"] ELSE status
    /\ UNCHANGED refunds

\* Mistake: the status is looked at before the refund row.
RefundAnswerStatusFirst(o, c) ==
    IF ~Visible(o, c) THEN "order_not_found"
    ELSE IF status[o] # "delivered" THEN "order_not_delivered"
    ELSE IF RefundRowsOf(o) # {} THEN "already_refunded"
    ELSE "refunded"

\* What refund_order_row answers: None, or its "reason" ("refunded" when the
\* call itself refunds).
RefundAnswer(o, c) ==
    IF ~Visible(o, c) THEN "order_not_found"
    ELSE IF RefundRowsOf(o) # {} THEN "already_refunded"
    ELSE IF status[o] # "delivered" THEN "order_not_delivered"
    ELSE "refunded"

\* Mistake: the order keeps its status when the refund row is written.
RefundOrderRowNoUpdate(o, c, w) ==
    IF Visible(o, c) /\ RefundRowsOf(o) = {} /\ status[o] = "delivered"
    THEN /\ refunds' = refunds \cup {[order |-> o, writer |-> w]}
         /\ UNCHANGED status
    ELSE UNCHANGED storeVars

\* Mistake: an order that is not delivered is refunded too, and twice.
RefundOrderRowUnchecked(o, c, w) ==
    IF Visible(o, c)
    THEN /\ status' = [status EXCEPT ![o] = "refunded"]
         /\ refunds' = refunds \cup {[order |-> o, writer |-> w]}
    ELSE UNCHANGED storeVars

\* refund_order_row: the refund row and the order status change together.
RefundOrderRow(o, c, w) ==
    IF Visible(o, c) /\ RefundRowsOf(o) = {} /\ status[o] = "delivered"
    THEN /\ status' = [status EXCEPT ![o] = "refunded"]
         /\ refunds' = refunds \cup {[order |-> o, writer |-> w]}
    ELSE UNCHANGED storeVars

StoreNext ==
    \E o \in Orders :
        \/ CreateOrderRow(o)
        \/ Fulfil(o)
        \/ \E c \in Customers :
              \/ CancelOrderRow(o, c)
              \/ \E w \in Writers : RefundOrderRow(o, c, w)

StoreSpec == StoreInit /\ [][StoreNext]_storeVars

-----------------------------------------------------------------------------
StoreTypeOK ==
    /\ status \in [Orders -> RowStates]
    /\ refunds \subseteq RefundRows

\* Money is paid out at most once for an order, and an order that was paid
\* out is refunded and stays so (policies/refund-policy.md: "must not be
\* refunded again", "updated in one database transaction").
LedgerConsistent ==
    /\ \A r1, r2 \in refunds : r1.order = r2.order => r1 = r2
    /\ \A row \in refunds : status[row.order] = "refunded"
=============================================================================
