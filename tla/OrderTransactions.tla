------------------------- MODULE OrderTransactions -------------------------
(***************************************************************************)
(* cancel_order_row and refund_order_row statement by statement.  A call   *)
(* has a connection of its own (database_connection): its statements form  *)
(* one READ COMMITTED transaction that commits when the function returns   *)
(* and is rolled back by any exception.  status and refunds are the        *)
(* committed tables; what a call has written and not committed follows     *)
(* from its pc and answer.                                                 *)
(*                                                                         *)
(* The promise: on the committed tables this is OrderStore.                *)
(***************************************************************************)
EXTENDS OrderStore

CONSTANTS Calls      \* database calls in flight, one connection each

\* A refund row is told apart by the call that inserted it.
ASSUME CallsAssumption == Writers = Calls
ASSUME FreeAssumption == "free" \notin Calls

VARIABLES
    lock,     \* the call that holds the row lock of an order, or "free"
    pc,       \* the next statement of a call
    job,      \* the function and the arguments of a call
    seen,     \* the status its SELECT .. FOR UPDATE returned
    answer    \* the answer it is about to return

vars == <<storeVars, lock, pc, job, seen, answer>>

Jobs == [op : {"cancel", "refund"}, order : Orders, customer : Customers]
Replies == OrderStatuses \cup
           {"none", "order_not_found", "already_cancelled", "delivered_order",
            "refunded_order", "already_refunded", "order_not_delivered"}

Init ==
    /\ StoreInit
    /\ lock = [o \in Orders |-> "free"]
    /\ pc = [s \in Calls |-> "idle"]
    /\ job \in [Calls -> Jobs]
    /\ seen = [s \in Calls |-> "absent"]
    /\ answer = [s \in Calls |-> "none"]

OrderOf(s) == job[s].order

Goto(s, l) == pc' = [pc EXCEPT ![s] = l]

Reply(s, a) == Goto(s, "commit") /\ answer' = [answer EXCEPT ![s] = a]

Release(s) == lock' = [o \in Orders |-> IF lock[o] = s THEN "free" ELSE lock[o]]

\* A call connects.
Begin(s, j) ==
    /\ pc[s] = "idle"
    /\ Goto(s, "select")
    /\ job' = [job EXCEPT ![s] = j]
    /\ seen' = [seen EXCEPT ![s] = "absent"]
    /\ answer' = [answer EXCEPT ![s] = "none"]
    /\ UNCHANGED <<storeVars, lock>>

\* Mistake: SELECT without FOR UPDATE.
SelectWithoutLock(s) ==
    /\ pc[s] = "select"
    /\ IF Visible(OrderOf(s), job[s].customer)
       THEN /\ seen' = [seen EXCEPT ![s] = status[OrderOf(s)]]
            /\ Goto(s, "decide")
            /\ UNCHANGED answer
       ELSE Reply(s, "order_not_found") /\ UNCHANGED seen
    /\ UNCHANGED <<storeVars, lock, job>>

\* SELECT .. WHERE id AND customer_id FOR UPDATE: waits for the row lock of a
\* matching row and then returns its latest committed status.
SelectForUpdate(s) ==
    /\ pc[s] = "select"
    /\ IF Visible(OrderOf(s), job[s].customer)
       THEN /\ lock[OrderOf(s)] = "free"
            /\ lock' = [lock EXCEPT ![OrderOf(s)] = s]
            /\ seen' = [seen EXCEPT ![s] = status[OrderOf(s)]]
            /\ Goto(s, "decide")
            /\ UNCHANGED answer
       ELSE Reply(s, "order_not_found") /\ UNCHANGED <<lock, seen>>
    /\ UNCHANGED <<storeVars, job>>

\* cancel_order_row after its SELECT.
DecideCancel(s) ==
    /\ pc[s] = "decide" /\ job[s].op = "cancel"
    /\ answer' = [answer EXCEPT ![s] = CancelReason(seen[s])]
    /\ Goto(s, IF seen[s] \in Cancellable THEN "update" ELSE "commit")
    /\ UNCHANGED <<storeVars, lock, job, seen>>

\* refund_order_row looks for a committed refund row, then at the status.
DecideRefund(s) ==
    /\ pc[s] = "decide" /\ job[s].op = "refund"
    /\ CASE RefundRowsOf(OrderOf(s)) # {} -> Reply(s, "already_refunded")
         [] RefundRowsOf(OrderOf(s)) = {} /\ seen[s] # "delivered" ->
                Reply(s, "order_not_delivered")
         [] OTHER -> Goto(s, "insert") /\ UNCHANGED answer
    /\ UNCHANGED <<storeVars, lock, job, seen>>

\* A call has inserted its refund row and not committed it.
HasInserted(s) ==
    \/ pc[s] = "update" /\ job[s].op = "refund"
    \/ pc[s] = "commit" /\ answer[s] = "refunded"

Rollback(s) == Goto(s, "idle") /\ Release(s) /\ UNCHANGED answer

\* INSERT INTO refunds: UNIQUE (order_id) makes it wait for another call's
\* uncommitted row and fail on a committed one.
InsertRefund(s) ==
    /\ pc[s] = "insert"
    /\ \A t \in Calls \ {s} : ~(HasInserted(t) /\ OrderOf(t) = OrderOf(s))
    /\ IF RefundRowsOf(OrderOf(s)) = {}
       THEN /\ Goto(s, "update")
            /\ answer' = [answer EXCEPT ![s] = "refunded"]
            /\ UNCHANGED lock
       ELSE Rollback(s)
    /\ UNCHANGED <<storeVars, job, seen>>

\* UPDATE orders SET status = ..: takes the row lock if the call has it not.
UpdateOrder(s) ==
    /\ pc[s] = "update"
    /\ lock[OrderOf(s)] \in {"free", s}
    /\ lock' = [lock EXCEPT ![OrderOf(s)] = s]
    /\ Goto(s, "commit")
    /\ UNCHANGED <<storeVars, job, seen, answer>>

\* Mistake: the connection commits after every statement.
CommitRowFirst(s) ==
    /\ pc[s] \in {"update", "commit"}
    /\ refunds' = IF HasInserted(s)
                  THEN refunds \cup {[order |-> OrderOf(s), writer |-> s]}
                  ELSE refunds
    /\ status' = IF pc[s] = "commit" /\ answer[s] \in {"cancelled", "refunded"}
                 THEN [status EXCEPT ![OrderOf(s)] = answer[s]] ELSE status
    /\ IF pc[s] = "commit" THEN Goto(s, "idle") /\ Release(s)
                           ELSE UNCHANGED <<pc, lock>>
    /\ UNCHANGED <<job, seen, answer>>

\* The function returns: everything it wrote becomes visible at once.
Commit(s) ==
    /\ pc[s] = "commit"
    /\ status' = IF answer[s] \in {"cancelled", "refunded"}
                 THEN [status EXCEPT ![OrderOf(s)] = answer[s]] ELSE status
    /\ refunds' = IF HasInserted(s)
                  THEN refunds \cup {[order |-> OrderOf(s), writer |-> s]}
                  ELSE refunds
    /\ Goto(s, "idle") /\ Release(s)
    /\ UNCHANGED <<job, seen, answer>>

\* An exception: statement_timeout, a lost connection, a dead process.
Abort(s) ==
    /\ pc[s] # "idle"
    /\ Rollback(s)
    /\ UNCHANGED <<storeVars, job, seen>>

\* Orders are created, and moved on by fulfilment, in transactions of one
\* write; an UPDATE waits for the row lock.
OtherWrites(o) ==
    /\ CreateOrderRow(o) \/ (lock[o] = "free" /\ Fulfil(o))
    /\ UNCHANGED <<lock, pc, job, seen, answer>>

CallSteps(s) ==
    \/ SelectForUpdate(s) \/ DecideCancel(s) \/ DecideRefund(s)
    \/ InsertRefund(s) \/ UpdateOrder(s) \/ Commit(s) \/ Abort(s)

Next ==
    \/ \E s \in Calls : CallSteps(s) \/ \E j \in Jobs : Begin(s, j)
    \/ \E o \in Orders : OtherWrites(o)

Spec == Init /\ [][Next]_vars

-----------------------------------------------------------------------------
\* The variables stay in their types.
TypeOK ==
    /\ StoreTypeOK
    /\ lock \in [Orders -> Calls \cup {"free"}]
    /\ pc \in [Calls -> {"idle", "select", "decide", "insert", "update", "commit"}]
    /\ job \in [Calls -> Jobs]
    /\ seen \in [Calls -> RowStates]
    /\ answer \in [Calls -> Replies]

\* The INSERT of a refund never meets another row of the order, committed or
\* not: the row lock has already ordered the calls, so no refund ends in a
\* unique violation or in two calls that wait for each other.
InsertNeverConflicts ==
    \A s \in Calls : pc[s] = "insert" =>
        /\ RefundRowsOf(OrderOf(s)) = {}
        /\ \A t \in Calls \ {s} : ~(HasInserted(t) /\ OrderOf(t) = OrderOf(s))

\* When a call is about to commit, its answer is the one the atomic function
\* gives on the committed tables of that moment: whatever other calls did
\* since its first statement, the caller is not told something that no
\* longer holds.  (A missing order may have been created since.)
AnswersHold ==
    \A s \in Calls :
        pc[s] = "commit" /\ answer[s] # "order_not_found" =>
            answer[s] = IF job[s].op = "cancel"
                        THEN CancelAnswer(OrderOf(s), job[s].customer)
                        ELSE RefundAnswer(OrderOf(s), job[s].customer)
=============================================================================
