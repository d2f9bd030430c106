----------------------- MODULE OrderTransactionsProofs -----------------------
(***************************************************************************)
(* The statements of the database functions implement the atomic functions *)
(* of OrderStore, for any number of concurrent calls.  The invariant says  *)
(* what a call may rely on between its SELECT .. FOR UPDATE and its commit:*)
(* it holds the row lock, so what it has seen is still so.                 *)
(***************************************************************************)
EXTENDS OrderTransactions, TLAPS

Holding(s) ==
    \/ pc[s] \in {"decide", "insert", "update"}
    \/ pc[s] = "commit" /\ answer[s] # "order_not_found"

\* What a call that holds its row lock knows.
LockInv(s) ==
    Holding(s) => /\ lock[OrderOf(s)] = s
                  /\ Visible(OrderOf(s), job[s].customer)
                  /\ seen[s] = status[OrderOf(s)]

\* A call is about to change the tables only where the atomic function would.
CancelInv(s) ==
    job[s].op = "cancel" =>
        /\ pc[s] # "insert"
        /\ pc[s] = "update" => seen[s] \in Cancellable /\ answer[s] = "cancelled"
        /\ pc[s] = "commit" => answer[s] \in {"order_not_found", CancelReason(seen[s])}

Refundable(s) == RefundRowsOf(OrderOf(s)) = {} /\ seen[s] = "delivered"

RefundInv(s) ==
    job[s].op = "refund" =>
        /\ pc[s] = "insert" => Refundable(s)
        /\ pc[s] = "update" => Refundable(s) /\ answer[s] = "refunded"
        /\ pc[s] = "commit" =>
              \/ answer[s] = "order_not_found"
              \/ answer[s] = "already_refunded" /\ RefundRowsOf(OrderOf(s)) # {}
              \/ /\ answer[s] = "order_not_delivered"
                 /\ RefundRowsOf(OrderOf(s)) = {} /\ seen[s] # "delivered"
              \/ answer[s] = "refunded" /\ Refundable(s)

CallInv(s) == LockInv(s) /\ CancelInv(s) /\ RefundInv(s)

IInv == TypeOK /\ \A s \in Calls : CallInv(s)

\* Before the first call every variable is in its type.
LEMMA TypeInit == Init => TypeOK
<1> SUFFICES ASSUME Init PROVE TypeOK
  OBVIOUS
<1>1. StoreTypeOK
  BY SeedAssumption DEF Init, StoreInit, StoreTypeOK
<1>2. "none" \in Replies /\ "absent" \in RowStates
  BY DEF Replies, RowStates
<1> QED
  BY <1>1, <1>2 DEF Init, TypeOK

\* No statement takes a variable out of its type.
LEMMA TypeStep == TypeOK /\ [Next]_vars => TypeOK'
<1> SUFFICES ASSUME TypeOK, [Next]_vars PROVE TypeOK'
  OBVIOUS
<1> USE DEF TypeOK, StoreTypeOK
<1>1. ASSUME NEW s \in Calls, NEW j \in Jobs, Begin(s, j) PROVE TypeOK'
  BY <1>1 DEF Begin, Goto, storeVars, RowStates, Replies
<1>2. ASSUME NEW s \in Calls, SelectForUpdate(s) PROVE TypeOK'
  <2>1. OrderOf(s) \in Orders
    BY DEF OrderOf, Jobs
  <2> QED
    BY <1>2, <2>1 DEF SelectForUpdate, Goto, Reply, storeVars, Replies
<1>3. ASSUME NEW s \in Calls, DecideCancel(s) PROVE TypeOK'
  <2>1. CancelReason(seen[s]) \in Replies
    BY DEF CancelReason, Replies, OrderStatuses
  <2> QED
    BY <1>3, <2>1 DEF DecideCancel, Goto, storeVars
<1>4. ASSUME NEW s \in Calls, DecideRefund(s) PROVE TypeOK'
  BY <1>4 DEF DecideRefund, Goto, Reply, storeVars, Replies
<1>5. ASSUME NEW s \in Calls, InsertRefund(s) PROVE TypeOK'
  BY <1>5 DEF InsertRefund, Rollback, Release, Goto, storeVars, Replies, OrderStatuses
<1>6. ASSUME NEW s \in Calls, UpdateOrder(s) PROVE TypeOK'
  BY <1>6 DEF UpdateOrder, Goto, storeVars
<1>7. ASSUME NEW s \in Calls, Commit(s) PROVE TypeOK'
  <2>1. OrderOf(s) \in Orders
    BY DEF OrderOf, Jobs
  <2>2. [order |-> OrderOf(s), writer |-> s] \in RefundRows
    BY <2>1, CallsAssumption DEF RefundRows
  <2> QED
    BY <1>7, <2>1, <2>2 DEF Commit, Goto, Release, RowStates, OrderStatuses
<1>8. ASSUME NEW s \in Calls, Abort(s) PROVE TypeOK'
  BY <1>8 DEF Abort, Rollback, Release, Goto, storeVars
<1>9. ASSUME NEW o \in Orders, OtherWrites(o) PROVE TypeOK'
  BY <1>9 DEF OtherWrites, CreateOrderRow, Fulfil, NextStage, RowStates, OrderStatuses
<1>10. CASE UNCHANGED vars
  BY <1>10 DEF vars, storeVars
<1> QED
  BY <1>1, <1>2, <1>3, <1>4, <1>5, <1>6, <1>7, <1>8, <1>9, <1>10 DEF Next, CallSteps

-----------------------------------------------------------------------------
\* A call relies on nothing but its own variables and, while it holds the row
\* lock, on the lock, the status and the refund rows of its order.
LEMMA Undisturbed ==
  ASSUME NEW t \in Calls, CallInv(t),
         pc'[t] = pc[t], job'[t] = job[t], seen'[t] = seen[t], answer'[t] = answer[t],
         Holding(t) => /\ lock'[OrderOf(t)] = lock[OrderOf(t)]
                       /\ status'[OrderOf(t)] = status[OrderOf(t)]
                       /\ RefundRowsOf(OrderOf(t))' = RefundRowsOf(OrderOf(t))
  PROVE  CallInv(t)'
<1>1. OrderOf(t)' = OrderOf(t) /\ (Holding(t)' <=> Holding(t))
  BY DEF OrderOf, Holding
<1>3. LockInv(t)'
  BY <1>1 DEF CallInv, LockInv, Visible
<1>4. CancelInv(t)'
  BY DEF CallInv, CancelInv, CancelReason
<1>5. RefundInv(t)'
  BY <1>1 DEF CallInv, RefundInv, Refundable, Holding
<1> QED
  BY <1>3, <1>4, <1>5 DEF CallInv

\* Two calls that hold a row lock work on different orders.
LEMMA LockExclusive ==
  ASSUME IInv, NEW s \in Calls, NEW t \in Calls, s # t, Holding(s), Holding(t)
  PROVE  OrderOf(s) # OrderOf(t)
  BY DEF IInv, CallInv, LockInv

-----------------------------------------------------------------------------
\* A call that sets out, and a call that gives up, holds no lock.
LEMMA IdleCallInv ==
  ASSUME NEW s \in Calls, pc[s] \in {"idle", "select"}
  PROVE  CallInv(s)
  BY DEF CallInv, LockInv, CancelInv, RefundInv, Holding

\* The lock of no other call is released.
LEMMA ReleaseOwn ==
  ASSUME IInv, NEW s \in Calls, NEW t \in Calls \ {s}, Release(s), Holding(t)
  PROVE  lock'[OrderOf(t)] = lock[OrderOf(t)]
<1>1. OrderOf(t) \in Orders
  BY DEF IInv, TypeOK, OrderOf, Jobs
<1> QED
  BY <1>1 DEF IInv, CallInv, LockInv, Release

\* Every statement keeps what every call relies on.
LEMMA CallInvStep == IInv /\ [Next]_vars => \A t \in Calls : CallInv(t)'
<1> SUFFICES ASSUME IInv, [Next]_vars PROVE \A t \in Calls : CallInv(t)'
  OBVIOUS
<1> USE DEF IInv
<1>0. \A s \in Calls : OrderOf(s) \in Orders
  BY DEF TypeOK, OrderOf, Jobs
<1>1. ASSUME NEW s \in Calls, NEW j \in Jobs, Begin(s, j)
      PROVE  \A t \in Calls : CallInv(t)'
  <2>1. CallInv(s)'
    BY <1>1 DEF Begin, Goto, CallInv, LockInv, CancelInv, RefundInv, Holding, TypeOK
  <2>2. ASSUME NEW t \in Calls \ {s} PROVE CallInv(t)'
    BY <1>1, Undisturbed DEF Begin, Goto, storeVars, RefundRowsOf, OrderOf, TypeOK
  <2> QED
    BY <2>1, <2>2
<1>2. ASSUME NEW s \in Calls, SelectForUpdate(s)
      PROVE  \A t \in Calls : CallInv(t)'
  <2>1. CallInv(s)'
    <3>1. CASE Visible(OrderOf(s), job[s].customer)
      BY <1>0, <1>2, <3>1
         DEF SelectForUpdate, Goto, CallInv, LockInv, CancelInv, RefundInv, Holding,
             TypeOK, OrderOf, Visible, storeVars
    <3>2. CASE ~Visible(OrderOf(s), job[s].customer)
      BY <1>2, <3>2
         DEF SelectForUpdate, Goto, Reply, CallInv, LockInv, CancelInv, RefundInv,
             Holding, TypeOK
    <3> QED
      BY <3>1, <3>2
  <2>2. ASSUME NEW t \in Calls \ {s} PROVE CallInv(t)'
    <3>1. Holding(t) => lock'[OrderOf(t)] = lock[OrderOf(t)]
      BY <1>0, <1>2, FreeAssumption DEF SelectForUpdate, TypeOK, CallInv, LockInv
    <3> QED
      BY <1>2, <3>1, Undisturbed
         DEF SelectForUpdate, Goto, Reply, storeVars, RefundRowsOf, OrderOf, TypeOK
  <2> QED
    BY <2>1, <2>2
<1>3. ASSUME NEW s \in Calls, DecideCancel(s)
      PROVE  \A t \in Calls : CallInv(t)'
  <2>1. CallInv(s)'
    <3>1. LockInv(s)'
      BY <1>3 DEF DecideCancel, Goto, CallInv, LockInv, Holding, TypeOK, OrderOf,
                  Visible, storeVars
    <3>2. CancelInv(s)'
      BY <1>3 DEF DecideCancel, Goto, CancelInv, TypeOK, CancelReason, Cancellable
    <3>3. RefundInv(s)'
      BY <1>3 DEF DecideCancel, RefundInv
    <3> QED
      BY <3>1, <3>2, <3>3 DEF CallInv
  <2>2. ASSUME NEW t \in Calls \ {s} PROVE CallInv(t)'
    BY <1>3, Undisturbed DEF DecideCancel, Goto, storeVars, RefundRowsOf, OrderOf, TypeOK
  <2> QED
    BY <2>1, <2>2
<1>4. ASSUME NEW s \in Calls, DecideRefund(s)
      PROVE  \A t \in Calls : CallInv(t)'
  <2>1. CallInv(s)'
    BY <1>4 DEF DecideRefund, Goto, Reply, CallInv, LockInv, CancelInv, RefundInv,
                Refundable, RefundRowsOf, Holding, TypeOK, OrderOf, Visible, storeVars
  <2>2. ASSUME NEW t \in Calls \ {s} PROVE CallInv(t)'
    BY <1>4, Undisturbed DEF DecideRefund, Goto, Reply, storeVars, RefundRowsOf, OrderOf, TypeOK
  <2> QED
    BY <2>1, <2>2
<1>5. ASSUME NEW s \in Calls, InsertRefund(s)
      PROVE  \A t \in Calls : CallInv(t)'
  <2>1. job[s].op = "refund" /\ Refundable(s)
    BY <1>5 DEF InsertRefund, CallInv, CancelInv, RefundInv, TypeOK, Jobs
  <2>2. CallInv(s)'
    BY <1>5, <2>1 DEF InsertRefund, Goto, CallInv, LockInv, CancelInv, RefundInv,
                Refundable, RefundRowsOf, Holding, TypeOK, OrderOf, Visible, storeVars
  <2>3. ASSUME NEW t \in Calls \ {s} PROVE CallInv(t)'
    BY <1>5, <2>1, Undisturbed
       DEF InsertRefund, Refundable, Goto, storeVars, RefundRowsOf, OrderOf, TypeOK
  <2> QED
    BY <2>2, <2>3
<1>6. ASSUME NEW s \in Calls, UpdateOrder(s)
      PROVE  \A t \in Calls : CallInv(t)'
  <2>1. CallInv(s)'
    <3>1. LockInv(s)'
      BY <1>0, <1>6 DEF UpdateOrder, Goto, CallInv, LockInv, Holding, TypeOK, OrderOf,
                        Visible, storeVars
    <3>2. CancelInv(s)'
      BY <1>6 DEF UpdateOrder, Goto, CallInv, CancelInv, TypeOK, CancelReason, Cancellable
    <3>3. RefundInv(s)'
      BY <1>6 DEF UpdateOrder, Goto, CallInv, RefundInv, Refundable, RefundRowsOf,
                  OrderOf, storeVars, TypeOK
    <3> QED
      BY <3>1, <3>2, <3>3 DEF CallInv
  <2>2. ASSUME NEW t \in Calls \ {s} PROVE CallInv(t)'
    <3>1. lock' = lock
      BY <1>0, <1>6 DEF UpdateOrder, Holding, CallInv, LockInv, TypeOK
    <3> QED
      BY <1>6, <3>1, Undisturbed DEF UpdateOrder, Goto, storeVars, RefundRowsOf, OrderOf, TypeOK
  <2> QED
    BY <2>1, <2>2
<1>7. ASSUME NEW s \in Calls, Commit(s)
      PROVE  \A t \in Calls : CallInv(t)'
  <2>1. CallInv(s)'
    BY <1>7 DEF Commit, Goto, CallInv, LockInv, CancelInv, RefundInv, Holding, TypeOK
  <2>2. ASSUME NEW t \in Calls \ {s} PROVE CallInv(t)'
    <3>1. CASE Holding(t) /\ answer[s] \in {"cancelled", "refunded"}
      <4>1. Holding(s)
        BY <1>7, <3>1 DEF Commit, Holding
      <4>2. OrderOf(s) # OrderOf(t)
        BY <3>1, <4>1, LockExclusive
      <4>3. status'[OrderOf(t)] = status[OrderOf(t)]
        BY <1>0, <1>7, <4>2 DEF Commit, TypeOK, StoreTypeOK
      <4>4. RefundRowsOf(OrderOf(t))' = RefundRowsOf(OrderOf(t))
        BY <1>7, <4>2 DEF Commit, RefundRowsOf, OrderOf
      <4>5. lock'[OrderOf(t)] = lock[OrderOf(t)]
        BY <1>7, <3>1, ReleaseOwn DEF Commit
      <4> QED
        BY <1>7, <4>3, <4>4, <4>5, Undisturbed DEF Commit, Goto, TypeOK
    <3>2. CASE Holding(t) /\ answer[s] \notin {"cancelled", "refunded"}
      <4>1. UNCHANGED storeVars
        BY <1>7, <3>2 DEF Commit, HasInserted, storeVars
      <4>2. lock'[OrderOf(t)] = lock[OrderOf(t)]
        BY <1>7, <3>2, ReleaseOwn DEF Commit
      <4> QED
        BY <1>7, <4>1, <4>2, Undisturbed
           DEF Commit, Goto, TypeOK, storeVars, RefundRowsOf, OrderOf
    <3>3. CASE ~Holding(t)
      BY <1>7, <3>3, Undisturbed DEF Commit, Goto, TypeOK
    <3> QED
      BY <3>1, <3>2, <3>3
  <2> QED
    BY <2>1, <2>2
<1>8. ASSUME NEW s \in Calls, Abort(s)
      PROVE  \A t \in Calls : CallInv(t)'
  <2>1. CallInv(s)'
    BY <1>8 DEF Abort, Rollback, Goto, CallInv, LockInv, CancelInv, RefundInv, Holding,
                TypeOK
  <2>2. ASSUME NEW t \in Calls \ {s} PROVE CallInv(t)'
    <3>1. Holding(t) => lock'[OrderOf(t)] = lock[OrderOf(t)]
      BY <1>8, ReleaseOwn DEF Abort, Rollback
    <3> QED
      BY <1>8, <3>1, Undisturbed
         DEF Abort, Rollback, Goto, TypeOK, storeVars, RefundRowsOf, OrderOf
  <2> QED
    BY <2>1, <2>2
<1>9. ASSUME NEW o \in Orders, OtherWrites(o)
      PROVE  \A t \in Calls : CallInv(t)'
  <2> SUFFICES ASSUME NEW t \in Calls PROVE CallInv(t)'
    OBVIOUS
  <2>1. Holding(t) => OrderOf(t) # o
    BY <1>9, FreeAssumption
       DEF OtherWrites, CreateOrderRow, CallInv, LockInv, Visible
  <2>2. Holding(t) => status'[OrderOf(t)] = status[OrderOf(t)]
    BY <1>0, <1>9, <2>1 DEF OtherWrites, CreateOrderRow, Fulfil, TypeOK, StoreTypeOK
  <2> QED
    BY <1>9, <2>2, Undisturbed
       DEF OtherWrites, CreateOrderRow, Fulfil, RefundRowsOf, OrderOf
<1>10. CASE UNCHANGED vars
  <2> SUFFICES ASSUME NEW t \in Calls PROVE CallInv(t)'
    OBVIOUS
  <2> QED
    BY <1>10, Undisturbed DEF vars, storeVars, RefundRowsOf, OrderOf
<1> QED
  BY <1>1, <1>2, <1>3, <1>4, <1>5, <1>6, <1>7, <1>8, <1>9, <1>10 DEF Next, CallSteps

\* What holds between the statements of the database functions.
LEMMA Invariance == Spec => []IInv
<1>1. Init => IInv
  BY TypeInit, IdleCallInv DEF Init, IInv
<1>2. IInv /\ [Next]_vars => IInv'
  BY TypeStep, CallInvStep DEF IInv
<1> QED
  BY <1>1, <1>2, PTL DEF Spec

-----------------------------------------------------------------------------
\* The statements keep every variable in its type.
THEOREM TypeCorrect == Spec => []TypeOK
  BY Invariance, PTL DEF IInv

\* FOR UPDATE orders the refunds of one order: the INSERT finds no other row.
THEOREM NoConflict == Spec => []InsertNeverConflicts
<1>1. IInv => InsertNeverConflicts
  <2> SUFFICES ASSUME IInv, NEW s \in Calls, pc[s] = "insert"
               PROVE  /\ RefundRowsOf(OrderOf(s)) = {}
                      /\ \A t \in Calls \ {s} :
                            ~(HasInserted(t) /\ OrderOf(t) = OrderOf(s))
    BY DEF InsertNeverConflicts
  <2>1. RefundRowsOf(OrderOf(s)) = {}
    BY DEF IInv, TypeOK, Jobs, CallInv, CancelInv, RefundInv, Refundable
  <2>2. ASSUME NEW t \in Calls \ {s}, HasInserted(t) PROVE OrderOf(t) # OrderOf(s)
    BY <2>2, LockExclusive DEF HasInserted, Holding
  <2> QED
    BY <2>1, <2>2
<1> QED
  BY <1>1, Invariance, PTL

\* A caller is told what the atomic function would tell it at the commit.
THEOREM AnswersCorrect == Spec => []AnswersHold
<1>1. IInv => AnswersHold
  <2> SUFFICES ASSUME IInv, NEW s \in Calls, pc[s] = "commit",
                      answer[s] # "order_not_found"
               PROVE  answer[s] = IF job[s].op = "cancel"
                                  THEN CancelAnswer(OrderOf(s), job[s].customer)
                                  ELSE RefundAnswer(OrderOf(s), job[s].customer)
    BY DEF AnswersHold
  <2>1. /\ Visible(OrderOf(s), job[s].customer)
        /\ seen[s] = status[OrderOf(s)]
    BY DEF IInv, CallInv, LockInv, Holding
  <2>2. CASE job[s].op = "cancel"
    BY <2>1, <2>2 DEF IInv, CallInv, CancelInv, CancelAnswer
  <2>3. CASE job[s].op = "refund"
    BY <2>1, <2>3 DEF IInv, CallInv, RefundInv, Refundable, RefundAnswer
  <2> QED
    BY <2>2, <2>3 DEF IInv, TypeOK, Jobs
<1> QED
  BY <1>1, Invariance, PTL

\* The database functions, run concurrently and aborted anywhere, implement
\* the atomic functions: each commit is one step of OrderStore or none.
THEOREM Refinement == Spec => StoreSpec
<1>1. Init => StoreInit
  BY DEF Init
<1>2. IInv /\ [Next]_vars => [StoreNext]_storeVars
  <2> SUFFICES ASSUME IInv, [Next]_vars PROVE [StoreNext]_storeVars
    OBVIOUS
  <2>1. ASSUME NEW s \in Calls, Commit(s) PROVE [StoreNext]_storeVars
    <3>1. OrderOf(s) \in Orders /\ job[s].customer \in Customers /\ s \in Writers
      BY CallsAssumption DEF IInv, TypeOK, OrderOf, Jobs
    <3>2. answer[s] # "order_not_found" =>
             /\ Visible(OrderOf(s), job[s].customer)
             /\ seen[s] = status[OrderOf(s)]
      BY <2>1 DEF Commit, IInv, CallInv, LockInv, Holding
    <3>3. CASE answer[s] = "cancelled"
      <4>1. seen[s] \in Cancellable
        BY <2>1, <3>3 DEF Commit, IInv, TypeOK, Jobs, CallInv, CancelInv, RefundInv,
                          CancelReason
      <4>2. CancelOrderRow(OrderOf(s), job[s].customer)
        BY <2>1, <3>2, <3>3, <4>1 DEF Commit, HasInserted, CancelOrderRow
      <4> QED
        BY <3>1, <4>2 DEF StoreNext
    <3>4. CASE answer[s] = "refunded"
      <4>1. Refundable(s)
        BY <2>1, <3>4 DEF Commit, IInv, TypeOK, Jobs, CallInv, CancelInv, RefundInv,
                          CancelReason
      <4>2. RefundOrderRow(OrderOf(s), job[s].customer, s)
        BY <2>1, <3>2, <3>4, <4>1 DEF Commit, HasInserted, Refundable, RefundOrderRow
      <4> QED
        BY <3>1, <4>2 DEF StoreNext
    <3>5. CASE answer[s] \notin {"cancelled", "refunded"}
      BY <2>1, <3>5 DEF Commit, HasInserted, storeVars
    <3> QED
      BY <3>3, <3>4, <3>5
  <2>2. ASSUME NEW o \in Orders, OtherWrites(o) PROVE [StoreNext]_storeVars
    BY <2>2 DEF OtherWrites, StoreNext
  <2>3. ASSUME NEW s \in Calls, NEW j \in Jobs, Begin(s, j) PROVE UNCHANGED storeVars
    BY <2>3 DEF Begin
  <2>4. ASSUME NEW s \in Calls,
               \/ SelectForUpdate(s) \/ DecideCancel(s) \/ DecideRefund(s)
               \/ InsertRefund(s) \/ UpdateOrder(s) \/ Abort(s)
        PROVE  UNCHANGED storeVars
    BY <2>4 DEF SelectForUpdate, DecideCancel, DecideRefund, InsertRefund, UpdateOrder,
                Abort
  <2>5. CASE UNCHANGED vars
    BY <2>5 DEF vars
  <2> QED
    BY <2>1, <2>2, <2>3, <2>4, <2>5 DEF Next, CallSteps
<1> QED
  BY <1>1, <1>2, Invariance, PTL DEF Spec, StoreSpec
=============================================================================
