-------------------------- MODULE OrderStoreProofs --------------------------
(***************************************************************************)
(* The ledger invariant of the order tables, for any number of orders,     *)
(* customers and writers.  What it takes is the order of the checks in     *)
(* refund_order_row and the absorbing states of the status column.         *)
(***************************************************************************)
EXTENDS OrderStore, TLAPS

\* The database functions keep the tables in their types.
THEOREM StoreTypeCorrect == StoreSpec => []StoreTypeOK
<1>1. StoreInit => StoreTypeOK
  BY SeedAssumption DEF StoreInit, StoreTypeOK
<1>2. StoreTypeOK /\ [StoreNext]_storeVars => StoreTypeOK'
  <2> SUFFICES ASSUME StoreTypeOK, [StoreNext]_storeVars
               PROVE  StoreTypeOK'
    OBVIOUS
  <2> USE DEF StoreTypeOK, RowStates, OrderStatuses
  <2>1. ASSUME NEW o \in Orders, CreateOrderRow(o) PROVE StoreTypeOK'
    BY <2>1 DEF CreateOrderRow
  <2>2. ASSUME NEW o \in Orders, Fulfil(o) PROVE StoreTypeOK'
    BY <2>2 DEF Fulfil, NextStage
  <2>3. ASSUME NEW o \in Orders, NEW c \in Customers, CancelOrderRow(o, c)
        PROVE  StoreTypeOK'
    BY <2>3 DEF CancelOrderRow
  <2>4. ASSUME NEW o \in Orders, NEW c \in Customers, NEW w \in Writers,
               RefundOrderRow(o, c, w)
        PROVE  StoreTypeOK'
    BY <2>4 DEF RefundOrderRow, RefundRows, storeVars
  <2>5. CASE UNCHANGED storeVars
    BY <2>5 DEF storeVars
  <2> QED
    BY <2>1, <2>2, <2>3, <2>4, <2>5 DEF StoreNext
<1> QED
  BY <1>1, <1>2, PTL DEF StoreSpec

\* An order is paid out at most once, and a paid order is refunded for good:
\* policies/refund-policy.md, kept by refund_order_row's checks.
THEOREM LedgerCorrect == StoreSpec => []LedgerConsistent
<1>1. StoreInit => LedgerConsistent
  BY DEF StoreInit, LedgerConsistent
<1>2. LedgerConsistent /\ StoreTypeOK /\ [StoreNext]_storeVars => LedgerConsistent'
  <2> SUFFICES ASSUME LedgerConsistent, StoreTypeOK, [StoreNext]_storeVars
               PROVE  LedgerConsistent'
    OBVIOUS
  <2> USE DEF LedgerConsistent, StoreTypeOK, RefundRows
  <2>1. ASSUME NEW o \in Orders, CreateOrderRow(o) PROVE LedgerConsistent'
    BY <2>1 DEF CreateOrderRow
  <2>2. ASSUME NEW o \in Orders, Fulfil(o) PROVE LedgerConsistent'
    BY <2>2 DEF Fulfil, NextStage
  <2>3. ASSUME NEW o \in Orders, NEW c \in Customers, CancelOrderRow(o, c)
        PROVE  LedgerConsistent'
    BY <2>3 DEF CancelOrderRow, Cancellable
  <2>4. ASSUME NEW o \in Orders, NEW c \in Customers, NEW w \in Writers,
               RefundOrderRow(o, c, w)
        PROVE  LedgerConsistent'
    <3>1. CASE UNCHANGED storeVars
      BY <3>1 DEF storeVars
    <3>2. CASE /\ RefundRowsOf(o) = {}
               /\ status' = [status EXCEPT ![o] = "refunded"]
               /\ refunds' = refunds \cup {[order |-> o, writer |-> w]}
      <4>1. \A row \in refunds : row.order # o
        BY <3>2 DEF RefundRowsOf
      <4> QED
        BY <3>2, <4>1
    <3> QED
      BY <2>4, <3>1, <3>2 DEF RefundOrderRow
  <2>5. CASE UNCHANGED storeVars
    BY <2>5 DEF storeVars
  <2> QED
    BY <2>1, <2>2, <2>3, <2>4, <2>5 DEF StoreNext
<1> QED
  BY <1>1, <1>2, StoreTypeCorrect, PTL DEF StoreSpec
-----------------------------------------------------------------------------
\* What a caller has once learnt of an order and its refund stays true: the
\* database functions never delete a refund row and never take an order back.
LEMMA StoreOnlyAdvances ==
  ASSUME StoreTypeOK, LedgerConsistent, [StoreNext]_storeVars
  PROVE  /\ refunds \subseteq refunds'
         /\ \A o \in Orders :
               /\ status[o] # "absent" => status'[o] # "absent"
               /\ status[o] = "cancelled" => status'[o] = "cancelled"
               /\ status[o] = "refunded" => status'[o] = "refunded"
               /\ status[o] = "delivered" =>
                     \/ status'[o] = "delivered"
                     \/ status'[o] = "refunded" /\ RefundRowsOf(o)' # {}
<1> USE DEF StoreTypeOK, RowStates, OrderStatuses, Cancellable
<1>1. ASSUME NEW p \in Orders, CreateOrderRow(p)
      PROVE  /\ refunds' = refunds
             /\ \A o \in Orders : status[o] = "absent" \/ status'[o] = status[o]
  BY <1>1 DEF CreateOrderRow
<1>2. ASSUME NEW p \in Orders, Fulfil(p)
      PROVE  /\ refunds' = refunds
             /\ \A o \in Orders : \/ status[o] \in Cancellable /\ status'[o] # "absent"
                                  \/ status'[o] = status[o]
  BY <1>2 DEF Fulfil, NextStage
<1>3. ASSUME NEW p \in Orders, NEW c \in Customers, CancelOrderRow(p, c)
      PROVE  /\ refunds' = refunds
             /\ \A o \in Orders : \/ status[o] \in Cancellable /\ status'[o] # "absent"
                                  \/ status'[o] = status[o]
  BY <1>3 DEF CancelOrderRow
<1>4. ASSUME NEW p \in Orders, NEW c \in Customers, NEW w \in Writers,
             RefundOrderRow(p, c, w)
      PROVE  /\ refunds \subseteq refunds'
             /\ \A o \in Orders :
                   \/ status'[o] = status[o]
                   \/ /\ status[o] = "delivered" /\ status'[o] = "refunded"
                      /\ RefundRowsOf(o)' # {}
  <2>1. CASE UNCHANGED storeVars
    BY <2>1 DEF storeVars
  <2>2. CASE /\ status[p] = "delivered"
             /\ status' = [status EXCEPT ![p] = "refunded"]
             /\ refunds' = refunds \cup {[order |-> p, writer |-> w]}
    <3>1. [order |-> p, writer |-> w] \in RefundRowsOf(p)'
      BY <2>2 DEF RefundRowsOf
    <3> QED
      BY <2>2, <3>1
  <2> QED
    BY <1>4, <2>1, <2>2 DEF RefundOrderRow
<1>5. CASE UNCHANGED storeVars
  BY <1>5 DEF storeVars
<1> QED
  BY <1>1, <1>2, <1>3, <1>4, <1>5 DEF StoreNext
=============================================================================
