------------------------ MODULE OrderWorkflowsProofs ------------------------
(***************************************************************************)
(* What holds of the order workflows for any number of orders, customers,  *)
(* runs, attempts and executions in flight.                                *)
(***************************************************************************)
EXTENDS OrderWorkflows, OrderStoreProofs

\* An attempt is scheduled or started only while its run awaits an activity.
AwaitInv ==
    \A r \in RunIds : task[r] # "idle" => phase[r] \in DOMAIN ActivityIn

\* Strings that appear in the actions are in the sets of the type invariant.
LEMMA Vocabulary ==
  /\ {"none", "STARTED"} \cup Final \cup DOMAIN ActivityIn
        \cup {"WAITING_FOR_APPROVAL"} \subseteq Phases
  /\ {"none", "failed", "error", "already_refunded", "approval_denied", "cancelled",
      "already_cancelled", "delivered_order", "refunded_order", "refunded"}
        \cup Refusals \cup RowStates \subseteq Answers
  BY DEF Phases, Final, ActivityIn, Answers, Refusals, RowStates, OrderStatuses

\* The two answers a database function can give are in the type.
LEMMA AnswerTypes ==
  ASSUME NEW o, NEW c
  PROVE  CancelAnswer(o, c) \in Answers /\ RefundAnswer(o, c) \in Answers
<1>1. CancelReason(status[o]) \in {"cancelled", "already_cancelled", "delivered_order",
                                   "refunded_order"}
  BY DEF CancelReason
<1> QED
  BY <1>1, Vocabulary DEF CancelAnswer, RefundAnswer, Refusals

\* The attempt after a failed one is an attempt, or the activity has failed.
LEMMA AttemptFailsType ==
  ASSUME TypeOK, NEW r \in RunIds, AttemptFails(r)
  PROVE  /\ task' \in [RunIds -> {"idle", "scheduled", "started", "done"}]
         /\ attempt' \in [RunIds -> Attempts]
         /\ answer' \in [RunIds -> Answers]
<1> USE AttemptsAssumption, Vocabulary DEF TypeOK
<1>1. CASE attempt[r] < MaxAttempts
  <2>1. attempt[r] + 1 \in Attempts
    BY <1>1 DEF Attempts
  <2> QED
    BY <1>1, <2>1 DEF AttemptFails
<1>2. CASE ~(attempt[r] < MaxAttempts)
  BY <1>2 DEF AttemptFails, ActivityEnds
<1> QED
  BY <1>1, <1>2

\* A workflow step that enters a phase or ends the run keeps the types.
LEMMA StartRefundingType ==
  ASSUME TypeOK, NEW r \in RunIds, StartRefunding(r), UNCHANGED <<storeVars, checked, signalVars, execs>>
  PROVE  TypeOK'
  BY AttemptsAssumption, Vocabulary
     DEF TypeOK, StoreTypeOK, StartRefunding, Enter, ScheduleActivity, storeVars,
         signalVars, Attempts, ActivityIn

\* The end of a run keeps the types.
LEMMA FinishType ==
  ASSUME TypeOK, NEW r \in RunIds, NEW p \in Final, NEW why \in Answers,
         Finish(r, p, why), UNCHANGED <<storeVars, checked, signalVars, execs>>
  PROVE  TypeOK'
  BY AttemptsAssumption, Vocabulary
     DEF TypeOK, StoreTypeOK, Finish, storeVars, signalVars, Attempts

\* So does the answer to an approval.
LEMMA DecideType ==
  ASSUME TypeOK, NEW r \in RunIds, Decide(r),
         UNCHANGED <<storeVars, checked, signalVars, execs>>
  PROVE  TypeOK'
  BY StartRefundingType, FinishType, Vocabulary DEF Decide, Final

-----------------------------------------------------------------------------
\* Creating an order and fulfilment.
LEMMA OrderStepsType ==
  ASSUME TypeOK, NEW o \in Orders, OrderSteps(o)
  PROVE  TypeOK'
<1> USE DEF TypeOK, StoreTypeOK, OrderSteps, runVars, signalVars, taskVars
<1>1. CASE CreateOrderRow(o)
  BY <1>1 DEF CreateOrderRow, RowStates, OrderStatuses
<1>2. CASE Fulfil(o)
  BY <1>2 DEF Fulfil, NextStage, RowStates, OrderStatuses
<1> QED
  BY <1>1, <1>2

\* The agent's tools.
LEMMA RequestStepsType ==
  ASSUME TypeOK, NEW o \in Orders, NEW c \in Customers, RequestSteps(o, c)
  PROVE  TypeOK'
<1> USE DEF TypeOK, StoreTypeOK, storeVars, runVars, signalVars, taskVars
<1>1. CASE CheckCancellable(o, c)
  BY <1>1 DEF CheckCancellable
<1>2. ASSUME NEW r \in RunIds, StartRun(r, c), UNCHANGED storeVars,
             checked' \subseteq Orders \X Customers
      PROVE  TypeOK'
  BY <1>2, Vocabulary DEF StartRun
<1>3. CASE StartCancellation(o, c)
  BY <1>2, <1>3 DEF StartCancellation, RunsOf
<1>4. CASE RequestRefund(o, c)
  BY <1>2, <1>4 DEF RequestRefund, RunsOf
<1> QED
  BY <1>1, <1>3, <1>4 DEF RequestSteps

\* The server and the workflow code.
LEMMA RunStepsType ==
  ASSUME TypeOK, AwaitInv, NEW r \in RunIds, RunSteps(r)
  PROVE  TypeOK'
<1>1. CASE BeginRun(r)
  BY <1>1, AttemptsAssumption, Vocabulary
     DEF BeginRun, Enter, ScheduleActivity, TypeOK, StoreTypeOK, storeVars, signalVars,
         Attempts, ActivityIn
<1>2. CASE Dispatch(r)
  <2>1. ActivityIn[phase[r]] \in {"cancel", "load", "execute"}
    BY <1>2 DEF Dispatch, AwaitInv, ActivityIn
  <2>2. [run |-> r, act |-> ActivityIn[phase[r]], attempt |-> attempt[r],
         answer |-> "none"] \in Execs
    BY <2>1, Vocabulary DEF TypeOK, Execs
  <2> QED
    BY <1>2, <2>2 DEF Dispatch, TypeOK, StoreTypeOK, storeVars, runVars, signalVars
<1>3. CASE AttemptTimeout(r)
  BY <1>3, AttemptFailsType
     DEF AttemptTimeout, TypeOK, StoreTypeOK, storeVars, runVars, signalVars
<1>4. CASE AfterCancel(r)
  <2>1. answer[r] \in Answers
    BY DEF TypeOK
  <2> QED
    BY <1>4, <2>1, FinishType, Vocabulary DEF AfterCancel, Final
<1>5. CASE AfterLoad(r)
  <2> USE DEF AfterLoad
  <2>1. CASE answer[r] \in {"failed", "order_not_found"}
    BY <1>5, <2>1, FinishType, Vocabulary DEF Final
  <2>2. CASE answer[r] = "refunded"
    BY <1>5, <2>2, FinishType, Vocabulary DEF Final
  <2>3. CASE answer[r] = "delivered" /\ ~NeedsApproval(r.order)
    BY <1>5, <2>3, StartRefundingType
  <2>4. CASE answer[r] = "delivered" /\ NeedsApproval(r.order) /\ approval[r] # "none"
    BY <1>5, <2>4, DecideType
  <2>5. CASE answer[r] = "delivered" /\ NeedsApproval(r.order) /\ approval[r] = "none"
    BY <1>5, <2>5, AttemptsAssumption, Vocabulary
       DEF Enter, TypeOK, StoreTypeOK, storeVars, signalVars, Attempts
  <2>6. CASE answer[r] \notin {"failed", "order_not_found", "refunded", "delivered"}
    BY <1>5, <2>6, FinishType, Vocabulary DEF Final, Refusals
  <2> QED
    BY <2>1, <2>2, <2>3, <2>4, <2>5, <2>6
<1>6. CASE AfterApproval(r)
  BY <1>6, DecideType DEF AfterApproval
<1>7. CASE AfterRefund(r)
  <2>1. answer[r] \in Answers
    BY DEF TypeOK
  <2> QED
    BY <1>7, <2>1, FinishType, Vocabulary DEF AfterRefund, Final
<1> QED
  BY <1>1, <1>2, <1>3, <1>4, <1>5, <1>6, <1>7 DEF RunSteps

\* The tables and the answer after an activity's transaction.
LEMMA RunActivityType ==
  ASSUME TypeOK, NEW e \in execs, RunActivity(e)
  PROVE  TypeOK'
<1>1. e \in Execs /\ e.run \in RunIds /\ e.run.order \in Orders /\ e.attempt \in Attempts
  BY DEF TypeOK, Execs, RunIds
<1>2. \A a \in Answers : [e EXCEPT !.answer = a] \in Execs
  BY <1>1 DEF Execs
<1>3. \A a \in Answers : Answered(e, a) => execs' \subseteq Execs
  BY <1>2 DEF Answered, TypeOK
<1>4. \A a : Answered(e, a) /\ a \in Answers /\ StoreTypeOK'
             /\ UNCHANGED <<checked, runVars, signalVars, taskVars>> => TypeOK'
  BY <1>3 DEF TypeOK, runVars, signalVars, taskVars
<1>5. CASE Cancel(e)
  <2>1. StoreTypeOK'
    BY <1>5 DEF Cancel, CancelOrderRow, TypeOK, StoreTypeOK, RowStates, OrderStatuses
  <2> QED
    BY <1>4, <1>5, <2>1, AnswerTypes, Vocabulary DEF RunActivity, Cancel
<1>6. CASE Load(e)
  <2>1. status[e.run.order] \in Answers
    BY <1>1, Vocabulary DEF TypeOK, StoreTypeOK
  <2>2. StoreTypeOK'
    BY <1>6 DEF Load, TypeOK, StoreTypeOK, storeVars
  <2>3. "order_not_found" \in Answers /\ "error" \in Answers
    BY Vocabulary DEF Refusals
  <2>4. PICK a \in Answers : Answered(e, a)
    BY <1>6, <2>1, <2>3 DEF Load
  <2> QED
    BY <1>4, <2>2, <2>4 DEF RunActivity
<1>7. CASE Execute(e)
  <2>1. <<e.run, e.attempt>> \in Writers
    BY <1>1, WritersAssumption
  <2>2. StoreTypeOK'
    BY <1>1, <1>7, <2>1
       DEF Execute, RefundOrderRow, TypeOK, StoreTypeOK, RefundRows, RowStates,
           OrderStatuses, storeVars
  <2> QED
    BY <1>4, <1>7, <2>2, AnswerTypes, Vocabulary DEF RunActivity, Execute
<1>8. CASE Answered(e, "error") /\ UNCHANGED storeVars
  <2>1. StoreTypeOK'
    BY <1>8 DEF TypeOK, StoreTypeOK, storeVars
  <2> QED
    BY <1>4, <1>8, <2>1, Vocabulary DEF RunActivity
<1> QED
  BY <1>5, <1>6, <1>7, <1>8 DEF RunActivity

\* Activity executions.
LEMMA ExecStepsType ==
  ASSUME TypeOK, NEW e \in execs, ExecSteps(e)
  PROVE  TypeOK'
<1>1. CASE RunActivity(e)
  BY <1>1, RunActivityType
<1>2. CASE Report(e)
  <2>1. e.run \in RunIds /\ e.answer \in Answers
    BY DEF TypeOK, Execs
  <2>2. CASE UNCHANGED taskVars
    BY <1>2, <2>2 DEF Report, TypeOK, StoreTypeOK, storeVars, runVars, signalVars, taskVars
  <2>3. CASE AttemptFails(e.run)
    BY <1>2, <2>1, <2>3, AttemptFailsType
       DEF Report, TypeOK, StoreTypeOK, storeVars, runVars, signalVars
  <2>4. CASE ActivityEnds(e.run, e.answer)
    BY <1>2, <2>1, <2>4
       DEF Report, ActivityEnds, TypeOK, StoreTypeOK, storeVars, runVars, signalVars
  <2> QED
    BY <1>2, <2>2, <2>3, <2>4 DEF Report
<1>3. CASE LoseExecution(e)
  BY <1>3 DEF LoseExecution, TypeOK, StoreTypeOK, storeVars, runVars, signalVars, taskVars
<1> QED
  BY <1>1, <1>2, <1>3 DEF ExecSteps

\* Every step keeps the types.
LEMMA TypeStep == TypeOK /\ AwaitInv /\ [Next]_vars => TypeOK'
<1> SUFFICES ASSUME TypeOK, AwaitInv, [Next]_vars PROVE TypeOK'
  OBVIOUS
<1>1. ASSUME NEW r \in RunIds, ExecutionTimeout(r) PROVE TypeOK'
  BY <1>1, AttemptsAssumption
     DEF ExecutionTimeout, TypeOK, StoreTypeOK, storeVars, signalVars, Attempts
<1>2. ASSUME NEW r \in RunIds, NEW v \in {"approved", "denied"}, Approve(r, v)
      PROVE  TypeOK'
  BY <1>2 DEF Approve, TypeOK, StoreTypeOK, storeVars, runVars, taskVars
<1>3. CASE UNCHANGED vars
  BY <1>3 DEF vars, TypeOK, StoreTypeOK, storeVars, runVars, signalVars, taskVars
<1> QED
  BY <1>1, <1>2, <1>3, OrderStepsType, RequestStepsType, RunStepsType, ExecStepsType
     DEF Next

-----------------------------------------------------------------------------
\* The steps of a run leave a task only in a phase with an activity.
LEMMA RunStepsAwait ==
  ASSUME TypeOK, AwaitInv, NEW r \in RunIds, RunSteps(r)
  PROVE  AwaitInv'
<1> USE DEF TypeOK, AwaitInv, ActivityIn
<1>1. CASE BeginRun(r)
  BY <1>1 DEF BeginRun, Enter, ScheduleActivity
<1>2. CASE Dispatch(r)
  BY <1>2 DEF Dispatch, runVars
<1>3. CASE AttemptTimeout(r)
  BY <1>3 DEF AttemptTimeout, AttemptFails, ActivityEnds, runVars
<1>4. ASSUME NEW p, NEW why, Finish(r, p, why) PROVE AwaitInv'
  BY <1>4 DEF Finish
<1>5. CASE StartRefunding(r)
  BY <1>5 DEF StartRefunding, Enter, ScheduleActivity
<1>6. CASE Decide(r)
  BY <1>4, <1>5, <1>6 DEF Decide
<1>7. CASE AfterCancel(r)
  BY <1>4, <1>7 DEF AfterCancel
<1>8. CASE AfterLoad(r)
  <2>1. CASE Enter(r, "WAITING_FOR_APPROVAL") /\ task' = [task EXCEPT ![r] = "idle"]
    BY <2>1 DEF Enter
  <2> QED
    BY <1>4, <1>5, <1>6, <1>8, <2>1 DEF AfterLoad
<1>9. CASE AfterApproval(r)
  BY <1>6, <1>9 DEF AfterApproval
<1>10. CASE AfterRefund(r)
  BY <1>4, <1>10 DEF AfterRefund
<1> QED
  BY <1>1, <1>2, <1>3, <1>7, <1>8, <1>9, <1>10 DEF RunSteps

\* Every step keeps AwaitInv.
LEMMA AwaitStep == TypeOK /\ AwaitInv /\ [Next]_vars => AwaitInv'
<1> SUFFICES ASSUME TypeOK, AwaitInv, [Next]_vars PROVE AwaitInv'
  OBVIOUS
<1> USE DEF TypeOK, AwaitInv
<1>1. CASE UNCHANGED <<phase, task>>
  BY <1>1
<1>2. ASSUME NEW o \in Orders, NEW c \in Customers, RequestSteps(o, c) PROVE AwaitInv'
  <2>1. ASSUME NEW r \in RunIds, StartRun(r, c) PROVE AwaitInv'
    BY <2>1 DEF StartRun, runVars, taskVars, ActivityIn
  <2> QED
    BY <1>1, <1>2, <2>1
       DEF RequestSteps, CheckCancellable, StartCancellation, RequestRefund, RunsOf,
           runVars, taskVars
<1>3. ASSUME NEW r \in RunIds, ExecutionTimeout(r) PROVE AwaitInv'
  BY <1>3 DEF ExecutionTimeout
<1>4. ASSUME NEW e \in execs, Report(e) PROVE AwaitInv'
  BY <1>4 DEF Report, Awaited, AttemptFails, ActivityEnds, Execs, runVars, taskVars
<1>5. ASSUME NEW e \in execs, RunActivity(e) \/ LoseExecution(e)
      PROVE  UNCHANGED <<phase, task>>
  BY <1>5 DEF RunActivity, LoseExecution, runVars, taskVars
<1>6. ASSUME NEW o \in Orders, OrderSteps(o) PROVE UNCHANGED <<phase, task>>
  BY <1>6 DEF OrderSteps, runVars, taskVars
<1>7. ASSUME NEW r \in RunIds, NEW v \in {"approved", "denied"}, Approve(r, v)
      PROVE  UNCHANGED <<phase, task>>
  BY <1>7 DEF Approve, runVars, taskVars
<1>8. CASE UNCHANGED vars
  BY <1>1, <1>8 DEF vars, runVars, taskVars
<1> QED
  BY <1>1, <1>2, <1>3, <1>4, <1>5, <1>6, <1>7, <1>8, RunStepsAwait DEF Next, ExecSteps

\* The variables stay in their types: among others no activity is tried more
\* than maximum_attempts times (workflows.py, ACTIVITY_RETRY_POLICY).
THEOREM TypeCorrect == Spec => [](TypeOK /\ AwaitInv)
<1>1. Init => TypeOK /\ AwaitInv
  <2> SUFFICES ASSUME Init PROVE TypeOK /\ AwaitInv
    OBVIOUS
  <2>1. StoreTypeOK
    BY SeedAssumption DEF Init, StoreInit, StoreTypeOK
  <2>2. 1 \in Attempts
    BY AttemptsAssumption DEF Attempts
  <2> QED
    BY <2>1, <2>2, Vocabulary DEF Init, TypeOK, AwaitInv
<1>2. TypeOK /\ AwaitInv /\ [Next]_vars => (TypeOK /\ AwaitInv)'
  BY TypeStep, AwaitStep
<1> QED
  BY <1>1, <1>2, PTL DEF Spec

-----------------------------------------------------------------------------
\* Every step is a step of the order tables, or leaves them alone.
LEMMA StoreSteps == TypeOK /\ [Next]_vars => [StoreNext]_storeVars
<1> SUFFICES ASSUME TypeOK, [Next]_vars PROVE [StoreNext]_storeVars
  OBVIOUS
<1>1. ASSUME NEW o \in Orders, OrderSteps(o) PROVE [StoreNext]_storeVars
  BY <1>1 DEF OrderSteps, StoreNext
<1>2. ASSUME NEW e \in execs, RunActivity(e) PROVE [StoreNext]_storeVars
  <2> DEFINE o == e.run.order
             c == requester[e.run]
  <2>1. /\ o \in Orders /\ Owner[o] \in Customers
        /\ <<e.run, e.attempt>> \in Writers
    BY OwnerAssumption, WritersAssumption DEF TypeOK, Execs, RunIds
  <2>2. CASE c = Owner[o] /\ Cancel(e)
    BY <2>1, <2>2 DEF Cancel, StoreNext
  <2>3. CASE c = Owner[o] /\ Execute(e)
    BY <2>1, <2>3 DEF Execute, StoreNext
  <2>4. CASE c # Owner[o] /\ (Cancel(e) \/ Execute(e))
    BY <2>4 DEF Cancel, Execute, CancelOrderRow, RefundOrderRow, Visible, storeVars
  <2>5. CASE Load(e) \/ UNCHANGED storeVars
    BY <2>5 DEF Load
  <2> QED
    BY <1>2, <2>2, <2>3, <2>4, <2>5 DEF RunActivity
<1>3. ASSUME NEW e \in execs, Report(e) \/ LoseExecution(e) PROVE UNCHANGED storeVars
  BY <1>3 DEF Report, LoseExecution
<1>4. ASSUME NEW o \in Orders, NEW c \in Customers, RequestSteps(o, c)
      PROVE  UNCHANGED storeVars
  BY <1>4 DEF RequestSteps, CheckCancellable, StartCancellation, RequestRefund
<1>5. ASSUME NEW r \in RunIds, RunSteps(r) PROVE UNCHANGED storeVars
  BY <1>5 DEF RunSteps, BeginRun, Dispatch, AttemptTimeout, AfterCancel, AfterLoad,
              AfterApproval, AfterRefund
<1>6. ASSUME NEW r \in RunIds, NEW v \in {"approved", "denied"}, Approve(r, v)
      PROVE  UNCHANGED storeVars
  BY <1>6 DEF Approve
<1>7. CASE UNCHANGED vars
  BY <1>7 DEF vars
<1>8. ASSUME NEW r \in RunIds, ExecutionTimeout(r) PROVE UNCHANGED storeVars
  BY <1>8 DEF ExecutionTimeout
<1> QED
  BY <1>1, <1>2, <1>3, <1>4, <1>5, <1>6, <1>7, <1>8 DEF Next, ExecSteps

\* Whatever the runs, retries and late executions do, the order tables only
\* see the atomic database functions: the composition implements OrderStore.
THEOREM WorkflowsImplementStore == Spec => StoreSpec
<1>1. Init => StoreInit
  BY DEF Init
<1>2. TypeOK /\ [Next]_vars => [StoreNext]_storeVars
  BY StoreSteps
<1> QED
  BY <1>1, <1>2, TypeCorrect, PTL DEF Spec, StoreSpec

\* However often a refund is requested, retried or executed late, an order is
\* paid out at most once, and a paid order is refunded for good.
THEOREM PaidAtMostOnce == Spec => []LedgerConsistent
  BY WorkflowsImplementStore, LedgerCorrect, PTL

-----------------------------------------------------------------------------
(* The approval behind a large refund is followed from the signal, through *)
(* the decision of the run and the executions it started, into the row.    *)

SaidYes(r) == NeedsApproval(r.order) => "approved" \in heard[r]

ApprovalInv ==
    /\ \A r \in RunIds : approval[r] # "none" => approval[r] \in heard[r]
    /\ \A r \in RunIds : phase[r] = "REFUNDING" => SaidYes(r)
    /\ \A e \in execs : e.act = "execute" => SaidYes(e.run)
    /\ \A row \in refunds :
          /\ PayerOf(row) \in RunIds
          /\ PayerOf(row).order = row.order
          /\ SaidYes(PayerOf(row))

\* A run goes to its refund only when staff said yes, or nobody has to.
LEMMA RunStepsApproval ==
  ASSUME TypeOK, AwaitInv, ApprovalInv, NEW r \in RunIds, RunSteps(r)
  PROVE  ApprovalInv'
<1> USE DEF TypeOK, ApprovalInv, SaidYes, PayerOf
<1>1. UNCHANGED <<storeVars, signalVars>>
  BY DEF RunSteps, BeginRun, Dispatch, AttemptTimeout, AfterCancel, AfterLoad,
         AfterApproval, AfterRefund
<1> USE <1>1 DEF storeVars, signalVars
<1>2. ASSUME NEW p \in Phases \ {"REFUNDING"}, phase' = [phase EXCEPT ![r] = p],
             UNCHANGED execs
      PROVE  ApprovalInv'
  BY <1>2
<1>3. CASE BeginRun(r)
  BY <1>2, <1>3, Vocabulary DEF BeginRun, Enter, ActivityIn
<1>4. CASE Dispatch(r)
  <2>1. ActivityIn[phase[r]] = "execute" => phase[r] = "REFUNDING"
    BY <1>4 DEF Dispatch, AwaitInv, ActivityIn
  <2> QED
    BY <1>4, <2>1 DEF Dispatch, runVars
<1>5. CASE AttemptTimeout(r)
  BY <1>5 DEF AttemptTimeout, runVars
<1>6. ASSUME NEW p \in Final, NEW why, Finish(r, p, why), UNCHANGED execs
      PROVE  ApprovalInv'
  BY <1>2, <1>6, Vocabulary DEF Finish, Final
<1>7. ASSUME StartRefunding(r), SaidYes(r), UNCHANGED execs PROVE ApprovalInv'
  BY <1>7 DEF StartRefunding, Enter
<1>8. ASSUME Decide(r), UNCHANGED execs PROVE ApprovalInv'
  BY <1>6, <1>7, <1>8 DEF Decide, Final
<1>9. CASE AfterCancel(r)
  BY <1>6, <1>9 DEF AfterCancel, Final
<1>10. CASE AfterLoad(r)
  <2>1. CASE Enter(r, "WAITING_FOR_APPROVAL") /\ UNCHANGED execs
    BY <1>2, <2>1, Vocabulary DEF Enter
  <2>2. CASE StartRefunding(r) /\ ~NeedsApproval(r.order)
    BY <1>7, <1>10, <2>2 DEF AfterLoad
  <2> QED
    BY <1>6, <1>8, <1>10, <2>1, <2>2 DEF AfterLoad, Final
<1>11. CASE AfterApproval(r)
  BY <1>8, <1>11 DEF AfterApproval
<1>12. CASE AfterRefund(r)
  BY <1>6, <1>12 DEF AfterRefund, Final
<1> QED
  BY <1>3, <1>4, <1>5, <1>9, <1>10, <1>11, <1>12 DEF RunSteps

\* A refund row carries the approval of the execution that writes it.
LEMMA ExecStepsApproval ==
  ASSUME TypeOK, ApprovalInv, NEW e \in execs, ExecSteps(e)
  PROVE  ApprovalInv'
<1> USE DEF TypeOK, ApprovalInv, SaidYes, PayerOf
<1>1. e \in Execs /\ e.run \in RunIds
  BY DEF Execs
<1>2. UNCHANGED <<phase, signalVars>>
  BY DEF ExecSteps, RunActivity, Report, LoseExecution, runVars
<1>3. CASE execs' = execs \ {e} /\ UNCHANGED storeVars
  BY <1>2, <1>3 DEF storeVars, signalVars
<1>4. CASE RunActivity(e)
  <2>1. \A f \in execs' : \E d \in execs : f.act = d.act /\ f.run = d.run
    <3>1. ASSUME NEW a, Answered(e, a)
          PROVE  \A f \in execs' : \E d \in execs : f.act = d.act /\ f.run = d.run
      BY <1>1, <3>1 DEF Answered, Execs
    <3> QED
      BY <1>4, <3>1 DEF RunActivity, Cancel, Load, Execute
  <2>2. CASE UNCHANGED refunds
    BY <1>2, <2>1, <2>2 DEF signalVars
  <2>3. CASE Execute(e)
    <3>1. \A row \in refunds' \ refunds :
             row = [order |-> e.run.order, writer |-> <<e.run, e.attempt>>]
      BY <2>3 DEF Execute, RefundOrderRow, storeVars
    <3>2. e.act = "execute"
      BY <2>3 DEF Execute
    <3>3. SaidYes(e.run)
      BY <3>2
    <3> QED
      BY <1>1, <1>2, <2>1, <3>1, <3>3 DEF signalVars
  <2> QED
    BY <1>4, <2>2, <2>3 DEF RunActivity, Cancel, CancelOrderRow, Load, storeVars
<1> QED
  BY <1>3, <1>4 DEF ExecSteps, Report, LoseExecution

\* Nothing unsays a yes: every step keeps ApprovalInv.
LEMMA ApprovalStep == TypeOK /\ AwaitInv /\ ApprovalInv /\ [Next]_vars => ApprovalInv'
<1> SUFFICES ASSUME TypeOK, AwaitInv, ApprovalInv, [Next]_vars PROVE ApprovalInv'
  OBVIOUS
<1> USE DEF TypeOK, ApprovalInv, SaidYes, PayerOf
<1>1. CASE UNCHANGED <<phase, signalVars, execs, refunds>>
  BY <1>1 DEF signalVars
<1>2. ASSUME NEW o \in Orders, OrderSteps(o)
      PROVE  UNCHANGED <<phase, signalVars, execs, refunds>>
  BY <1>2 DEF OrderSteps, CreateOrderRow, Fulfil, runVars
<1>3. ASSUME NEW o \in Orders, NEW c \in Customers, RequestSteps(o, c)
      PROVE  ApprovalInv'
  <2>1. ASSUME NEW r \in RunIds, StartRun(r, c), UNCHANGED refunds PROVE ApprovalInv'
    BY <1>1, <2>1 DEF StartRun, runVars, signalVars
  <2> QED
    BY <1>1, <1>3, <2>1
       DEF RequestSteps, CheckCancellable, StartCancellation, RequestRefund, RunsOf,
           runVars, storeVars
<1>4. ASSUME NEW r \in RunIds, ExecutionTimeout(r)
      PROVE  UNCHANGED <<phase, signalVars, execs, refunds>>
  BY <1>4 DEF ExecutionTimeout, storeVars
<1>5. ASSUME NEW r \in RunIds, NEW v \in {"approved", "denied"}, Approve(r, v)
      PROVE  ApprovalInv'
  <2>1. UNCHANGED <<phase, execs, refunds>>
    BY <1>5 DEF Approve, runVars, storeVars
  <2>2. \A s \in RunIds : heard[s] \subseteq heard'[s]
    BY <1>5 DEF Approve
  <2>3. \A s \in RunIds : approval'[s] # "none" => approval'[s] \in heard'[s]
    BY <1>5 DEF Approve
  <2>4. \A s \in RunIds : SaidYes(s) => SaidYes(s)'
    BY <2>2
  <2>5. \A e \in execs : e.run \in RunIds
    BY DEF Execs
  <2> QED
    BY <2>1, <2>3, <2>4, <2>5
<1>6. CASE UNCHANGED vars
  BY <1>1, <1>6 DEF vars, runVars, storeVars
<1> QED
  BY <1>1, <1>2, <1>3, <1>4, <1>5, <1>6, RunStepsApproval, ExecStepsApproval DEF Next

\* The approval of a run is remembered by its executions.
LEMMA ApprovalCorrect == Spec => []ApprovalInv
<1>1. Init => ApprovalInv
  BY DEF Init, StoreInit, ApprovalInv
<1> QED
  BY <1>1, ApprovalStep, TypeCorrect, PTL DEF Spec

\* No refund above the threshold without a yes of staff to the very run that
\* pays it (policies/refund-policy.md, Approval).
THEOREM LargeRefundsApproved == Spec => []ApprovedBeforeLarge
<1>1. ApprovalInv => ApprovedBeforeLarge
  BY DEF ApprovalInv, SaidYes, ApprovedBeforeLarge
<1> QED
  BY <1>1, ApprovalCorrect, PTL

-----------------------------------------------------------------------------
(* What a run reports is followed from the row a transaction saw, through  *)
(* the answer of an execution and the outcome of the run's activity, to    *)
(* the phase and the detail the run ends with.  Every answer that is more  *)
(* than a failure tells something of the tables that stays true.           *)

\* The owner asked for the refund, and the order was found delivered: it is
\* still, or a refund row has made it refunded.
Cleared(r) ==
    /\ requester[r] = Owner[r.order]
    /\ status[r.order] = "delivered" \/ RefundRowsOf(r.order) # {}

\* The run wrote the refund row itself.
Recorded(r) == \E row \in refunds : PayerOf(row) = r

\* What the answer a of an activity of r tells of the tables.
Told(r, act, a) ==
    a \notin {"none", "error", "failed"} =>
        /\ act = "cancel" => ReasonHolds(a, status[r.order])
        /\ act = "load" /\ a = "refunded" => status[r.order] = "refunded"
        /\ act = "load" /\ a = "delivered" => Cleared(r)
        /\ act = "execute" =>
              /\ a \in {"refunded", "already_refunded"}
              /\ RefundRowsOf(r.order) # {}
              /\ a = "refunded" => Recorded(r)

\* A run whose executions may write a refund row: it is never rejected, and
\* fails only by running out of attempts.
MayPay(r) ==
    /\ r.kind = "refund"
    /\ Cleared(r)
    /\ \/ phase[r] \in {"REFUNDING", "COMPLETED"}
       \/ phase[r] = "FAILED" /\ answer[r] = "failed"

\* A cancellation is of an order its requester can see, and says how it stands
\* when it is completed.
CancelRunOK(r) ==
    /\ phase[r] \in {"none", "STARTED", "CANCELLING", "COMPLETED", "FAILED"}
    /\ phase[r] # "none" => Visible(r.order, requester[r])
    /\ phase[r] = "COMPLETED" => ReasonHolds(detail[r], status[r.order])

\* A refund run goes on only when it is cleared, and reports what is recorded.
RefundRunOK(r) ==
    /\ phase[r] # "CANCELLING"
    /\ phase[r] \in {"WAITING_FOR_APPROVAL", "REFUNDING"} => Cleared(r)
    /\ phase[r] = "COMPLETED" => status[r.order] = "refunded"
    /\ detail[r] = "refunded" => Recorded(r)

\* Besides, the answer its activity has ended with is true.
RunOK(r) ==
    /\ r.kind = "cancel" => CancelRunOK(r)
    /\ r.kind = "refund" => RefundRunOK(r)
    /\ task[r] = "done" =>
          answer[r] \notin {"none", "error"} /\ Told(r, ActivityIn[phase[r]], answer[r])

\* An execution that may pay is one of a run that may, and its answer is true,
\* reported or not.
ExecOK(e) ==
    /\ phase[e.run] # "none"
    /\ e.act = "cancel" <=> e.run.kind = "cancel"
    /\ e.act = "execute" => MayPay(e.run)
    /\ e.answer # "failed"
    /\ Told(e.run, e.act, e.answer)

\* Answers, late executions and refund rows fit the runs they belong to.
OutcomeInv ==
    /\ \A p \in checked : Visible(p[1], p[2])
    /\ \A r \in RunIds : RunOK(r)
    /\ \A e \in execs : ExecOK(e)
    /\ \A row \in refunds : MayPay(PayerOf(row))

\* What the three properties and their proof rest on.
Context == TypeOK /\ AwaitInv /\ ApprovalInv /\ LedgerConsistent

\* The facts of a run, as far as they are about the tables, outlive any step
\* of the tables.
LEMMA FactsKept ==
  ASSUME Context, [StoreNext]_storeVars, NEW r \in RunIds
  PROVE  /\ \A c : Visible(r.order, c) => Visible(r.order, c)'
         /\ \A why : ReasonHolds(why, status[r.order]) => ReasonHolds(why, status'[r.order])
         /\ status[r.order] = "refunded" => status'[r.order] = "refunded"
         /\ RefundRowsOf(r.order) \subseteq RefundRowsOf(r.order)'
         /\ Recorded(r) => Recorded(r)'
         /\ requester'[r] = requester[r] =>
               /\ Cleared(r) => Cleared(r)'
               /\ \A act, a : Told(r, act, a) => Told(r, act, a)'
<1>1. r.order \in Orders
  BY DEF RunIds
<1>2. /\ refunds \subseteq refunds'
      /\ status[r.order] # "absent" => status'[r.order] # "absent"
      /\ status[r.order] = "cancelled" => status'[r.order] = "cancelled"
      /\ status[r.order] = "refunded" => status'[r.order] = "refunded"
      /\ status[r.order] = "delivered" =>
            \/ status'[r.order] = "delivered"
            \/ status'[r.order] = "refunded" /\ RefundRowsOf(r.order)' # {}
  BY <1>1, StoreOnlyAdvances DEF Context, TypeOK
<1>3. /\ RefundRowsOf(r.order) \subseteq RefundRowsOf(r.order)'
      /\ \A why : ReasonHolds(why, status[r.order]) => ReasonHolds(why, status'[r.order])
  <2>1. RefundRowsOf(r.order) \subseteq RefundRowsOf(r.order)'
    BY <1>2 DEF RefundRowsOf
  <2> QED
    BY <1>2, <2>1 DEF ReasonHolds
<1>4. \A c : Visible(r.order, c) => Visible(r.order, c)'
  BY <1>2 DEF Visible
<1>5. requester'[r] = requester[r] /\ Cleared(r) => Cleared(r)'
  BY <1>2, <1>3 DEF Cleared
<1>6. Recorded(r) => Recorded(r)'
  BY <1>2 DEF Recorded, PayerOf
<1>7. ASSUME requester'[r] = requester[r], NEW act, NEW a, Told(r, act, a)
      PROVE  Told(r, act, a)'
  BY <1>2, <1>3, <1>5, <1>6, <1>7 DEF Told
<1> QED
  BY <1>2, <1>3, <1>4, <1>5, <1>6, <1>7

\* An order with a refund row is refunded.
LEMMA RowsRefunded ==
  ASSUME LedgerConsistent, NEW o, RefundRowsOf(o) # {}
  PROVE  status[o] = "refunded"
  BY DEF LedgerConsistent, RefundRowsOf

\* A step that touches the run r alone, and only as r's own facts allow.
LEMMA OneRunSteps ==
  ASSUME Context, OutcomeInv, NEW r \in RunIds,
         UNCHANGED <<storeVars, checked, requester>>,
         execs' \subseteq execs,
         \A s \in RunIds \ {r} :
            /\ phase'[s] = phase[s] /\ detail'[s] = detail[s]
            /\ task'[s] = task[s] /\ answer'[s] = answer[s],
         phase[r] # "none" => phase'[r] # "none",
         MayPay(r) => MayPay(r)',
         RunOK(r)'
  PROVE  OutcomeInv'
<1> USE DEF OutcomeInv
<1>1. /\ status' = status /\ refunds' = refunds /\ checked' = checked
      /\ requester' = requester
  BY DEF storeVars
<1>2. \A o : /\ RefundRowsOf(o)' = RefundRowsOf(o)
             /\ \A c : Visible(o, c)' = Visible(o, c)
  BY <1>1 DEF RefundRowsOf, Visible
<1>3. \A s, act, a : Cleared(s)' = Cleared(s) /\ (Told(s, act, a) => Told(s, act, a)')
  BY <1>1, <1>2 DEF Cleared, Told, Recorded
<1>4. ASSUME NEW s \in RunIds PROVE RunOK(s)' /\ (MayPay(s) => MayPay(s)')
  <2>1. CASE s = r
    BY <2>1
  <2>2. CASE s # r
    BY <1>1, <1>2, <1>3, <2>2 DEF RunOK, CancelRunOK, RefundRunOK, MayPay, Recorded
  <2> QED
    BY <2>1, <2>2
<1>5. ASSUME NEW e \in execs PROVE ExecOK(e)'
  <2>1. e.run \in RunIds /\ ExecOK(e)
    BY DEF Context, TypeOK, Execs
  <2>2. phase'[e.run] # "none"
    BY <2>1 DEF ExecOK
  <2> QED
    BY <1>3, <1>4, <2>1, <2>2 DEF ExecOK
<1>6. \A row \in refunds : PayerOf(row) \in RunIds
  BY DEF Context, ApprovalInv
<1>7. \A row \in refunds' : MayPay(PayerOf(row))'
  BY <1>1, <1>4, <1>6 DEF PayerOf
<1>8. \A p \in checked' : Visible(p[1], p[2])'
  BY <1>1, <1>2
<1> QED
  BY <1>4, <1>5, <1>7, <1>8
\* The end of an activity, or another attempt at it, as the server sees it.
LEMMA ActivityOutcome ==
  ASSUME Context, OutcomeInv, NEW r \in RunIds, Open(r), task[r] = "started",
         UNCHANGED <<storeVars, checked, runVars>>, execs' \subseteq execs,
         \/ AttemptFails(r)
         \/ \E a \in Answers : /\ ActivityEnds(r, a)
                               /\ a \notin {"none", "error"}
                               /\ Told(r, ActivityIn[phase[r]], a)
  PROVE  OutcomeInv'
<1> USE DEF TypeOK, runVars
<1>1. RunOK(r)
  BY DEF OutcomeInv
<1>2. phase[r] \in DOMAIN ActivityIn
  BY DEF Context, AwaitInv
<1>3. phase[r] # "FAILED"
  BY <1>2 DEF ActivityIn
<1>4. \A s \in RunIds \ {r} : task'[s] = task[s] /\ answer'[s] = answer[s]
  BY DEF Context, AttemptFails, ActivityEnds
<1>5. task'[r] = "done" =>
        answer'[r] \notin {"none", "error"} /\ Told(r, ActivityIn[phase[r]], answer'[r])
  <2>1. CASE AttemptFails(r)
    BY <2>1 DEF Context, AttemptFails, ActivityEnds, Told
  <2>2. ASSUME NEW a \in Answers, ActivityEnds(r, a), a \notin {"none", "error"},
               Told(r, ActivityIn[phase[r]], a)
        PROVE  answer'[r] \notin {"none", "error"} /\ Told(r, ActivityIn[phase[r]], answer'[r])
    BY <2>2 DEF Context, ActivityEnds
  <2> QED
    BY <2>1, <2>2
<1>6. MayPay(r) => MayPay(r)'
  BY <1>3 DEF MayPay, Cleared, RefundRowsOf, storeVars
<1>7. RunOK(r)'
  <2>1. Told(r, ActivityIn[phase[r]], answer'[r]) => Told(r, ActivityIn[phase[r]], answer[r])'
    BY DEF Told, Cleared, Recorded, RefundRowsOf, storeVars
  <2> QED
    BY <1>1, <1>5, <2>1
       DEF RunOK, CancelRunOK, RefundRunOK, Visible, Cleared, Recorded,
           RefundRowsOf, storeVars
<1> QED
  BY <1>4, <1>6, <1>7, OneRunSteps

\* A run that goes on to its next await, or ends, when what the new phase
\* says is known.
LEMMA NextPhase ==
  ASSUME Context, OutcomeInv, NEW r \in RunIds, NEW p \in Phases \ {"none"},
         phase' = [phase EXCEPT ![r] = p],
         \A s \in RunIds \ {r} :
            detail'[s] = detail[s] /\ task'[s] = task[s] /\ answer'[s] = answer[s],
         task'[r] # "done",
         UNCHANGED <<storeVars, checked, requester, execs>>,
         phase[r] \notin {"COMPLETED", "FAILED"},
         phase[r] = "REFUNDING" =>
            \/ p = "COMPLETED"
            \/ p = "FAILED" /\ answer'[r] = "failed",
         r.kind = "cancel" =>
            /\ phase[r] # "none"
            /\ p \in {"STARTED", "CANCELLING", "COMPLETED", "FAILED"}
            /\ p = "COMPLETED" => ReasonHolds(detail'[r], status[r.order]),
         r.kind = "refund" =>
            /\ p # "CANCELLING"
            /\ p \in {"WAITING_FOR_APPROVAL", "REFUNDING"} => Cleared(r)
            /\ p = "COMPLETED" => status[r.order] = "refunded"
            /\ \/ detail'[r] \in {"none", detail[r], "approval_denied",
                                  "already_refunded", "order_not_delivered"}
               \/ Recorded(r)
  PROVE  OutcomeInv'
<1>1. RunOK(r)
  BY DEF OutcomeInv
<1>2. phase'[r] = p /\ \A s \in RunIds \ {r} : phase'[s] = phase[s]
  BY DEF Context, TypeOK
<1>3. /\ status' = status /\ refunds' = refunds /\ requester' = requester
      /\ execs' = execs
  BY DEF storeVars
<1>4. Cleared(r)' = Cleared(r)
  BY <1>3 DEF Cleared, RefundRowsOf
<1>5. MayPay(r) => MayPay(r)'
  BY <1>2, <1>4 DEF MayPay
<1>6. r.kind = "cancel" => CancelRunOK(r)'
  BY <1>1, <1>2, <1>3 DEF RunOK, CancelRunOK, Visible
<1>7. r.kind = "refund" => RefundRunOK(r)'
  BY <1>1, <1>2, <1>3, <1>4 DEF RunOK, RefundRunOK, Recorded, PayerOf
<1> QED
  BY <1>2, <1>3, <1>5, <1>6, <1>7, OneRunSteps DEF RunOK

\* The workflow code: a run goes on, or ends, only on what it was told.
LEMMA RunStepsOutcome ==
  ASSUME Context, OutcomeInv, NEW r \in RunIds, RunSteps(r)
  PROVE  OutcomeInv'
<1>1. /\ RunOK(r)
      /\ r.kind \in {"cancel", "refund"}
  BY KindsAssumption DEF OutcomeInv, RunIds
<1> DEFINE Others == \A s \in RunIds \ {r} :
              detail'[s] = detail[s] /\ task'[s] = task[s] /\ answer'[s] = answer[s]
<1>2. ASSUME NEW p \in Final, NEW why, Finish(r, p, why)
      PROVE  /\ Others
             /\ task'[r] # "done" /\ detail'[r] = why /\ answer' = answer
             /\ phase' = [phase EXCEPT ![r] = p] /\ p \in Phases \ {"none"}
             /\ UNCHANGED requester
  BY <1>2, Vocabulary DEF Finish, Final, Context, TypeOK
<1>3. ASSUME NEW p, Enter(r, p), ScheduleActivity(r)
      PROVE  /\ Others
             /\ task'[r] # "done" /\ detail'[r] = detail[r]
             /\ phase' = [phase EXCEPT ![r] = p]
             /\ UNCHANGED requester
  BY <1>3 DEF Enter, ScheduleActivity, Context, TypeOK
<1>4. ASSUME StartRefunding(r), Cleared(r), r.kind = "refund",
             phase[r] \in {"CHECKING_ORDER", "WAITING_FOR_APPROVAL"},
             UNCHANGED <<storeVars, checked, execs>>
      PROVE  OutcomeInv'
  BY <1>3, <1>4, NextPhase, Vocabulary DEF StartRefunding, ActivityIn
<1>5. ASSUME Decide(r), Cleared(r), r.kind = "refund",
             phase[r] \in {"CHECKING_ORDER", "WAITING_FOR_APPROVAL"},
             UNCHANGED <<storeVars, checked, execs>>
      PROVE  OutcomeInv'
  BY <1>2, <1>4, <1>5, NextPhase, Vocabulary DEF Decide, Final
<1>6. CASE BeginRun(r)
  <2>1. CASE r.kind = "cancel"
    BY <1>3, <1>6, <2>1, NextPhase, Vocabulary DEF BeginRun, ActivityIn
  <2>2. CASE r.kind = "refund"
    BY <1>3, <1>6, <2>2, NextPhase, Vocabulary DEF BeginRun, ActivityIn
  <2> QED
    BY <1>1, <2>1, <2>2
<1>7. CASE Dispatch(r)
  <2> DEFINE e == [run |-> r, act |-> ActivityIn[phase[r]], attempt |-> attempt[r],
                   answer |-> "none"]
  <2>1. /\ execs' = execs \cup {e}
        /\ task' = [task EXCEPT ![r] = "started"]
        /\ UNCHANGED <<storeVars, checked, runVars, answer>>
    BY <1>7 DEF Dispatch
  <2>2. phase[r] \in DOMAIN ActivityIn
    BY <1>7 DEF Dispatch, Context, AwaitInv
  <2>3. ExecOK(e)
    <3>1. e.act = "cancel" <=> r.kind = "cancel"
      BY <1>1, <2>2 DEF ActivityIn, RunOK, CancelRunOK, RefundRunOK
    <3>2. e.act = "execute" => MayPay(r)
      BY <1>1, <2>2, <3>1 DEF ActivityIn, RunOK, RefundRunOK, MayPay
    <3> QED
      BY <2>2, <3>1, <3>2 DEF ExecOK, ActivityIn, Told
  <2>4. \A s \in RunIds : RunOK(s)' /\ MayPay(s)' = MayPay(s)
    <3>1. \A s \in RunIds : task'[s] = "done" => task[s] = "done"
      BY <2>1 DEF Context, TypeOK
    <3> QED
      BY <2>1, <3>1
         DEF OutcomeInv, RunOK, CancelRunOK, RefundRunOK, MayPay, Told,
             Visible, Cleared, Recorded, PayerOf, RefundRowsOf, storeVars, runVars
  <2>5. \A d \in execs' : ExecOK(d)'
    <3>1. \A d \in execs' : ExecOK(d) /\ d.run \in RunIds
      BY <2>1, <2>3 DEF OutcomeInv, Context, TypeOK, Execs
    <3> QED
      BY <2>1, <2>4, <3>1
         DEF ExecOK, Told, Cleared, Recorded, PayerOf, RefundRowsOf, storeVars,
             runVars
  <2>6. \A row \in refunds' : MayPay(PayerOf(row))'
    BY <2>1, <2>4 DEF OutcomeInv, Context, ApprovalInv, PayerOf, storeVars
  <2> QED
    BY <2>1, <2>4, <2>5, <2>6 DEF OutcomeInv, Visible, storeVars
<1>8. CASE AttemptTimeout(r)
  BY <1>8, ActivityOutcome DEF AttemptTimeout
<1>9. CASE AfterCancel(r)
  <2>1. r.kind = "cancel"
    BY <1>1, <1>9 DEF AfterCancel, RunOK, RefundRunOK
  <2>2. answer[r] # "failed" => ReasonHolds(answer[r], status[r.order])
    BY <1>1, <1>9 DEF AfterCancel, RunOK, Told, ActivityIn
  <2> QED
    BY <1>2, <1>9, <2>1, <2>2, NextPhase DEF AfterCancel, Final
<1>10. CASE AfterLoad(r)
  <2> USE DEF AfterLoad
  <2>1. r.kind = "refund"
    BY <1>1, <1>10 DEF RunOK, CancelRunOK
  <2>2. /\ answer[r] = "refunded" => status[r.order] = "refunded"
        /\ answer[r] = "delivered" => Cleared(r)
    BY <1>1, <1>10 DEF RunOK, Told, ActivityIn
  <2>3. CASE answer[r] \in {"failed", "order_not_found"}
    BY <1>2, <1>10, <2>1, <2>3, NextPhase DEF Final
  <2>4. CASE answer[r] = "refunded"
    BY <1>2, <1>10, <2>1, <2>2, <2>4, NextPhase DEF Final
  <2>5. CASE answer[r] = "delivered" /\ ~NeedsApproval(r.order)
    BY <1>4, <1>10, <2>1, <2>2, <2>5
  <2>6. CASE answer[r] = "delivered" /\ NeedsApproval(r.order) /\ approval[r] # "none"
    BY <1>5, <1>10, <2>1, <2>2, <2>6
  <2>7. CASE answer[r] = "delivered" /\ NeedsApproval(r.order) /\ approval[r] = "none"
    <3>1. /\ Enter(r, "WAITING_FOR_APPROVAL")
          /\ task' = [task EXCEPT ![r] = "idle"]
          /\ UNCHANGED <<answer, storeVars, checked, execs>>
      BY <1>10, <2>7
    <3>2. Others /\ task'[r] # "done" /\ UNCHANGED <<detail, requester>>
      BY <3>1 DEF Enter, Context, TypeOK
    <3> QED
      BY <1>10, <2>1, <2>2, <2>7, <3>1, <3>2, NextPhase, Vocabulary DEF Enter
  <2>8. CASE answer[r] \notin {"failed", "order_not_found", "refunded", "delivered"}
    BY <1>2, <1>10, <2>1, <2>8, NextPhase DEF Final
  <2> QED
    BY <2>3, <2>4, <2>5, <2>6, <2>7, <2>8
<1>11. CASE AfterApproval(r)
  <2>1. r.kind = "refund" /\ Cleared(r)
    BY <1>1, <1>11 DEF AfterApproval, RunOK, CancelRunOK, RefundRunOK
  <2> QED
    BY <1>5, <1>11, <2>1 DEF AfterApproval
<1>12. CASE AfterRefund(r)
  <2>1. r.kind = "refund"
    BY <1>1, <1>12 DEF AfterRefund, RunOK, CancelRunOK
  <2>2. /\ answer[r] \in {"failed", "refunded", "already_refunded"}
        /\ answer[r] # "failed" => RefundRowsOf(r.order) # {}
        /\ answer[r] = "refunded" => Recorded(r)
    BY <1>1, <1>12 DEF AfterRefund, RunOK, Told, ActivityIn
  <2>3. answer[r] # "failed" => status[r.order] = "refunded"
    BY <2>2, RowsRefunded DEF Context
  <2>4. CASE Finish(r, "FAILED", "none") /\ answer[r] = "failed"
    BY <1>2, <1>12, <2>1, <2>4, NextPhase DEF Final, AfterRefund
  <2>5. CASE Finish(r, "COMPLETED", answer[r]) /\ answer[r] # "failed"
    <3>1. answer[r] = "already_refunded" \/ Recorded(r)
      BY <2>2, <2>5
    <3>2. Others /\ task'[r] # "done" /\ detail'[r] = answer[r] /\ UNCHANGED requester
          /\ phase' = [phase EXCEPT ![r] = "COMPLETED"]
          /\ "COMPLETED" \in Phases \ {"none"}
      BY <1>2, <2>5 DEF Final
    <3>3. /\ phase[r] = "REFUNDING" /\ status[r.order] = "refunded"
          /\ UNCHANGED <<storeVars, checked, execs>>
      BY <1>12, <2>3, <2>5 DEF AfterRefund
    <3> QED
      BY <2>1, <3>1, <3>2, <3>3, NextPhase
  <2> QED
    BY <1>12, <2>2, <2>4, <2>5 DEF AfterRefund, Refusals
<1> QED
  BY <1>6, <1>7, <1>8, <1>9, <1>10, <1>11, <1>12 DEF RunSteps
\* Steps that leave the runs as they are: what the runs were told outlives
\* what happens to the tables meanwhile.
LEMMA TablesStepOutcome ==
  ASSUME Context, OutcomeInv, [StoreNext]_storeVars, UNCHANGED <<runVars, taskVars>>,
         \A f \in execs' \ execs : ExecOK(f)',
         \A p \in checked' \ checked : Visible(p[1], p[2])',
         \A row \in refunds' \ refunds : PayerOf(row) \in RunIds /\ MayPay(PayerOf(row))
  PROVE  OutcomeInv'
<1> USE DEF OutcomeInv, runVars, taskVars
<1>1. ASSUME NEW r \in RunIds PROVE RunOK(r)' /\ (MayPay(r) => MayPay(r)')
  BY <1>1, FactsKept DEF RunOK, CancelRunOK, RefundRunOK, MayPay
<1>2. ASSUME NEW e \in execs, e \in execs' PROVE ExecOK(e)'
  <2>1. e.run \in RunIds /\ ExecOK(e)
    BY DEF Context, TypeOK, Execs
  <2> QED
    BY <1>1, <2>1, FactsKept DEF ExecOK
<1>3. \A row \in refunds : PayerOf(row) \in RunIds /\ MayPay(PayerOf(row))
  BY DEF Context, ApprovalInv
<1>4. ASSUME NEW row \in refunds' PROVE MayPay(PayerOf(row))'
  <2>1. PayerOf(row) \in RunIds /\ MayPay(PayerOf(row))
    BY <1>3
  <2> QED
    BY <1>1, <2>1 DEF PayerOf
<1>5. ASSUME NEW p \in checked' PROVE Visible(p[1], p[2])'
  <2>1. CASE p \in checked
    <3>1. Visible(p[1], p[2]) /\ p[1] \in Orders
      BY <2>1 DEF Context, TypeOK
    <3> QED
      BY <3>1, StoreOnlyAdvances DEF Visible, Context, TypeOK
  <2> QED
    BY <2>1
<1> QED
  BY <1>1, <1>2, <1>4, <1>5

\* A new run knows nothing yet; one of a cancellation belongs to the owner,
\* as the check before it made sure.
LEMMA StartRunOutcome ==
  ASSUME Context, OutcomeInv, NEW r \in RunIds, NEW c \in Customers, StartRun(r, c),
         r.kind = "cancel" => Visible(r.order, c),
         UNCHANGED storeVars, checked' \subseteq checked
  PROVE  OutcomeInv'
<1> USE DEF OutcomeInv
<1>1. CASE UNCHANGED <<runVars, taskVars, execs>>
  BY <1>1, TablesStepOutcome DEF storeVars
<1>2. CASE /\ phase[r] = "none"
           /\ phase' = [phase EXCEPT ![r] = "STARTED"]
           /\ requester' = [requester EXCEPT ![r] = c]
           /\ UNCHANGED <<detail, closed, signalVars, taskVars, execs>>
  <2> USE DEF storeVars, taskVars
  <2>1. \A s \in RunIds \ {r} : phase'[s] = phase[s] /\ requester'[s] = requester[s]
    BY <1>2 DEF Context, TypeOK
  <2>2. \A o : /\ RefundRowsOf(o)' = RefundRowsOf(o)
               /\ \A d : Visible(o, d)' = Visible(o, d)
    BY DEF RefundRowsOf, Visible
  <2>3. \A s : Recorded(s)' = Recorded(s)
    BY DEF Recorded, PayerOf
  <2>4. ASSUME NEW s \in RunIds \ {r}
        PROVE  /\ RunOK(s)' /\ (MayPay(s) => MayPay(s)')
               /\ \A act, a : Told(s, act, a) => Told(s, act, a)'
    <3>1. Cleared(s)' = Cleared(s)
      BY <2>1, <2>2 DEF Cleared
    <3>2. \A act, a : Told(s, act, a) => Told(s, act, a)'
      BY <2>2, <2>3, <3>1 DEF Told
    <3> QED
      BY <1>2, <2>1, <2>2, <2>3, <3>1, <3>2 DEF RunOK, CancelRunOK, RefundRunOK, MayPay
  <2>5. RunOK(r)'
    <3>1. phase'[r] = "STARTED" /\ requester'[r] = c /\ RunOK(r)
      BY <1>2 DEF Context, TypeOK
    <3>2. task'[r] # "done"
      BY <1>2 DEF Context, AwaitInv, ActivityIn
    <3> QED
      BY <1>2, <2>2, <2>3, <3>1, <3>2 DEF RunOK, CancelRunOK, RefundRunOK
  <2>6. ASSUME NEW e \in execs PROVE ExecOK(e)'
    <3>1. e.run \in RunIds \ {r} /\ ExecOK(e)
      BY <1>2 DEF Context, TypeOK, Execs, ExecOK
    <3> QED
      BY <2>1, <2>4, <3>1 DEF ExecOK
  <2>7. ASSUME NEW row \in refunds PROVE MayPay(PayerOf(row))'
    <3>1. PayerOf(row) \in RunIds \ {r} /\ MayPay(PayerOf(row))
      BY <1>2 DEF Context, ApprovalInv, MayPay
    <3> QED
      BY <2>4, <3>1 DEF PayerOf
  <2>8. \A p \in checked' : Visible(p[1], p[2])'
    BY <2>2
  <2> QED
    BY <1>2, <2>4, <2>5, <2>6, <2>7, <2>8
<1> QED
  BY <1>1, <1>2 DEF StartRun

\* What an execution answers is true when its transaction commits, and an
\* execution that writes a row was allowed to and had not reported yet.
LEMMA RunActivityOutcome ==
  ASSUME Context, OutcomeInv, [StoreNext]_storeVars, NEW e \in execs, RunActivity(e)
  PROVE  /\ OutcomeInv'
         /\ \A row \in refunds' \ refunds :
               MayPay(PayerOf(row)) /\ phase[PayerOf(row)] # "COMPLETED"
<1> DEFINE r == e.run
           o == e.run.order
           c == requester[e.run]
<1>1. /\ e \in Execs /\ r \in RunIds /\ o \in Orders /\ ExecOK(e) /\ RunOK(r)
      /\ r.kind \in {"cancel", "refund"} /\ status[o] \in RowStates
  BY KindsAssumption DEF Context, TypeOK, StoreTypeOK, Execs, RunIds, OutcomeInv
<1>2. UNCHANGED <<checked, runVars, taskVars>>
  BY DEF RunActivity
<1>3. ASSUME NEW a, Answered(e, a), a # "failed", Told(r, e.act, a)',
             \A row \in refunds' \ refunds : PayerOf(row) \in RunIds /\ MayPay(PayerOf(row))
      PROVE  OutcomeInv'
  <2> DEFINE f == [e EXCEPT !.answer = a]
  <2>1. f.run = r /\ f.act = e.act /\ f.answer = a
    BY <1>1 DEF Execs
  <2>2. MayPay(r) => MayPay(r)'
    BY <1>1, <1>2, FactsKept DEF MayPay, runVars, taskVars
  <2>3. ExecOK(f)'
    BY <1>1, <1>2, <1>3, <2>1, <2>2 DEF ExecOK, runVars
  <2>4. \A g \in execs' \ execs : ExecOK(g)'
    BY <1>3, <2>3 DEF Answered
  <2>5. \A p \in checked' \ checked : Visible(p[1], p[2])'
    BY <1>2
  <2> QED
    BY <1>2, <1>3, <2>4, <2>5, TablesStepOutcome
<1>4. \A act : Told(r, act, "error")'
  BY DEF Told
<1>5. CASE Answered(e, "error") /\ UNCHANGED storeVars
  BY <1>3, <1>4, <1>5 DEF storeVars
<1>6. CASE Cancel(e)
  <2>1. UNCHANGED refunds
    BY <1>6 DEF Cancel, CancelOrderRow
  <2>2. Visible(o, c) /\ e.act = "cancel"
    BY <1>1, <1>6 DEF Cancel, ExecOK, RunOK, CancelRunOK
  <2>3. ReasonHolds(CancelAnswer(o, c), status'[o])
    BY <1>1, <1>6, <2>2
       DEF Cancel, CancelOrderRow, CancelAnswer, CancelReason, ReasonHolds, Visible,
           Cancellable, RowStates, OrderStatuses, Context, TypeOK, StoreTypeOK
  <2>4. PICK a : a = CancelAnswer(o, c)
    OBVIOUS
  <2>5. a # "failed" /\ Told(r, e.act, a)'
    BY <2>2, <2>3, <2>4 DEF Told, CancelAnswer, CancelReason
  <2>6. Answered(e, a) \/ Answered(e, "error")
    BY <1>6, <2>4 DEF Cancel
  <2> QED
    BY <1>3, <1>4, <2>1, <2>5, <2>6
<1>7. CASE Load(e)
  <2>1. PICK a : a = IF Visible(o, c) THEN status[o] ELSE "order_not_found"
    OBVIOUS
  <2>2. e.act = "load" /\ UNCHANGED storeVars /\ (Answered(e, a) \/ Answered(e, "error"))
    BY <1>7, <2>1 DEF Load
  <2>3. a # "failed"
    BY <1>1, <2>1 DEF RowStates, OrderStatuses
  <2>4. Told(r, e.act, a)'
    BY <1>2, <2>1, <2>2 DEF Told, Visible, Cleared, storeVars, runVars
  <2> QED
    BY <1>3, <1>4, <2>2, <2>3, <2>4 DEF storeVars
<1>8. CASE Execute(e)
  <2>1. e.act = "execute" /\ MayPay(r) /\ Cleared(r) /\ r.kind = "refund"
    BY <1>1, <1>8 DEF Execute, ExecOK, MayPay
  <2>2. Visible(o, c)
    BY <2>1, RowsRefunded DEF Context, Cleared, Visible
  <2>3. CASE RefundRowsOf(o) # {}
    <3>1. UNCHANGED storeVars /\ RefundAnswer(o, c) = "already_refunded"
      BY <1>8, <2>2, <2>3 DEF Execute, RefundOrderRow, RefundAnswer
    <3>2. Told(r, e.act, "already_refunded")'
      BY <2>1, <2>3, <3>1 DEF Told, RefundRowsOf, storeVars
    <3> QED
      BY <1>3, <1>4, <1>8, <3>1, <3>2 DEF Execute, storeVars
  <2>4. CASE RefundRowsOf(o) = {}
    <3> DEFINE row == [order |-> o, writer |-> <<r, e.attempt>>]
    <3>1. status[o] = "delivered"
      BY <2>1, <2>4 DEF Cleared
    <3>2. refunds' = refunds \cup {row} /\ RefundAnswer(o, c) = "refunded"
      BY <1>8, <2>2, <2>4, <3>1 DEF Execute, RefundOrderRow, RefundAnswer
    <3>3. PayerOf(row) = r /\ row.order = o
      BY DEF PayerOf
    <3>4. Recorded(r)' /\ row \in RefundRowsOf(o)'
      BY <3>2, <3>3 DEF Recorded, RefundRowsOf, PayerOf
    <3>5. Told(r, e.act, "refunded")'
      BY <2>1, <3>4 DEF Told
    <3>6. phase[r] # "COMPLETED"
      BY <1>1, <2>1, <3>1 DEF RunOK, RefundRunOK
    <3>7. \A w \in refunds' \ refunds : PayerOf(w) = r
      BY <3>2, <3>3
    <3> QED
      BY <1>1, <1>3, <1>4, <1>8, <2>1, <3>2, <3>5, <3>6, <3>7 DEF Execute
  <2> QED
    BY <2>3, <2>4
<1> QED
  BY <1>5, <1>6, <1>7, <1>8 DEF RunActivity
\* Every step keeps OutcomeInv, and pays only for a run that may.
LEMMA OutcomeStep ==
  ASSUME Context, OutcomeInv, [Next]_vars
  PROVE  /\ OutcomeInv'
         /\ \A row \in refunds' \ refunds :
               MayPay(PayerOf(row)) /\ phase[PayerOf(row)] # "COMPLETED"
<1>1. [StoreNext]_storeVars
  BY StoreSteps DEF Context
<1>2. CASE UNCHANGED <<storeVars, checked, runVars, taskVars>> /\ execs' \subseteq execs
  BY <1>1, <1>2, TablesStepOutcome DEF storeVars
<1>3. ASSUME NEW o \in Orders, OrderSteps(o) PROVE OutcomeInv' /\ refunds' = refunds
  <2>1. refunds' = refunds /\ UNCHANGED <<checked, runVars, taskVars, execs>>
    BY <1>3 DEF OrderSteps, CreateOrderRow, Fulfil
  <2> QED
    BY <1>1, <2>1, TablesStepOutcome
<1>4. ASSUME NEW o \in Orders, NEW c \in Customers, RequestSteps(o, c)
      PROVE  OutcomeInv' /\ refunds' = refunds
  <2>1. CASE CheckCancellable(o, c)
    <3>1. \A p \in checked' \ checked : Visible(p[1], p[2])'
      BY <2>1 DEF CheckCancellable, Visible, storeVars
    <3> QED
      BY <1>1, <2>1, <3>1, TablesStepOutcome DEF CheckCancellable, storeVars
  <2>2. CASE StartCancellation(o, c)
    <3>1. Visible(o, c) /\ checked' \subseteq checked /\ UNCHANGED storeVars
      BY <2>2 DEF StartCancellation, OutcomeInv
    <3>2. PICK r \in RunIds : r.order = o /\ StartRun(r, c)
      BY <2>2 DEF StartCancellation, RunsOf
    <3> QED
      BY <3>1, <3>2, StartRunOutcome DEF storeVars
  <2>3. CASE RequestRefund(o, c)
    <3>1. PICK r \in RunIds : r.kind = "refund" /\ StartRun(r, c)
      BY <2>3 DEF RequestRefund, RunsOf
    <3>2. UNCHANGED <<storeVars, checked>>
      BY <2>3 DEF RequestRefund
    <3> QED
      BY <3>1, <3>2, StartRunOutcome DEF storeVars
  <2> QED
    BY <1>4, <2>1, <2>2, <2>3 DEF RequestSteps
<1>5. ASSUME NEW r \in RunIds, RunSteps(r) PROVE OutcomeInv' /\ refunds' = refunds
  <2>1. UNCHANGED storeVars
    BY <1>5 DEF RunSteps, BeginRun, Dispatch, AttemptTimeout, AfterCancel, AfterLoad,
                AfterApproval, AfterRefund
  <2> QED
    BY <1>5, <2>1, RunStepsOutcome DEF storeVars
<1>6. ASSUME NEW r \in RunIds, ExecutionTimeout(r) PROVE OutcomeInv' /\ refunds' = refunds
  <2>1. /\ UNCHANGED <<storeVars, checked, phase, detail, requester, answer, execs>>
        /\ task' = [task EXCEPT ![r] = "idle"]
    BY <1>6 DEF ExecutionTimeout
  <2>2. task'[r] # "done" /\ \A s \in RunIds \ {r} : task'[s] = task[s]
    BY <2>1 DEF Context, TypeOK
  <2>3. RunOK(r)'
    BY <2>1, <2>2
       DEF OutcomeInv, RunOK, CancelRunOK, RefundRunOK, Visible, Cleared, Recorded,
           PayerOf, RefundRowsOf, storeVars
  <2>4. MayPay(r) => MayPay(r)'
    BY <2>1 DEF MayPay, Cleared, RefundRowsOf, storeVars
  <2> QED
    BY <2>1, <2>2, <2>3, <2>4, OneRunSteps DEF storeVars
<1>7. ASSUME NEW r \in RunIds, NEW v \in {"approved", "denied"}, Approve(r, v)
      PROVE  UNCHANGED <<storeVars, checked, runVars, taskVars>> /\ execs' \subseteq execs
  BY <1>7 DEF Approve
<1>8. ASSUME NEW e \in execs, Report(e) PROVE OutcomeInv' /\ refunds' = refunds
  <2>1. UNCHANGED <<storeVars, checked, runVars>> /\ execs' \subseteq execs
    BY <1>8 DEF Report
  <2>2. CASE ~Awaited(e)
    BY <1>2, <1>8, <2>1, <2>2 DEF Report, storeVars
  <2>3. CASE Awaited(e)
    <3>1. /\ e.run \in RunIds /\ e.answer \in Answers /\ ExecOK(e)
          /\ Open(e.run) /\ task[e.run] = "started" /\ e.act = ActivityIn[phase[e.run]]
      BY <2>3 DEF Awaited, OutcomeInv, Context, TypeOK, Execs
    <3>2. Told(e.run, ActivityIn[phase[e.run]], e.answer)
      BY <3>1 DEF ExecOK
    <3>3. \/ AttemptFails(e.run)
          \/ ActivityEnds(e.run, e.answer) /\ e.answer \notin {"none", "error"}
      BY <1>8, <2>3 DEF Report
    <3> QED
      BY <2>1, <3>1, <3>2, <3>3, ActivityOutcome DEF storeVars
  <2> QED
    BY <2>2, <2>3
<1>9. ASSUME NEW e \in execs, LoseExecution(e)
      PROVE  UNCHANGED <<storeVars, checked, runVars, taskVars>> /\ execs' \subseteq execs
  BY <1>9 DEF LoseExecution
<1>10. CASE UNCHANGED vars
  BY <1>2, <1>10 DEF vars, storeVars
<1> QED
  BY <1>1, <1>2, <1>3, <1>4, <1>5, <1>6, <1>7, <1>8, <1>9, <1>10, RunActivityOutcome
     DEF Next, ExecSteps, storeVars

\* The context holds always.
LEMMA ContextCorrect == Spec => []Context
<1>1. TypeOK /\ AwaitInv /\ ApprovalInv /\ LedgerConsistent => Context
  BY DEF Context
<1> QED
  BY <1>1, TypeCorrect, ApprovalCorrect, PaidAtMostOnce, PTL

\* A run that says it has ended well, or that it has found a refund, was told
\* so by the tables; see OutcomeInv.
THEOREM OutcomeCorrect == Spec => []OutcomeInv
<1>1. Init => OutcomeInv
  <2> SUFFICES ASSUME Init PROVE OutcomeInv
    OBVIOUS
  <2>1. \A r \in RunIds : RunOK(r)
    BY DEF Init, RunOK, CancelRunOK, RefundRunOK
  <2> QED
    BY <2>1 DEF Init, StoreInit, OutcomeInv
<1>2. Context /\ OutcomeInv /\ [Next]_vars => OutcomeInv'
  BY OutcomeStep
<1> QED
  BY <1>1, <1>2, ContextCorrect, PTL DEF Spec

\* What a refund run reports is what the ledger says: "completed" leaves a
\* refunded order, "refunded" a row of the run's own, "rejected" no row, and
\* only a run of the owner pays (RefundWorkflow.run, execute_refund_activity).
THEOREM ReportsMatchLedger == Spec => []OutcomeMatchesLedger
<1>1. Context /\ OutcomeInv => OutcomeMatchesLedger
  <2> SUFFICES ASSUME Context, OutcomeInv PROVE OutcomeMatchesLedger
    OBVIOUS
  <2>1. ASSUME NEW r \in RunIds, r.kind = "refund"
        PROVE  /\ phase[r] = "COMPLETED" => status[r.order] = "refunded"
               /\ detail[r] = "refunded" => \E row \in refunds : PayerOf(row) = r
    BY <2>1 DEF OutcomeInv, RunOK, RefundRunOK, Recorded
  <2>2. ASSUME NEW row \in refunds
        PROVE  /\ phase[PayerOf(row)] # "REJECTED"
               /\ requester[PayerOf(row)] = Owner[row.order]
    BY <2>2 DEF OutcomeInv, MayPay, Cleared, Context, ApprovalInv
  <2> QED
    BY <2>1, <2>2 DEF OutcomeMatchesLedger
<1> QED
  BY <1>1, OutcomeCorrect, ContextCorrect, PTL

\* A run that has paid is never told that its order cannot be refunded: its
\* retries find the row it wrote, and it fails only unheard.
THEOREM PaidRunsAreHeardOrFail == Spec => []PaidRunsNeverRefused
<1>1. OutcomeInv => PaidRunsNeverRefused
  BY DEF OutcomeInv, MayPay, PaidRunsNeverRefused
<1> QED
  BY <1>1, OutcomeCorrect, PTL

\* What a completed cancellation has told its requester stays true
\* (CancelOrderWorkflow.run, cancel_order_row).
THEOREM CancellationsStay == Spec => []CancelReportsStay
<1>1. OutcomeInv => CancelReportsStay
  BY DEF OutcomeInv, RunOK, CancelRunOK, CancelReportsStay
<1> QED
  BY <1>1, OutcomeCorrect, PTL

\* No step pays for a run that has reported success or rejection, or that
\* has not passed its checks.
THEOREM OnlyRefundingPaysHolds == Spec => OnlyRefundingPays
<1>1. Context /\ OutcomeInv /\ [Next]_vars =>
        [\A row \in refunds' \ refunds :
            phase[PayerOf(row)] \in {"REFUNDING", "FAILED"}]_vars
  BY OutcomeStep DEF MayPay
<1> QED
  BY <1>1, OutcomeCorrect, ContextCorrect, PTL DEF Spec, OnlyRefundingPays

=============================================================================
