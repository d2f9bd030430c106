--------------------------- MODULE OrderWorkflows ---------------------------
(***************************************************************************)
(* The durable side of the agent: its two order tools ask Temporal for a   *)
(* cancellation or a refund, a worker runs the workflows and their         *)
(* activities, staff answer refunds that need approval.                    *)
(*                                                                         *)
(* The state of a run is what its workflow code computes from the event    *)
(* history, and the server keeps the history: a worker crash loses the     *)
(* activity executions in its threads and nothing of a run.  An activity   *)
(* attempt that the server gave up on may still be running and may still   *)
(* commit, after the next attempt or after the run is closed.              *)
(***************************************************************************)
EXTENDS OrderStore

CONSTANTS
    MaxAttempts,   \* ACTIVITY_RETRY_POLICY.maximum_attempts, 3 in the code
    Threshold,     \* REFUND_APPROVAL_THRESHOLD, 200 in the code
    Kinds,         \* bound: the workflows in play, of "cancel" and "refund"
    MaxRuns,       \* bound: runs started under one workflow id
    MaxExecs       \* bound: activity executions in worker threads at a time

ASSUME AttemptsAssumption == MaxAttempts \in Nat \ {0}
ASSUME ThresholdAssumption == Threshold \in Nat
ASSUME KindsAssumption == Kinds \subseteq {"cancel", "refund"}
ASSUME RunsAssumption == MaxRuns \in Nat \ {0}
ASSUME ExecsAssumption == MaxExecs \in Nat \ {0}

Attempts == 1..MaxAttempts

\* A run: the workflow id "<kind>-order-<order>" and its place in the chain
\* of runs that had this id.
RunIds == [kind : Kinds, order : Orders, nth : 1..MaxRuns]

\* A refund row is written by one attempt of a run's execute activity.
ASSUME WritersAssumption == RunIds \X Attempts \subseteq Writers

VARIABLES
    checked,     \* cancel_order calls between their check and their start
    phase,       \* status in a run's _state; "none" before it is started
    detail,      \* result or reason in a run's _state
    closed,      \* runs the server has closed, by whatever cause
    requester,   \* requested_by in a run's input
    approval,    \* the _approval of a run
    heard,       \* every answer ever signalled to a run
    task,        \* the server's view of a run's current activity
    attempt,     \* the attempt number of that activity
    answer,      \* how that activity ended
    execs        \* activity executions in worker threads

runVars == <<phase, detail, closed, requester>>
signalVars == <<approval, heard>>
taskVars == <<task, attempt, answer>>
vars == <<storeVars, checked, runVars, signalVars, taskVars, execs>>

Phases == {"none", "STARTED", "CANCELLING", "CHECKING_ORDER",
           "WAITING_FOR_APPROVAL", "REFUNDING",
           "COMPLETED", "REJECTED", "FAILED"}
Final == {"COMPLETED", "REJECTED", "FAILED"}

\* The activity a run awaits in a phase.
ActivityIn == [CANCELLING |-> "cancel", CHECKING_ORDER |-> "load",
               REFUNDING |-> "execute"]

Refusals == {"order_not_found", "order_not_delivered"}
Answers == RowStates \cup Refusals \cup
           {"already_refunded", "already_cancelled", "delivered_order",
            "refunded_order", "approval_denied", "error", "failed", "none"}

Execs == [run : RunIds, act : {"cancel", "load", "execute"},
          attempt : Attempts, answer : Answers]

Open(r) == phase[r] # "none" /\ ~closed[r]

Init ==
    /\ StoreInit
    /\ checked = {}
    /\ phase = [r \in RunIds |-> "none"]
    /\ detail = [r \in RunIds |-> "none"]
    /\ closed = [r \in RunIds |-> FALSE]
    /\ requester = [r \in RunIds |-> "nobody"]
    /\ approval = [r \in RunIds |-> "none"]
    /\ heard = [r \in RunIds |-> {}]
    /\ task = [r \in RunIds |-> "idle"]
    /\ attempt = [r \in RunIds |-> 1]
    /\ answer = [r \in RunIds |-> "none"]
    /\ execs = {}

-----------------------------------------------------------------------------
(* The tools of the agent (app/agent_graph.py) and _start_workflow.        *)

SameId(r, s) == r.kind = s.kind /\ r.order = s.order

RunsOf(kind, o) == {r \in RunIds : r.kind = kind /\ r.order = o}

\* ALLOW_DUPLICATE and USE_EXISTING: while a run of the id is open the request
\* joins it, whoever asked; otherwise the next run of the id is started.
StartRun(r, c) ==
    IF \E s \in RunIds : SameId(r, s) /\ Open(s)
    THEN UNCHANGED <<runVars, signalVars, taskVars, execs>>
    ELSE /\ phase[r] = "none"
         /\ \A s \in RunIds : SameId(r, s) /\ s.nth < r.nth => phase[s] # "none"
         /\ phase' = [phase EXCEPT ![r] = "STARTED"]
         /\ requester' = [requester EXCEPT ![r] = c]
         /\ UNCHANGED <<detail, closed, signalVars, taskVars, execs>>

\* Mistake: the check does not filter on the customer.
CheckAnyCustomer(o, c) ==
    /\ status[o] \in Cancellable
    /\ checked' = checked \cup {<<o, c>>}
    /\ UNCHANGED <<storeVars, runVars, signalVars, taskVars, execs>>

\* cancel_order, first half: the customer sees the order and it can be
\* cancelled right now; otherwise the tool answers without starting a run.
CheckCancellable(o, c) ==
    /\ Visible(o, c)
    /\ status[o] \in Cancellable
    /\ checked' = checked \cup {<<o, c>>}
    /\ UNCHANGED <<storeVars, runVars, signalVars, taskVars, execs>>

\* cancel_order, second half: start_cancellation, on what the check saw.
StartCancellation(o, c) ==
    /\ <<o, c>> \in checked
    /\ checked' = checked \ {<<o, c>>}
    /\ \E r \in RunsOf("cancel", o) : StartRun(r, c)
    /\ UNCHANGED storeVars

\* request_refund: starts a run for any order number the customer names.
RequestRefund(o, c) ==
    /\ \E r \in RunsOf("refund", o) : StartRun(r, c)
    /\ UNCHANGED <<storeVars, checked>>

-----------------------------------------------------------------------------
(* The server's side of an activity: retries and timeouts.                 *)

ScheduleActivity(r) ==
    /\ task' = [task EXCEPT ![r] = "scheduled"]
    /\ attempt' = [attempt EXCEPT ![r] = 1]
    /\ answer' = [answer EXCEPT ![r] = "none"]

ActivityEnds(r, a) ==
    /\ task' = [task EXCEPT ![r] = "done"]
    /\ answer' = [answer EXCEPT ![r] = a]
    /\ UNCHANGED attempt

\* Mistake: one attempt too many.
AttemptFailsOneMore(r) ==
    IF attempt[r] <= MaxAttempts
    THEN /\ task' = [task EXCEPT ![r] = "scheduled"]
         /\ attempt' = [attempt EXCEPT ![r] = @ + 1]
         /\ UNCHANGED answer
    ELSE ActivityEnds(r, "failed")

\* Mistake: no maximum_attempts, the activity is retried for ever.
AttemptFailsForEver(r) ==
    /\ task' = [task EXCEPT ![r] = "scheduled"]
    /\ UNCHANGED <<attempt, answer>>

\* A failed or overdue attempt is tried again until the attempts run out.
AttemptFails(r) ==
    IF attempt[r] < MaxAttempts
    THEN /\ task' = [task EXCEPT ![r] = "scheduled"]
         /\ attempt' = [attempt EXCEPT ![r] = @ + 1]
         /\ UNCHANGED answer
    ELSE ActivityEnds(r, "failed")

\* A worker thread takes the scheduled attempt.
Dispatch(r) ==
    /\ Open(r) /\ task[r] = "scheduled"
    /\ Cardinality(execs) < MaxExecs
    /\ task' = [task EXCEPT ![r] = "started"]
    /\ execs' = execs \cup {[run |-> r, act |-> ActivityIn[phase[r]],
                             attempt |-> attempt[r], answer |-> "none"]}
    /\ UNCHANGED <<storeVars, checked, runVars, signalVars, attempt, answer>>

\* start_to_close_timeout: the attempt is given up, its execution goes on.
AttemptTimeout(r) ==
    /\ Open(r) /\ task[r] = "started"
    /\ AttemptFails(r)
    /\ UNCHANGED <<storeVars, checked, runVars, signalVars, execs>>

-----------------------------------------------------------------------------
(* The activities, each one database transaction.                          *)

Answered(e, a) == execs' = (execs \ {e}) \cup {[e EXCEPT !.answer = a]}

\* cancel_order_activity
Cancel(e) ==
    /\ e.act = "cancel"
    /\ CancelOrderRow(e.run.order, requester[e.run])
    /\ \/ Answered(e, CancelAnswer(e.run.order, requester[e.run]))
       \/ Answered(e, "error")

\* load_refund_order_activity; a missing order is a non-retryable error.
Load(e) ==
    /\ e.act = "load"
    /\ LET o == e.run.order IN
           \/ Answered(e, IF Visible(o, requester[e.run])
                          THEN status[o] ELSE "order_not_found")
           \/ Answered(e, "error")
    /\ UNCHANGED storeVars

\* execute_refund_activity; the refusals are non-retryable errors.
Execute(e) ==
    /\ e.act = "execute"
    /\ RefundOrderRow(e.run.order, requester[e.run], <<e.run, e.attempt>>)
    /\ \/ Answered(e, RefundAnswer(e.run.order, requester[e.run]))
       \/ Answered(e, "error")

\* The thread reaches the database: its transaction commits, and the answer
\* is known or the connection is lost before it; or it is rolled back.
RunActivity(e) ==
    /\ e.answer = "none"
    /\ \/ Cancel(e) \/ Load(e) \/ Execute(e)
       \/ Answered(e, "error") /\ UNCHANGED storeVars
    /\ UNCHANGED <<checked, runVars, signalVars, taskVars>>

\* The server takes an answer from the attempt it waits for, and no other.
Awaited(e) ==
    /\ Open(e.run) /\ task[e.run] = "started"
    /\ e.act = ActivityIn[phase[e.run]]
    /\ e.attempt = attempt[e.run]

Report(e) ==
    /\ e.answer # "none"
    /\ execs' = execs \ {e}
    /\ IF ~Awaited(e) THEN UNCHANGED taskVars
       ELSE IF e.answer = "error" THEN AttemptFails(e.run)
       ELSE ActivityEnds(e.run, e.answer)
    /\ UNCHANGED <<storeVars, checked, runVars, signalVars>>

\* The worker dies with the execution in one of its threads: before, or
\* after the commit and before the report.
LoseExecution(e) ==
    /\ execs' = execs \ {e}
    /\ UNCHANGED <<storeVars, checked, runVars, signalVars, taskVars>>

-----------------------------------------------------------------------------
(* The workflow code, from one await to the next.                          *)

Enter(r, p) ==
    /\ phase' = [phase EXCEPT ![r] = p]
    /\ UNCHANGED <<detail, closed, requester>>

Finish(r, p, why) ==
    /\ phase' = [phase EXCEPT ![r] = p]
    /\ detail' = [detail EXCEPT ![r] = why]
    /\ closed' = [closed EXCEPT ![r] = TRUE]
    /\ task' = [task EXCEPT ![r] = "idle"]
    /\ attempt' = [attempt EXCEPT ![r] = 1]
    /\ UNCHANGED <<requester, answer>>

\* The first workflow task of a run: both workflows go to their first await.
BeginRun(r) ==
    /\ Open(r) /\ phase[r] = "STARTED"
    /\ Enter(r, IF r.kind = "cancel" THEN "CANCELLING" ELSE "CHECKING_ORDER")
    /\ ScheduleActivity(r)
    /\ UNCHANGED <<storeVars, checked, signalVars, execs>>

\* CancelOrderWorkflow.run after its activity.
AfterCancel(r) ==
    /\ Open(r) /\ phase[r] = "CANCELLING" /\ task[r] = "done"
    /\ IF answer[r] = "failed" THEN Finish(r, "FAILED", "none")
                               ELSE Finish(r, "COMPLETED", answer[r])
    /\ UNCHANGED <<storeVars, checked, signalVars, execs>>

StartRefunding(r) == Enter(r, "REFUNDING") /\ ScheduleActivity(r)

\* Mistake: any signal lets the refund through.
DecideOnAnySignal(r) == StartRefunding(r)

\* The approval that counts is the last one signalled before this task.
Decide(r) ==
    IF approval[r] = "approved" THEN StartRefunding(r)
                                ELSE Finish(r, "REJECTED", "approval_denied")

NeedsApproval(o) == Total[o] > Threshold

\* RefundWorkflow.run after load_refund_order_activity.  wait_condition goes
\* straight on when an approval is already there.
AfterLoad(r) ==
    /\ Open(r) /\ phase[r] = "CHECKING_ORDER" /\ task[r] = "done"
    /\ CASE answer[r] \in {"failed", "order_not_found"} ->
                Finish(r, "FAILED", "none")
         [] answer[r] = "refunded" ->
                Finish(r, "COMPLETED", "already_refunded")
         [] answer[r] = "delivered" /\ ~NeedsApproval(r.order) ->
                StartRefunding(r)
         [] answer[r] = "delivered" /\ NeedsApproval(r.order) ->
                IF approval[r] # "none"
                THEN Decide(r)
                ELSE /\ Enter(r, "WAITING_FOR_APPROVAL")
                     /\ task' = [task EXCEPT ![r] = "idle"]
                     /\ attempt' = [attempt EXCEPT ![r] = 1]
                     /\ UNCHANGED answer
         [] OTHER ->
                Finish(r, "REJECTED", "order_not_delivered")
    /\ UNCHANGED <<storeVars, checked, signalVars, execs>>

\* RefundWorkflow.run after its wait_condition.
AfterApproval(r) ==
    /\ Open(r) /\ phase[r] = "WAITING_FOR_APPROVAL"
    /\ approval[r] # "none"
    /\ Decide(r)
    /\ UNCHANGED <<storeVars, checked, signalVars, execs>>

\* Mistake: the failure of the activity is swallowed.
AfterRefundSwallows(r) ==
    /\ Open(r) /\ phase[r] = "REFUNDING" /\ task[r] = "done"
    /\ Finish(r, "COMPLETED", answer[r])
    /\ UNCHANGED <<storeVars, checked, signalVars, execs>>

\* RefundWorkflow.run after execute_refund_activity.
AfterRefund(r) ==
    /\ Open(r) /\ phase[r] = "REFUNDING" /\ task[r] = "done"
    /\ IF answer[r] \in {"failed"} \cup Refusals
       THEN Finish(r, "FAILED", "none") ELSE Finish(r, "COMPLETED", answer[r])
    /\ UNCHANGED <<storeVars, checked, signalVars, execs>>

\* approve_refund: staff signal the open run of a refund's workflow id, at
\* any time, whatever they saw before; a signal to a closed run is refused.
Approve(r, v) ==
    /\ r.kind = "refund" /\ Open(r)
    /\ approval' = [approval EXCEPT ![r] = v]
    /\ heard' = [heard EXCEPT ![r] = @ \cup {v}]
    /\ UNCHANGED <<storeVars, checked, runVars, taskVars, execs>>

\* execution_timeout: the server closes the run and its code never knows,
\* so the status query keeps the last phase.
ExecutionTimeout(r) ==
    /\ Open(r)
    /\ closed' = [closed EXCEPT ![r] = TRUE]
    /\ task' = [task EXCEPT ![r] = "idle"]
    /\ attempt' = [attempt EXCEPT ![r] = 1]
    /\ UNCHANGED <<storeVars, checked, phase, detail, requester, signalVars,
                   answer, execs>>

-----------------------------------------------------------------------------
OrderSteps(o) ==
    /\ CreateOrderRow(o) \/ Fulfil(o)
    /\ UNCHANGED <<checked, runVars, signalVars, taskVars, execs>>

RequestSteps(o, c) ==
    CheckCancellable(o, c) \/ StartCancellation(o, c) \/ RequestRefund(o, c)

\* What the server and the workflow code do with a run of their own accord.
RunSteps(r) ==
    \/ BeginRun(r) \/ Dispatch(r) \/ AttemptTimeout(r)
    \/ AfterCancel(r) \/ AfterLoad(r) \/ AfterApproval(r) \/ AfterRefund(r)

ExecSteps(e) == RunActivity(e) \/ Report(e) \/ LoseExecution(e)

Next ==
    \/ \E o \in Orders :
          OrderSteps(o) \/ \E c \in Customers : RequestSteps(o, c)
    \/ \E r \in RunIds :
          \/ RunSteps(r) \/ ExecutionTimeout(r)
          \/ \E v \in {"approved", "denied"} : Approve(r, v)
    \/ \E e \in execs : ExecSteps(e)

Spec == Init /\ [][Next]_vars

\* The server retries, times out and hands out work as long as it runs, and
\* a database call returns (statement_timeout) or its thread dies.
Fairness ==
    /\ \A r \in RunIds : WF_vars(RunSteps(r))
    /\ WF_vars(\E e \in execs : RunActivity(e) \/ Report(e))

FairSpec == Spec /\ Fairness

-----------------------------------------------------------------------------
\* The variables stay in their types.
TypeOK ==
    /\ StoreTypeOK
    /\ checked \subseteq Orders \X Customers
    /\ phase \in [RunIds -> Phases]
    /\ detail \in [RunIds -> Answers]
    /\ closed \in [RunIds -> BOOLEAN]
    /\ requester \in [RunIds -> Customers \cup {"nobody"}]
    /\ approval \in [RunIds -> {"none", "approved", "denied"}]
    /\ heard \in [RunIds -> SUBSET {"approved", "denied"}]
    /\ task \in [RunIds -> {"idle", "scheduled", "started", "done"}]
    /\ attempt \in [RunIds -> Attempts]
    /\ answer \in [RunIds -> Answers]
    /\ execs \subseteq Execs

PayerOf(row) == row.writer[1]

\* A refund above the threshold is paid only by a run to which staff said
\* yes (policies/refund-policy.md, Approval), however often the workflow id
\* is used again, attempts are retried and answers overtake one another.  A
\* yes counts for the run that hears it, whichever run staff had looked at.
ApprovedBeforeLarge ==
    \A row \in refunds :
        NeedsApproval(row.order) => "approved" \in heard[PayerOf(row)]

\* What a refund run reports is what the ledger says: a completed run leaves
\* a refunded order, a run that claims the refund wrote the row, a rejected
\* run paid nothing, and only a run asked for by the owner pays.
OutcomeMatchesLedger ==
    /\ \A r \in RunIds :
          /\ r.kind = "refund" /\ phase[r] = "COMPLETED"
                => status[r.order] = "refunded"
          /\ r.kind = "refund" /\ detail[r] = "refunded"
                => \E row \in refunds : PayerOf(row) = r
    /\ \A row \in refunds :
          /\ phase[PayerOf(row)] # "REJECTED"
          /\ requester[PayerOf(row)] = Owner[row.order]

\* A run that has paid fails only when its attempts ran out without one of
\* them being heard: its retries find their own row and report
\* already_refunded, they are never refused as order_not_delivered.
PaidRunsNeverRefused ==
    \A row \in refunds :
        phase[PayerOf(row)] = "FAILED" => answer[PayerOf(row)] = "failed"

\* What the reason of a completed cancellation says of the order's status.
ReasonHolds(why, st) ==
    \/ why \in {"cancelled", "already_cancelled"} /\ st = "cancelled"
    \/ why = "delivered_order" /\ st \in {"delivered", "refunded"}
    \/ why = "refunded_order" /\ st = "refunded"

\* A completed cancellation has told its requester how the order stands, and it
\* stands so from then on: no late attempt, refund or fulfilment makes the
\* report untrue, although the tool decided on a status it had read before.
CancelReportsStay ==
    \A r \in RunIds :
        r.kind = "cancel" /\ phase[r] = "COMPLETED"
            => ReasonHolds(detail[r], status[r.order])

\* Money moves only for a run that has passed its checks and has not
\* reported success or rejection: a late attempt of a failed run may still
\* pay, one of a completed run finds the row.
OnlyRefundingPays ==
    [][\A row \in refunds' \ refunds :
          phase[PayerOf(row)] \in {"REFUNDING", "FAILED"}]_vars

\* A run comes to an end, or stands waiting for staff who have not answered:
\* lost executions, rollbacks and unheard answers hold it up for a bounded
\* number of attempts only.
RunsSettle ==
    \A r \in RunIds :
        Open(r) ~> \/ closed[r]
                   \/ phase[r] = "WAITING_FOR_APPROVAL" /\ approval[r] = "none"
=============================================================================
