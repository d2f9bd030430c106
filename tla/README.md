# Specifications of the support agent

TLA+ specifications of the store's support agent: a FastAPI process that runs a
LangGraph agent for each chat turn, a Temporal worker that runs the refund and
cancellation workflows, the PostgreSQL tables in which orders and refunds live,
and the Angular console in the browser. The specifications are translated from the code in `src/`; the documents
(`README.md`, `policies/refund-policy.md`, comments, tests) say what it is meant
to do, and the properties are stated against them.

## The system

| Part | State | Operations | Talks to |
|---|---|---|---|
| Order tables (`app/database.py`) | `orders.status`, `refunds` rows | create, look up, cancel, refund | called by REST handlers, tools, activities |
| Order workflows (`app/temporal_workflows`, `app/temporal_service.py`) | Temporal event history; `_state`, `_approval` of a run | start, run activities, retry, approve, time out | agent tools start runs; staff signal; activities write the order tables |
| Agent graph (`app/agent_graph.py`) | `AgentState` of a turn, checkpoints in Redis | supervisor, three specialists, tool nodes, limit and invalid nodes | models via LiteLLM; tools call the tables and Temporal |
| Chat stream (`app/routes/agent.py`, `agent-chat.component.ts`, `api.service.ts`) | one response stream, one message bubble | message, error, done events | runs the graph, marks the thread active |
| Conversation memory (`app/conversation_memory.py`) | sorted set of active threads, `conversation_summaries` | touch, idle sweep, summarise, end, search | reads checkpoints, calls a model, writes PostgreSQL |
| Order intake (`initialize_database`, `create_order`) | the identity sequence of `orders`; a start-up's transaction | seed, set the sequence, create an order | every API process, old and new, on one database |
| Console store (`store.service.ts`) | order list, filters, loading and error flags | load, refresh, create | `GET /orders`, `POST /orders` |
| Authentication (`app/auth.py`, `auth.service.ts`) | token claims; the tab's session storage, the user signal | verify, scope, sign in, restore, sign out | Keycloak, `GET /me` |

What is hard about it:

* **Refunds and cancellations.** Temporal runs an activity at least once. An
  attempt that overran its timeout still runs in its thread and may commit after
  the next attempt, or after the run is closed. A worker can die between the
  commit and the report. Approval signals come early, late and more than once,
  and reach whatever run of the workflow id is open. Two requests for one order
  share a workflow id; a cancellation and a refund of one order race.
  *Correct:* an order is paid at most once, above the threshold only after a
  yes, what a run reports is what the tables say, and runs end.
* **Transactions.** The functions on orders are several statements under a row
  lock. *Correct:* they behave as one step each and never wait for each other in
  a circle.
* **Turns.** A model may answer anything; a turn can be cut off at any point,
  its checkpoints lag behind its effects, and an earlier turn's state is still
  there. *Correct:* a turn ends by itself, executes only the tools of the
  specialist that was picked, and what was said stays in the thread.
* **Streams.** The connection between browser and server can break at any time
  and the server learns of it later. Blocks of reasoning span the texts of
  several model calls. *Correct:* the customer is told the truth about each
  turn, a reply that was cut off is not taken for a whole one, and the component
  can always be used again.
* **Idle conversations.** The sweeper awaits a model between reading the set of
  idle threads and removing one. *Correct:* a quiet conversation is summarised
  in full, one that cannot be summarised holds up nobody.
* **Order numbers.** A start-up sets the identity sequence to `MAX(id)` of what
  is committed, at once and whatever its transaction does later, while another
  process draws numbers. *Correct:* the table keeps one row for a number, only
  orders in it are confirmed, and a caller who retries gets the order.
* **The console.** Lists and orders are asked for by one user under one filter
  and answered in any order, late or never; the tab changes filters, pages and
  users in between. *Correct:* what is listed may be seen by who is signed in, and
  the answer to the newest load has the orders this tab placed.
* **Sign-in.** The tab's history holds Keycloak's pages, which redirect to the
  application again when they are opened again. *Correct:* a token never gives way to another user's.

`PROJECT.json` lists every component, also the ones left out, and the hazards
with their lines and the properties that cover them.

## Modules

| Module | What it is |
|---|---|
| `OrderStore` | Abstract: each database function on an order is one atomic step on the committed rows. Variables `status`, `refunds`. |
| `OrderStoreProofs` | Theorems about it. |
| `OrderTransactions` | `cancel_order_row` and `refund_order_row` statement by statement, with row locks, the UNIQUE constraint, rollbacks. Implements `OrderStore` with the identity on `status` and `refunds`. |
| `OrderTransactionsProofs` | Its theorems, the refinement among them. |
| `OrderWorkflows` | The tools, the Temporal server's side of runs and activities, both workflows, approvals; built on `OrderStore`. |
| `OrderWorkflowsProofs` | Its theorems. |
| `AgentGraph` | One thread, its turns and its checkpoints. |
| `AgentGraphProofs` | Its theorems. |
| `ChatStream` | A chat component, its requests and `stream_llm_response` for each of them. |
| `ChatStreamProofs` | Its theorems. |
| `ConversationMemory` | Turns, the sweeper, `end_conversation` and restarts, seen from the sorted set and the summary table. |
| `ConversationMemoryProofs` | Its theorems. |
| `OrderBook` | Abstract: what `POST /orders` promises. Variables `book`, `told`. |
| `OrderIntake` | Start-ups, the sequence, and orders created under it by several processes. Implements `OrderBook` with `told` computed from the requests (`INSTANCE OrderBook WITH`). |
| `OrderIntakeProofs` | Its theorems, the refinement among them. |
| `Session` | `AuthService` in one tab, between Keycloak, the session storage and `GET /me`. |
| `Console` | `StoreService`, the order form and the API's answers, on top of `Session`. |
| `ConsoleProofs` | Theorems about the session and the console. |
| `MC...` modules and `.cfg` files | Instances for TLC. |

An operator whose comment begins with *Mistake* is a deliberately wrong variant
of the operator after it and is part of no specification. Put in its place it
makes TLC report a violation of the property `PROJECT.json` pairs it with, which
shows that the property depends on that piece of code.

### How state and actions correspond to the code

`OrderStore`. `status[o]` is `orders.status`, `"absent"` when there is no row;
`refunds` holds the rows of `refunds`, told apart by who wrote them (`Writers`).
`RefundOrderRow` and `RefundAnswer` are `refund_order_row`, what it writes and
what it returns; `CancelOrderRow` and `CancelAnswer` likewise. `Fulfil` stands
for the fulfilment the repository does not contain (its tests use
`UPDATE orders SET status`) and only moves an order forward.

`OrderTransactions`. `pc[s]` is the next statement of a call, `lock` the row
locks, `seen` what the `SELECT .. FOR UPDATE` returned. What a call has written
and not committed is read off its `pc` and `answer`. `Abort` is any exception or
lost connection. `InsertRefund` waits for another call's uncommitted row and
rolls back on a committed one, as the UNIQUE index does, although the proof shows
that neither happens.

`OrderWorkflows`. A run is a workflow id and its place in the chain of runs of
that id. `phase` and `detail` are its `_state`, `closed` what the server knows.
One action of a run is the workflow code from one `await` to the next; it is
atomic because the SDK runs a workflow task to its next block, and it survives a
worker because it is recomputed from the history. `task`, `attempt` and `answer`
are the server's view of the current activity. `execs` are the executions in
worker threads; they outlive the attempt (`AttemptTimeout`) and the run
(`ExecutionTimeout`), `LoseExecution` is a dead worker, and `Report` is
ignored unless the server waits for that very attempt. The agent's two tools are
`CheckCancellable` followed by `StartCancellation`, with anything in between, and
`RequestRefund`.

`AgentGraph`. `state[t]` is the `AgentState` of a turn, `node[t]` the node it
runs next, `saved` the newest checkpoint. A history entry is a message; the
`ToolMessage`s of one tool node are one entry. A checkpoint is queued with each
superstep (`puts`) and written later (`Put`): LangGraph writes it while the
next node runs, and waits for the writes when the run returns or raises.
`Lose` is a disconnect or a dead process. `ran` records which tools really
executed, `overlapped` which turns ran at the same time; the program has
neither variable. The model's answers are free: text, any set of tool calls
whatever it was bound to, or an unparsable call, possibly beside valid ones. Calls
that a turn leaves without answers stay in the thread, and later turns send them
to their models: `OpenCallsAreOfCutTurns` says whose they can be,
`GapsOnlyWhereCutShort` what stands behind them.

`ChatStream`. `server[r]` is where `stream_llm_response` is in request `r`,
`parts[r]` its `response_parts`, `out[r]` what it decided to emit; `frames[r]` is
the wire, `cut` the broken connections, `reader[r]` where `streamAgent` and the
component's callbacks are, `pending` the signal of that name and `role`, `text`,
`streaming` the reply bubble. A text is a sequence of pieces: harmless words,
something `validate_output` refuses, reasoning, and the two tags; the texts of a
turn's model calls are joined, and `Shown` is what `strip_reasoning` leaves of
them. The graph is free to say anything, to
return or to raise; `AgentGraph` shows that it ends. A request that is refused
never starts a server turn; `Fallback` is the component's answer to a 404. A
dropped connection makes the browser's read reject (`ReadFails`) and cancels the
server task some time later (`Cancelled`): the response has no length, so the
browser can tell a cut from an end.

`ConversationMemory`. `marker[c]` is the thread's member of the sorted set,
`"idle"` once its score is past the cutoff; `saved[c]` counts the messages that
were ever checkpointed, of which the first `gone[c]` have expired, and
`covered[c]` is the message up to which the stored summary goes. The sweeper's
loop is split at its awaits: `FindIdle`, `ReadThread`, `Summarise`,
`DropMarker`; `SweepFails` is an exception that ends the whole sweep. `missed`
records that the sweeper gave a thread up or raced a turn of it; the program has
no such variable.

`OrderIntake`. `book` is the committed `orders` rows, a row being its number and
its origin; `added[p]` the seeds a start-up has inserted and not committed,
`high[p]` the maximum it has read. `sequence` is the identity sequence: `Draw`
(nextval) and `SetSequence` (setval) change it for everybody at once and for
good. `Seed`, `ReadMax`, `SetSequence`, `Serve` are the end of
`initialize_database` and the start of serving; `Draw`, `Insert`, `Commit`,
`Answer` are `create_order`. `Stop` is a crash or the end of an old pod: the
deployment names no strategy, so the new pod starts while the old one serves.
`overlapped` records that a start-up and a creation were under way together.

`Session`. `page` is where the tab is in loading a page, `token` and `user` the
signals (`token` is also what the session storage holds), `stored` the sign-in
whose state and verifier are in the session storage. `Logout` clears the session
on the page that is shown; the page with its rows stays until the browser has gone
to Keycloak (`Unload`). `Return(n)` is the page
with Keycloak's response to sign-in `n`, loaded for the first time or again.

`Console`. `filter`, `loading`, `failed` (the error signal) are signals; the signal `orders` is `listed`, the
rows of the last answer, together with `added`, the created orders put in front of
it: kept apart so that an order that is there twice is seen. `loads` and `posts`
are the requests in flight with the token the interceptor gave them; the API
answers one from `book` at some moment (`ServeLoad`, `ServePost`) and the browser
hands the answer over at a later one (`Loaded`, `Created`), or an error takes its
place. `Leave` is the end of a page: sign-in, sign-out, reload; the services and
their requests do not outlive it. `Refresh` is the button that is disabled while
loading and the Retry button, which is there as long as the error is. `current`,
`told` and `crossed` are history for the properties.

## Runs

| Run | Question | Bounds |
|---|---|---|
| `order_transactions` | Do the statements keep the atomic promise? `InsertNeverConflicts`, `AnswersHold`, `StoreSpec` | One order, three concurrent calls, either caller being its owner or not; the order missing, delivered, or refunded before. Calls restart without end. |
| `refund_reruns` | Is money paid once, and with approval, and do runs end? `LedgerConsistent`, `ApprovedBeforeLarge`, `OnlyRefundingPays`, and `RunsSettle` under `FairSpec` | One delivered order above the threshold, two runs of its workflow id, two attempts, two executions at a time. |
| `order_actions` | Does what runs report agree with the tables, and stay so? `TypeOK`, `OutcomeMatchesLedger`, `PaidRunsNeverRefused`, `CancelReportsStay` | One order exactly at the threshold, a cancel and a refund run, two customers, order created, fulfilled or refunded before. |
| `agent_turn` | Does a turn end, and not by the recursion limit? `WithinRecursionLimit`, `TurnsEnd` under `FairSpec` | One turn, the code's limit of three model calls, two specialists with a tool each. |
| `agent_history` | What do tools, limit and history do over turns? `LimitIsSpent`, `OnlyPickedTools`, `OpenCallsAreOfCutTurns`, `GapsOnlyWhereCutShort`, `FinishedTurnsAreKept` | Two turns, in sequence or overlapping, limit of two, two specialists with a tool each. |
| `chat_stream` | Is the customer told the truth, is a reply whole, can the component go on? `ErrorsAreShown`, `RepliesAreWhole`, `PendingIsOneReply`, `OverlapOnlyAfterCut`, and `SendSettles` under `FairSpec` | Two messages, up to three pieces of text in the first turn, one in the second. |
| `reasoning_hidden` | Expected to fail: is the reasoning of a model kept from the customer? `ReasoningIsHidden` | One message, up to three pieces of text. |
| `conversation_memory` | Are quiet conversations closed in full, do markers drain, is what expires in a summary? `QuietClosedInFull`, `ExpiredIsCovered`, `MarkersDrain` under `FairSpec` | Two conversations, one that can never be summarised, two turns each, one restart or failure of Redis. |
| `idle_is_summarised` | Expected to fail: is every idle conversation summarised? `IdleIsSummarised` | One conversation, two turns, no failure, no restart. |
| `order_intake` | Does the table keep its promise while the sequence is set back, and do orders go through? `CollisionNeedsOverlap`, `BookSpec`, `OrdersGoThrough` under `FairSpec` | Two processes, two starts, two requests that are retried, one abort or lost answer, one seed, numbers up to seven. |
| `console` | Does the page show what it should to whom it should, and does it settle? `RowsBelongToSession`, `ListKeepsUp`, `SessionIsOneUser`, `Settles` under `FairSpec` | A customer and a member of staff, two customers, two sign-ins, two filters, a limit of one, two loads and two orders in flight, two rows. |
| `half_signed_in` | Expected to fail: does a rendered page know the user of its token? `NeverHalfSignedIn` | Two users, two sign-ins. |

Why the bounds are enough to be interesting. Orders do not interact: every
action reads and writes one order, so one order at a time loses nothing but
state. Two executions are what it takes for a late attempt to race the current
one, and two runs for a late attempt to race another run; two attempts contain
the retry, its exhaustion and a late first attempt (the code has three). Refunds
of an order that is not delivered yet are in `order_actions`. Two turns give an
earlier and a later turn, or an overlap; `SYMMETRY` is used only where no
temporal property is checked. In `agent_history` it exchanges turns, and
specialists together with their tools. Where a theorem covers a property, the bounds
matter to nothing but the run.

Two processes and two starts are what it takes for a start-up to set the sequence
back under a creation of the other process; seven numbers are more than the two
requests can use with the retries that one fault and two starts allow, so the
bound refuses none. In the console, a limit of one cuts as soon as a user may see
two rows; two loads can overtake each other and two
posts can be answered in either order. Users differ in role and customer, and one
tab sees both. Three pieces of text let a first text leave a block open and a
second go on in it, and are the longest single text.

Deadlock is not checked where the system may really stop: all runs of an id used
up and the order settled, the thread's turns over, the conversations ended, the orders placed, the sign-ins
used up, no message left to type.

### What `idle_is_summarised` shows

`.env.example` says that a conversation with no new turns for the idle time is
summarised and closed by the sweeper. The sweeper lists idle threads, awaits a
summary, then removes the marker whatever its score is by then
(`conversation_memory.py:171`). A turn in between sets a fresh marker, which the
removal takes away: no later sweep sees the thread, and the messages of that turn
are in no summary unless the customer writes again or ends the conversation
explicitly. `QuietClosedInFull` says what does hold: a marker that is still
idle when it is dropped leaves a summary of everything, unless that attempt
itself failed.

### What `half_signed_in` shows

`app.config.ts` says that components never see a half-signed-in state.
`initialize` hands every page with a code in its address to `completeLogin`,
which returns at once when the response is not the one that is waited for
(`auth.service.ts:177`), without restoring a session that is in the session
storage. A user who signs in and then goes back to Keycloak's page in the tab's
history is redirected once more, with the old state, and gets a page with a
token, without name, roles or customer, until the next reload. `SessionIsOneUser` says what holds: the token
stays that of one user.

### What `reasoning_hidden` shows

The comment above `strip_reasoning` calls it a second line of defence: reasoning
that a model emits all the same must not be shown to a customer. The function
removes blocks with both tags and blocks without an end. A model whose chat
template opens the block in the prompt emits the closing tag only; its reasoning
stays in the answer, together with the tag. What is refused by `validate_output` is
still refused there, since the check runs on what is left.

### What the console does not promise

The list is the answer to whichever load is answered last
(`store.service.ts:176`). When the filter is changed with a load in flight and the
older load is answered after the newer, the page shows the rows of the old filter
under the new one until the next load. `ListKeepsUp` says nothing of such a list
(`current`), and no property claims that a list is for the filters shown.

`ListKeepsUp` also leaves out a list whose load was in flight together with the POST of
an order. Then the order can be missing, when the load was read before the commit
and answered after the creation, or be listed twice, when it was read after the
commit and answered before. Both last until the next load. A list is also capped by
`ORDER BY o.id LIMIT`, which keeps the oldest orders.

## Fairness and timing assumptions

* `OrderWorkflows!FairSpec`: the server keeps dispatching, retrying and timing
  out the activities of each run, and a worker keeps running (`WF` of each run's
  own steps); a database call in a thread returns, since connections carry a
  `statement_timeout`, and its answer is reported or its thread dies. No fairness
  on requests, on staff, on fulfilment, on `LoseExecution` or on
  `ExecutionTimeout`: `RunsSettle` does not lean on the seven-day timeout.
* `AgentGraph!FairSpec`: a running turn goes on. LiteLLM gives a model call 60
  seconds and one retry (`k8s/litellm.yaml:119-120`), the client as long for each
  chunk, so a call ends, with an answer or an error; a disconnect is not forced.
* `ChatStream!FairSpec`: a server turn goes on (models time out), a request is
  answered or refused, and a broken connection is reported to the browser. A
  connection that stays silent for ever without breaking is outside the
  assumption: `streamAgent` has no timeout of its own.
* `ConversationMemory!FairSpec`: the sweep loop runs, turns and calls finish,
  and time passes. `Idle` assumes that when `CONVERSATION_IDLE_SECONDS` (300 by
  default) have gone by since the last touch, the turn and the sweeper's work on
  the thread are over, and an `end_conversation` still in flight was called after
  the turn. The gateway ends requests under `/agent` after 300 seconds
  (`k8s/app.yaml:231`), which is what bounds a turn; the 60 seconds of a model call
  are per chunk, and retried, and do not. For the sweeper, for callers that come
  past the gateway, and for a handler that goes on after its request was ended, it
  is an assumption that nothing in the code enforces. Without it a slow
  `end_conversation` could replace the sweeper's summary by an older one.
* `ConversationMemory`: `Expire` assumes that the sweeper has taken the thread's
  marker within the three days of the checkpoint's life. A sweeper that fails for
  that long would let a conversation expire without a summary.
* `OrderIntake!FairSpec`: Kubernetes starts a process that is down, a start-up
  and a handler that nothing interrupts run to their end, and the caller sends a
  request that failed again. `Stop`'s guard says that the process that is stopped
  is not the last that can serve. No fairness on `Stop`, faults or `Reject`.
* `Console!FairSpec`: the browser ends every request, with the answer or with an
  error. No fairness on the user, the API or the session.

## Proofs

The theorems hold for every value of the constants under the named assumptions:
`Owner` and `Total` are functions on `Orders`, `MaxAttempts`, `MaxRuns`,
`MaxExecs` and `MaxIterations` are positive, each attempt of a run is a writer of
its own, `ToolsOf` maps specialists to sets of tools, and the two reserved words
`"invalid"` and `"none"` are no specialists. `Seeds` is a non-empty set of order numbers, `"seed"` is no
request, `NoOne` is no user, `CustomerOf` maps users to customers or `NoOne`, and
the orders table is finite at first and numbered from one, as the seeds of
`database.py` are. The limits of `GET /orders` have a greatest one (`le=200` in
`main.py`).

* `OrderStoreProofs`: `StoreTypeCorrect`, `LedgerCorrect`. The ledger invariant
  is inductive together with the types: a row is written only when there is none
  and the order is delivered, and a refunded order is never moved on.
* `OrderTransactionsProofs`: `TypeCorrect`, `NoConflict`, `AnswersCorrect`,
  `Refinement`. The inductive invariant `CallInv` says that a call past its
  SELECT holds the row lock of its order and that what it saw is still the
  committed status, that a call about to insert has seen a delivered order
  without a row, and that the answer of a call about to write is the one its
  writes belong to. It follows that no insert conflicts, that answers hold, and
  that a commit is exactly one step of `OrderStore`; every other statement is a
  stutter. Without the lock part the refinement is false.
* `OrderWorkflowsProofs`: `TypeCorrect`, `WorkflowsImplementStore`,
  `PaidAtMostOnce`, `LargeRefundsApproved`. That the workflows
  use the store only through its steps gives `PaidAtMostOnce` from
  `LedgerCorrect`. `LargeRefundsApproved` needs that an *execution* of the
  refund activity, not only the run, remembers that its run heard a yes: an
  execution can outlive the phase it was started in. The invariant therefore
  speaks of the executions in `execs`.
  `OutcomeCorrect` carries what the outcome properties need: each *answer* that is
  more than a failure, whether an execution still has it, the server has taken it
  or the run has made it its `detail`, tells something of the tables (`Told`), and
  `StoreOnlyAdvances` of `OrderStoreProofs` says that such facts are never taken
  back. The properties are not inductive by themselves: that a paid run is never
  refused needs that whoever may still write a row (`MayPay`: the run of an
  execution of the refund activity, the payer of a row) passed its checks as the
  owner and has not been rejected, also when the run was closed long before.
  `ReportsMatchLedger`, `PaidRunsAreHeardOrFail`, `CancellationsStay` and
  `OnlyRefundingPaysHolds` follow.
* `AgentGraphProofs`: `TypeCorrect`, `TerminationIsStructural`,
  `LimitAfterAllCalls`, `CapabilityIsBound`. `StepsInv` ties the supersteps of a
  turn to its iteration count at each node; `PickInv` ties the specialist's node
  pair to this turn's pick.
  `OnlyCutTurnsLeaveCalls`, `GapsAreExplained` and `ReturnedTurnsStay` come from
  `HistoryInv`, which speaks of all versions of the thread's history at once: the
  checkpoint in Redis, what each turn computes with, and each checkpoint that is
  still to be written, since a late write makes any of them the thread. A step adds
  one version, an existing one or one with one more message (`GoOnHistory`, which the
  lemmas of the single nodes use). `GapInv` says that every version is free of
  unexplained gaps, for which a starting turn must be new to all of them
  (`FreshInv`) and a turn must stand where its last message fits its node
  (`WorkInv`). `KeptInv` says that whatever may yet be written begins with the
  turns that have returned; it needs that a turn which is alone finds in Redis, at
  the latest when its writes are done, what it computes with (`PutsInv`).
  `SettledInv` says that a turn settles its calls before it returns, and that of a
  turn which returned alone no version, also none still to be written, holds a call
  without its answers or the apology (`Settled`); the turns that are left were cut
  or overlapped.
* `ChatStreamProofs`: `TypeCorrect`, `FinishedRepliesAreWhole`, `FailuresAreTold`,
  `OneReplyAtATime`, `OverlapNeedsACut`, all from `IInv`. The part that matters
  for `FailuresAreTold` is `ErrorGoesFirst`: as long as a failed turn can still
  be read, its error is ahead of "done" on the wire, or the wire is empty and
  the connection broken. `OverlapNeedsACut` rests on `OneAfterTheOther` and on
  `EndIsKnown`: a request that is over for the component while its server turn
  still runs was cut. `FinishedRepliesAreWhole` needs to know what is on the wire of
  a bubble that is still empty (`WholeReply`).
* `ConversationMemoryProofs`: `ClosedInFull`, `SummarySurvives`. A thread is
  settled when no turn of it is in flight and an `end_conversation` in flight has
  read all of it. An idle marker means settled, and what the sweeper has read or
  stored of the thread is all of it (`IdleInv`); no marker and not missed means
  settled and covered (`ClosedInv`), which also needs that only the sweeper takes
  markers (`SweepInv`). `missed` cannot be dropped: that is the finding of
  `idle_is_summarised`.
* `OrderIntakeProofs`: `TypeCorrect`, `IntakeImplementsBook`, `NumbersAreFresh`.
  `SeedInv` (what a start-up has added, and that the seeds are in before anybody
  serves) and `RowInv` (a row that waits for its commit has its number for itself)
  carry the refinement: a commit is one `Place`, a start-up's commit one `Stock`,
  an answer one `Tell`, everything else a stutter, wherever the sequence points.
  `FreshInv` holds as long as nothing has overlapped: the sequence is at or above
  every number that is committed or drawn. It is what makes collisions impossible
  then, and it is false afterwards.
* `ConsoleProofs`: `OneUserPerSession`, `RowsAreScoped`, `ListHasToldOrders`. The
  session part: who holds a token has no sign-in stored, so a return completes
  nothing. The store part: nothing is in flight unless a page is shown; on a page,
  requests were made with the present token and answers may be seen by it, or
  nobody is signed in any more (after `Logout`, until the page is left),
  because users change only between pages. For the list, `CurrentInv` follows the
  newest load from its request on: while nothing has crossed it there is no order
  in flight, so what the tab was told of is in the table when the load is served
  and in its rows when it is answered; and orders created later are new to the
  table (`RowsInv`), hence to the list. `ListingShrinks` is the lemma about
  `ORDER BY o.id LIMIT` it rests on: an order within the limit has been within it
  since it was created.

Every safety invariant and action property of the runs that pass is stated by a
theorem. Only model-checked are the liveness properties (`RunsSettle`, `TurnsEnd`,
`SendSettles`, `MarkersDrain`, `OrdersGoThrough`, `Settles`): proofs of liveness
under fairness and of `ENABLED` are out of the proof system's reach, as are
induction over data and recursive operators, which no module here uses. The three
properties that are expected to fail have no theorem; `QuietClosedInFull` and
`SessionIsOneUser` say what holds instead of two of them, and are proved.

## What is left out

* Vector search, the status query, the catalogue and health endpoints: they only
  read. `user_memories` is one upsert per key.
* The contents of messages, summaries, preferences and guardrail patterns.
* Verification of a token and the key set, which a library does, and the role
  guards of single routes.
* Two `end_conversation` calls for one thread at a time.
* `CREATE TABLE IF NOT EXISTS` of two first start-ups at a time.
* Changes of an order's status while a list is shown, which the console learns
  with its next load.
* A page restored from the browser's page cache, and blocked session storage.
* The deployment manifests, the load test and the presentational parts of the
  user interface.

## Plan

Done: order store, transactions, workflows, agent graph, chat stream,
conversation memory, order intake, session and console.

Proved: the safety invariants and action properties of all runs that pass, and the
three refinements.

1. Proofs: what bounds the liveness properties, as safety (the attempts that a run
   has left, the markers that a sweep has left).
2. Model: workflows over the statement-level functions of `OrderTransactions`
   instead of `OrderStore`; the refinement makes it a question of state space only.
