----------------------------- MODULE OrderIntake -----------------------------
(***************************************************************************)
(* How orders get their numbers.  Every API process runs                   *)
(* initialize_database when it starts: it seeds the orders table and sets  *)
(* the identity sequence to MAX(id), in one transaction -- but a sequence  *)
(* is not transactional.  A new process starts while the old one still     *)
(* serves (a rolling update of k8s/app.yaml), so create_order_row draws    *)
(* numbers in the middle of that.                                          *)
(***************************************************************************)
EXTENDS Integers, FiniteSets

CONSTANTS
    Processes,   \* API processes, old and new
    Requests,    \* POST /orders requests, each with a caller who retries
    Seeds,       \* the seeded order numbers, 1..120 in the code
    MaxId,       \* bound: order numbers
    MaxStarts,   \* bound: process starts
    MaxFaults    \* bound: transactions aborted and answers lost, in all

Ids == 1..MaxId

ASSUME SeedsAssumption == Seeds # {} /\ Seeds \subseteq Ids /\ MaxId \in Nat
ASSUME BoundsAssumption == MaxStarts \in Nat /\ MaxFaults \in Nat
ASSUME ProcessesAssumption == Processes # {}
ASSUME SeedAssumption == "seed" \notin Requests

VARIABLES
    book,       \* committed rows of the orders table
    sequence,   \* last value of the identity sequence
    proc,       \* what a process is doing
    added,      \* seeded numbers a start-up has inserted and not committed
    high,       \* the MAX(id) a start-up has read
    starts,
    req,        \* where a request is
    number,     \* the number it has drawn
    at,         \* the process that serves it
    faults,
    overlapped  \* a start-up and a creation were under way at the same time

orderVars == <<req, number, at>>
startVars == <<proc, added, high, starts>>
vars == <<book, sequence, startVars, orderVars, faults, overlapped>>

Row(r) == [id |-> number[r], by |-> r]

\* The rows of requests that were answered with 201.
Told == {Row(r) : r \in {s \in Requests : req[s] = "answered"}}

Book == INSTANCE OrderBook WITH Placers <- Requests, told <- Told

BookSpec == Book!BookSpec

Numbers == Book!Numbers(book)

\* A start-up that has not set the sequence yet.
StartingUp(p) == proc[p] \in {"max", "setval"}

\* A creation that has drawn its number and not committed.
Creating(r) == req[r] \in {"insert", "commit"}

Init ==
    /\ book = {}
    /\ sequence = 1
    /\ proc = [p \in Processes |-> "down"]
    /\ added = [p \in Processes |-> {}]
    /\ high = [p \in Processes |-> 1]
    /\ starts = 0
    /\ req = [r \in Requests |-> "new"]
    /\ number = [r \in Requests |-> 1]
    /\ at = [r \in Requests |-> CHOOSE p \in Processes : TRUE]
    /\ faults = 0
    /\ overlapped = FALSE

-----------------------------------------------------------------------------
(* initialize_database, in the lifespan of a process.                      *)

\* CREATE TABLE IF NOT EXISTS and the seeds, ON CONFLICT (id) DO NOTHING:
\* waits for another start-up's uncommitted seeds.
Seed(p) ==
    /\ proc[p] = "down" /\ starts < MaxStarts
    /\ \A q \in Processes : added[q] = {}
    /\ starts' = starts + 1
    /\ proc' = [proc EXCEPT ![p] = "max"]
    /\ added' = [added EXCEPT ![p] = Seeds \ Numbers]
    /\ overlapped' = (overlapped \/ \E r \in Requests : Creating(r))
    /\ UNCHANGED <<book, sequence, high, orderVars, faults>>

\* SELECT MAX(id): what is committed, and what the start-up itself added.
ReadMax(p) ==
    /\ proc[p] = "max"
    /\ proc' = [proc EXCEPT ![p] = "setval"]
    /\ \E m \in Numbers \cup added[p] :
          /\ \A n \in Numbers \cup added[p] : n <= m
          /\ high' = [high EXCEPT ![p] = m]
    /\ UNCHANGED <<book, sequence, added, starts, orderVars, faults, overlapped>>

\* Mistake: the sequence is set to the end of the seeds.
SetSequenceToSeeds(p) ==
    /\ proc[p] = "setval"
    /\ proc' = [proc EXCEPT ![p] = "ready"]
    /\ \E m \in Seeds : (\A n \in Seeds : n <= m) /\ sequence' = m
    /\ UNCHANGED <<book, added, high, starts, orderVars, faults, overlapped>>

\* setval: takes effect at once, whatever became of the sequence since.
SetSequence(p) ==
    /\ proc[p] = "setval"
    /\ proc' = [proc EXCEPT ![p] = "ready"]
    /\ sequence' = high[p]
    /\ UNCHANGED <<book, added, high, starts, orderVars, faults, overlapped>>

\* The transaction commits and the process begins to serve.
Serve(p) ==
    /\ proc[p] = "ready"
    /\ proc' = [proc EXCEPT ![p] = "serving"]
    /\ book' = book \cup Book!SeedRows(added[p])
    /\ added' = [added EXCEPT ![p] = {}]
    /\ UNCHANGED <<sequence, high, starts, orderVars, faults, overlapped>>

\* A process dies, or is stopped by a rolling update: its transactions are
\* rolled back and its callers see the connection break.  Bound: another one
\* is up or can still start.
Stop(p) ==
    /\ proc[p] # "down"
    /\ starts < MaxStarts \/ \E q \in Processes \ {p} : proc[q] # "down"
    /\ proc' = [proc EXCEPT ![p] = "down"]
    /\ added' = [added EXCEPT ![p] = {}]
    /\ req' = [r \in Requests |->
                  IF at[r] = p /\ req[r] \in {"insert", "commit", "committed"}
                  THEN "lost" ELSE req[r]]
    /\ UNCHANGED <<book, sequence, high, starts, number, at, faults, overlapped>>

-----------------------------------------------------------------------------
(* create_order and create_order_row.                                      *)

Goto(r, l) == req' = [req EXCEPT ![r] = l]

\* The handler answers 400, 403 or 404 (scope_customer_id, unknown product)
\* before it writes anything.
Reject(r, p) ==
    /\ req[r] = "new" /\ proc[p] = "serving"
    /\ Goto(r, "rejected")
    /\ UNCHANGED <<book, sequence, startVars, number, at, faults, overlapped>>

\* INSERT: the default of the id column draws a number, for good.
Draw(r, p) ==
    /\ req[r] = "new" /\ proc[p] = "serving"
    /\ sequence + 1 \in Ids
    /\ sequence' = sequence + 1
    /\ number' = [number EXCEPT ![r] = sequence + 1]
    /\ at' = [at EXCEPT ![r] = p]
    /\ Goto(r, "insert")
    /\ overlapped' = (overlapped \/ \E q \in Processes : StartingUp(q))
    /\ UNCHANGED <<book, startVars, faults>>

\* Mistake: a number that was not used goes back.
InsertReturnsNumber(r) ==
    /\ req[r] = "insert"
    /\ \A s \in Requests \ {r} : ~(req[s] = "commit" /\ number[s] = number[r])
    /\ IF number[r] \in Numbers
       THEN Goto(r, "collided") /\ sequence' = number[r] - 1
       ELSE Goto(r, "commit") /\ UNCHANGED sequence
    /\ UNCHANGED <<book, startVars, number, at, faults, overlapped>>

\* The row meets the primary key: it waits for another uncommitted row with
\* its number and fails on a committed one.
Insert(r) ==
    /\ req[r] = "insert"
    /\ \A s \in Requests \ {r} : ~(req[s] = "commit" /\ number[s] = number[r])
    /\ Goto(r, IF number[r] \in Numbers THEN "collided" ELSE "commit")
    /\ UNCHANGED <<book, sequence, startVars, number, at, faults, overlapped>>

\* statement_timeout, a lost connection to the database: rolled back.
Abort(r) ==
    /\ Creating(r)
    /\ Goto(r, "failed")
    /\ faults < MaxFaults /\ faults' = faults + 1
    /\ UNCHANGED <<book, sequence, startVars, number, at, overlapped>>

\* create_order_row returns.
Commit(r) ==
    /\ req[r] = "commit"
    /\ Goto(r, "committed")
    /\ book' = book \cup {Row(r)}
    /\ UNCHANGED <<sequence, startVars, number, at, faults, overlapped>>

\* Mistake: the answer does not wait for the commit.
AnswerEarly(r) ==
    /\ req[r] \in {"commit", "committed"}
    /\ Goto(r, "answered")
    /\ UNCHANGED <<book, sequence, startVars, number, at, faults, overlapped>>

\* 201 with the order.
Answer(r) ==
    /\ req[r] = "committed"
    /\ Goto(r, "answered")
    /\ UNCHANGED <<book, sequence, startVars, number, at, faults, overlapped>>

\* The answer is lost on its way.
LoseAnswer(r) ==
    /\ req[r] = "committed"
    /\ Goto(r, "lost")
    /\ faults < MaxFaults /\ faults' = faults + 1
    /\ UNCHANGED <<book, sequence, startVars, number, at, overlapped>>

\* The caller sends the request again.
Retry(r) ==
    /\ req[r] \in {"collided", "failed", "lost"}
    /\ Goto(r, "new")
    /\ UNCHANGED <<book, sequence, startVars, number, at, faults, overlapped>>

StartUp(p) == Seed(p) \/ ReadMax(p) \/ SetSequence(p) \/ Serve(p)

\* What the API and the caller do for a request when nothing fails.
Proceed(r) ==
    \/ \E p \in Processes : Draw(r, p)
    \/ Insert(r) \/ Commit(r) \/ Answer(r) \/ Retry(r)

Next ==
    \/ \E p \in Processes : StartUp(p) \/ Stop(p)
    \/ \E r \in Requests :
          \/ Proceed(r) \/ Abort(r) \/ LoseAnswer(r)
          \/ \E p \in Processes : Reject(r, p)

Spec == Init /\ [][Next]_vars

\* Kubernetes starts a process that is down, a start-up and a handler that
\* nothing interrupts run to their end, and the caller keeps trying.
Fairness ==
    /\ \A p \in Processes : WF_vars(StartUp(p))
    /\ \A r \in Requests : WF_vars(Proceed(r))

FairSpec == Spec /\ Fairness

-----------------------------------------------------------------------------

TypeOK ==
    /\ book \subseteq Book!Rows
    /\ sequence \in Ids
    /\ proc \in [Processes -> {"down", "max", "setval", "ready", "serving"}]
    /\ added \in [Processes -> SUBSET Seeds]
    /\ high \in [Processes -> Ids]
    /\ starts \in 0..MaxStarts
    /\ req \in [Requests -> {"new", "insert", "commit", "committed", "answered",
                             "rejected", "collided", "failed", "lost"}]
    /\ number \in [Requests -> Ids]
    /\ at \in [Requests -> Processes]
    /\ faults \in 0..MaxFaults
    /\ overlapped \in BOOLEAN

\* A number meets the primary key only when a start-up was under way while an
\* order was being created.  With one start-up behind them, processes that
\* crash, abort and lose answers never draw a number that is taken.
CollisionNeedsOverlap ==
    (\E r \in Requests : req[r] = "collided") => overlapped

\* A caller who keeps trying gets the order, or is told that it is not
\* possible, however far back a start-up has set the sequence.
OrdersGoThrough ==
    \A r \in Requests : req[r] = "new" ~> req[r] \in {"answered", "rejected"}
=============================================================================
