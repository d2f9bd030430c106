----------------------------- MODULE AgentGraph -----------------------------
(***************************************************************************)
(* One conversation thread and the turns that run on it.  A turn is a run  *)
(* of the compiled graph of app/agent_graph.py: a supervisor picks a       *)
(* specialist, the specialist's model and its tool node alternate, and the *)
(* turn ends in an answer, at the iteration limit or at an invalid call.   *)
(* What the models say is up to them.  Every superstep makes a checkpoint, *)
(* which reaches Redis while the next superstep is already running.        *)
(***************************************************************************)
EXTENDS Integers, Sequences, FiniteSets

CONSTANTS
    Turns,          \* bound: the turns of the thread, one request each
    Specialists,    \* keys of SPECIALIST_TOOLS
    Tools,          \* the business tools
    ToolsOf,        \* SPECIALIST_TOOLS
    MaxIterations   \* MAX_AGENT_ITERATIONS, 3 in the code

ASSUME ToolsAssumption == ToolsOf \in [Specialists -> SUBSET Tools]
ASSUME IterationsAssumption == MaxIterations \in Nat \ {0}
ASSUME InvalidAssumption == "invalid" \notin Specialists /\ "none" \notin Specialists

\* GRAPH_RECURSION_LIMIT
RecursionLimit == MaxIterations * 2 + 4

VARIABLES
    saved,       \* the newest checkpoint of the thread
    state,       \* the AgentState a turn computes with
    puts,        \* checkpoints of a turn that have not reached Redis
    node,        \* the graph node a turn runs next
    steps,       \* supersteps of a turn so far
    pick,        \* what the supervisor's model answered in a turn
    ran,         \* tools that a turn really executed
    overlapped   \* turns that ran while another turn of the thread ran

vars == <<saved, state, puts, node, steps, pick, ran, overlapped>>

\* A message, or the answers of a tool node to all the calls of one message.
Entries == [turn : Turns, kind : {"human", "text", "call", "bad", "answers"},
            tools : SUBSET Tools]
States == [history : Seq(Entries), iterations : 0..MaxIterations,
           agent : Specialists \cup {"invalid", "none"}]
Nodes == [at : {"start", "supervisor", "model", "tools", "limit", "invalid",
                "end", "done", "failed", "lost"},
          of : Specialists \cup {"none"}]

Entry(t, k, T) == [turn |-> t, kind |-> k, tools |-> T]
At(n) == [at |-> n, of |-> "none"]
AtModel(a) == [at |-> "model", of |-> a]
AtTools(a) == [at |-> "tools", of |-> a]

Running(t) == node[t].at \notin {"start", "done", "failed", "lost"}

Empty == [history |-> <<>>, iterations |-> 0, agent |-> "none"]

Init ==
    /\ saved = Empty
    /\ state = [t \in Turns |-> Empty]
    /\ puts = [t \in Turns |-> <<>>]
    /\ node = [t \in Turns |-> At("start")]
    /\ steps = [t \in Turns |-> 0]
    /\ pick = [t \in Turns |-> "none"]
    /\ ran = [t \in Turns |-> {}]
    /\ overlapped = {}

-----------------------------------------------------------------------------
\* A turn goes on to node n in state s, whose checkpoint is on its way.
GoTo(t, n, s) ==
    /\ node' = [node EXCEPT ![t] = n]
    /\ state' = [state EXCEPT ![t] = s]
    /\ puts' = [puts EXCEPT ![t] = Append(@, s)]

\* The superstep of a node that adds one message.
Superstep(t, n, s) ==
    /\ GoTo(t, n, s)
    /\ steps' = [steps EXCEPT ![t] = @ + 1]

Said(t, k, T) == [state[t] EXCEPT !.history = Append(@, Entry(t, k, T))]

\* Mistake: the input does not reset iteration_count.
InputKeepsCount(t, s) ==
    [s EXCEPT !.history = Append(@, Entry(t, "human", {}))]

\* The graph's input on top of the newest checkpoint: the customer's message,
\* and the iteration count starts again.  (user_id is that of the thread.)
Input(t, s) ==
    [s EXCEPT !.history = Append(@, Entry(t, "human", {})), !.iterations = 0]

\* stream_llm_response starts the graph.
Start(t) ==
    /\ node[t].at = "start"
    /\ GoTo(t, At("supervisor"), Input(t, saved))
    /\ overlapped' = overlapped \cup
           (IF \E u \in Turns : Running(u) THEN {t} ELSE {})
           \cup {u \in Turns : Running(u)}
    /\ UNCHANGED <<saved, steps, pick, ran>>

\* Mistake: without a valid handoff the specialist of the last turn goes on.
CallSupervisorSticky(t, p) ==
    /\ node[t].at = "supervisor"
    /\ pick' = [pick EXCEPT ![t] = p]
    /\ LET a == IF p = "invalid" THEN state[t].agent ELSE p IN
           Superstep(t, IF a \in Specialists THEN AtModel(a) ELSE At("invalid"),
                     [state[t] EXCEPT !.agent = a])
    /\ UNCHANGED <<saved, ran, overlapped>>

\* call_supervisor and route_supervisor.  The pick is "invalid" unless the
\* model calls exactly one handoff tool.
CallSupervisor(t, p) ==
    /\ node[t].at = "supervisor"
    /\ pick' = [pick EXCEPT ![t] = p]
    /\ Superstep(t, IF p \in Specialists THEN AtModel(p) ELSE At("invalid"),
                 [state[t] EXCEPT !.agent = p])
    /\ UNCHANGED <<saved, ran, overlapped>>

\* Mistake: the limit is never looked at.
RouteForever(a, k, n) ==
    CASE k = "bad"  -> At("invalid")
      [] k = "text" -> At("end")
      [] k = "call" -> AtTools(a)

\* Mistake: the limit has no message of its own, its edge leads to the end.
RouteLimitEnds(a, k, n) ==
    CASE k = "bad"  -> At("invalid")
      [] k = "text" -> At("end")
      [] k = "call" -> IF n >= MaxIterations THEN At("end") ELSE AtTools(a)

\* route_specialist_output
Route(a, k, n) ==
    CASE k = "bad"  -> At("invalid")
      [] k = "text" -> At("end")
      [] k = "call" -> IF n >= MaxIterations THEN At("limit") ELSE AtTools(a)

\* call_specialist: the model answers with text, calls any tools whatever it
\* was bound to, or makes a call that cannot be parsed, alone or beside others.
CallSpecialist(t, k, T) ==
    /\ node[t].at = "model"
    /\ k = "text" => T = {}
    /\ k = "call" => T # {}
    /\ LET n == state[t].iterations + 1 IN
           Superstep(t, Route(node[t].of, k, n),
                     [Said(t, k, T) EXCEPT !.iterations = n,
                                           !.agent = node[t].of])
    /\ UNCHANGED <<saved, pick, ran, overlapped>>

Last(t) == state[t].history[Len(state[t].history)]

\* Mistake: only calls of the specialist's own tools are answered.
AnswerOwnTools(t) ==
    /\ node[t].at = "tools"
    /\ LET own == Last(t).tools \cap ToolsOf[node[t].of] IN
           /\ ran' = [ran EXCEPT ![t] = @ \cup own]
           /\ Superstep(t, AtModel(node[t].of), Said(t, "answers", own))
    /\ UNCHANGED <<saved, pick, overlapped>>

\* ToolNode: the specialist's own tools are executed, a call of any other is
\* answered with an error.
RunTools(t) ==
    /\ node[t].at = "tools"
    /\ ran' = [ran EXCEPT ![t] = @ \cup (Last(t).tools \cap ToolsOf[node[t].of])]
    /\ Superstep(t, AtModel(node[t].of), Said(t, "answers", Last(t).tools))
    /\ UNCHANGED <<saved, pick, overlapped>>

\* Mistake: nothing follows the node for invalid calls.
ApologiseForLimit(t) ==
    /\ node[t].at = "limit"
    /\ Superstep(t, At("end"), Said(t, "text", {}))
    /\ UNCHANGED <<saved, pick, ran, overlapped>>

\* iteration_limit_response and invalid_tool_call_response.
Apologise(t) ==
    /\ node[t].at \in {"limit", "invalid"}
    /\ Superstep(t, At("end"), Said(t, "text", {}))
    /\ UNCHANGED <<saved, pick, ran, overlapped>>

-----------------------------------------------------------------------------
\* The checkpointer writes the checkpoints of a turn in their order.
Put(t) ==
    /\ puts[t] # <<>>
    /\ saved' = Head(puts[t])
    /\ puts' = [puts EXCEPT ![t] = Tail(@)]
    /\ UNCHANGED <<state, node, steps, pick, ran, overlapped>>

\* Mistake: the run does not wait for its checkpoints.
FinishEarly(t) ==
    /\ node[t].at = "end"
    /\ node' = [node EXCEPT ![t] = At("done")]
    /\ puts' = [puts EXCEPT ![t] = <<>>]
    /\ UNCHANGED <<saved, state, steps, pick, ran, overlapped>>

\* The run of the graph returns when its checkpoints are written.
Finish(t) ==
    /\ node[t].at = "end" /\ puts[t] = <<>>
    /\ node' = [node EXCEPT ![t] = At("done")]
    /\ UNCHANGED <<saved, state, puts, steps, pick, ran, overlapped>>

\* A tool node that does not come to its end has run some of its tools.
RanSome(t) ==
    \E D \in SUBSET (Last(t).tools \cap ToolsOf[node[t].of]) :
        ran' = [ran EXCEPT ![t] = @ \cup D]

\* A model call or a tool raises, and so does the run, after its checkpoints
\* are written: the stream reports an error.
Fail(t) ==
    /\ node[t].at \in {"supervisor", "model", "tools"} /\ puts[t] = <<>>
    /\ node' = [node EXCEPT ![t] = At("failed")]
    /\ IF node[t].at = "tools" THEN RanSome(t) ELSE UNCHANGED ran
    /\ UNCHANGED <<saved, state, puts, steps, pick, overlapped>>

\* The customer disconnects or the API process dies: the turn stops where it
\* is and its checkpoints under way are gone, also when its tools have run.
Lose(t) ==
    /\ Running(t)
    /\ node' = [node EXCEPT ![t] = At("lost")]
    /\ puts' = [puts EXCEPT ![t] = <<>>]
    /\ IF node[t].at = "tools" THEN RanSome(t) ELSE UNCHANGED ran
    /\ UNCHANGED <<saved, state, steps, pick, overlapped>>

TurnSteps(t) ==
    \/ \E p \in Specialists \cup {"invalid"} : CallSupervisor(t, p)
    \/ \E k \in {"text", "call", "bad"}, T \in SUBSET Tools : CallSpecialist(t, k, T)
    \/ RunTools(t) \/ Apologise(t) \/ Put(t) \/ Finish(t) \/ Fail(t)

Next == \E t \in Turns : Start(t) \/ TurnSteps(t) \/ Lose(t)

Spec == Init /\ [][Next]_vars

\* A running turn goes on: model calls time out, tools and Redis answer.
FairSpec == Spec /\ \A t \in Turns : WF_vars(TurnSteps(t))

-----------------------------------------------------------------------------
\* The variables stay in their types.
TypeOK ==
    /\ saved \in States
    /\ state \in [Turns -> States]
    /\ puts \in [Turns -> Seq(States)]
    /\ node \in [Turns -> Nodes]
    /\ steps \in [Turns -> Nat]
    /\ pick \in [Turns -> Specialists \cup {"invalid", "none"}]
    /\ ran \in [Turns -> SUBSET Tools]
    /\ overlapped \subseteq Turns

\* A turn never meets GRAPH_RECURSION_LIMIT, whatever the models say: it is
\* the limit node that stops it (README, "Termination is structural").
WithinRecursionLimit ==
    \A t \in Turns : Running(t) /\ node[t].at # "end" => steps[t] < RecursionLimit

\* The limit message is the answer to MAX_AGENT_ITERATIONS model calls of
\* this very turn, not to what an earlier turn of the thread left behind.
LimitIsSpent ==
    \A t \in Turns : node[t].at = "limit" => steps[t] = 2 * MaxIterations

\* A turn executes tools of the specialist its own supervisor picked and no
\* others, also when the model names others, the pick was invalid, or an
\* earlier turn of the thread left its specialist in the state (README,
\* "Capability is bound twice").
OnlyPickedTools ==
    \A t \in Turns :
        ran[t] # {} => pick[t] \in Specialists /\ ran[t] \subseteq ToolsOf[pick[t]]

\* A message with calls.  One that cannot be parsed is sent back to the models
\* as a call too.
Asks(m) == m.kind \in {"call", "bad"}

\* The i-th message of h is followed by an entry of its own turn.
Followed(h, i, k, T) == i < Len(h) /\ h[i + 1] = Entry(h[i].turn, k, T)

\* The messages of h with calls that nothing answers.
Unanswered(h) ==
    {i \in 1..Len(h) : Asks(h[i]) /\ ~Followed(h, i, "answers", h[i].tools)}

\* The supervisor and the specialists are sent the whole thread, and with it
\* calls without answers that earlier turns have left.  Each of these is of a
\* turn that told the customer so in its last message, that failed or was lost,
\* or that overlapped another: never of the turn itself, nor of one that ran
\* alone and returned with an answer.
OpenCallsAreOfCutTurns ==
    \A t \in Turns : node[t].at \in {"supervisor", "model"} =>
        LET h == state[t].history IN
        \A i \in Unanswered(h) :
            /\ h[i].turn # t
            /\ \/ Followed(h, i, "text", {})
               \/ node[h[i].turn].at \in {"failed", "lost"}
               \/ h[i].turn \in overlapped

\* The thread only ever shows a tool call without an answer where a turn was
\* cut short: before its closing message, at the next turn's message, or last.
GapsOnlyWhereCutShort ==
    \A i \in Unanswered(saved.history) \ {Len(saved.history)} :
        \/ Followed(saved.history, i, "text", {})
        \/ /\ saved.history[i + 1].kind = "human"
           /\ saved.history[i + 1].turn # saved.history[i].turn

\* What was said in a turn that has returned stays in the thread, through
\* crashes, failures and later turns -- as long as no other turn of the thread
\* ran at the same time.
FinishedTurnsAreKept ==
    \A t \in Turns \ overlapped : node[t].at = "done" =>
        LET h == state[t].history IN
        Len(h) <= Len(saved.history) /\ SubSeq(saved.history, 1, Len(h)) = h

\* Every turn ends, with an answer or an error.
TurnsEnd ==
    \A t \in Turns : Running(t) ~> ~Running(t)
=============================================================================
