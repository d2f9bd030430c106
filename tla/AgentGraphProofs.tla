-------------------------- MODULE AgentGraphProofs --------------------------
(***************************************************************************)
(* What holds of a thread for every number of turns, specialists and       *)
(* tools, and every iteration limit.                                       *)
(***************************************************************************)
EXTENDS AgentGraph, SequenceTheorems, TLAPS

\* How far a turn is at each node: after the supervisor, a model call and a
\* tool round take one superstep each.
StepsInv ==
    \A t \in Turns :
        LET n == state[t].iterations IN
        /\ node[t].at = "start" => steps[t] = 0
        /\ node[t].at = "supervisor" => steps[t] = 0 /\ n = 0
        /\ node[t].at = "model" => steps[t] = 2 * n + 1 /\ n < MaxIterations
        /\ node[t].at = "tools" => steps[t] = 2 * n /\ n < MaxIterations
        /\ node[t].at = "limit" => steps[t] = 2 * n /\ n = MaxIterations
        /\ node[t].at = "invalid" => steps[t] <= 2 * MaxIterations

\* A turn is at a specialist's nodes only after its supervisor picked it, and
\* has run nothing before.
PickInv ==
    \A t \in Turns :
        /\ node[t].at \in {"model", "tools"} =>
              node[t].of \in Specialists /\ pick[t] = node[t].of
        /\ node[t].at \in {"start", "supervisor"} => ran[t] = {}
        /\ ran[t] # {} => pick[t] \in Specialists /\ ran[t] \subseteq ToolsOf[pick[t]]

\* A tool node has a message to answer.
CallInv ==
    \A t \in Turns : node[t].at = "tools" => state[t].history # <<>>

IInv == TypeOK /\ StepsInv /\ PickInv /\ CallInv

\* A message is an entry.
LEMMA EntryType ==
    ASSUME NEW t \in Turns, NEW k \in {"human", "text", "call", "bad", "answers"},
           NEW T \in SUBSET Tools
    PROVE  Entry(t, k, T) \in Entries
BY DEF Entry, Entries

\* A state with one more message is a state.
LEMMA StateType ==
    ASSUME NEW s \in States, NEW e \in Entries
    PROVE  /\ [s EXCEPT !.history = Append(@, e)] \in States
           /\ [s EXCEPT !.history = Append(@, e)].iterations = s.iterations
           /\ [s EXCEPT !.history = Append(@, e)].history = Append(s.history, e)
           /\ [s EXCEPT !.history = Append(@, e)].history # <<>>
<1>1. s.history \in Seq(Entries)
  BY DEF States
<1>2. Append(s.history, e) \in Seq(Entries) /\ Append(s.history, e) # <<>>
  BY <1>1
<1> DEFINE h == Append(s.history, e)
<1>3. h \in Seq(Entries) /\ h # <<>>
  BY <1>2
<1> HIDE DEF h
<1>4. /\ [s EXCEPT !.history = h] \in States
      /\ [s EXCEPT !.history = h].iterations = s.iterations
      /\ [s EXCEPT !.history = h].history = h
  BY <1>3 DEF States
<1> QED BY <1>3, <1>4 DEF h

\* GoTo keeps the types of what it changes.
LEMMA GoToType ==
    ASSUME TypeOK, NEW t \in Turns, NEW n \in Nodes, NEW s \in States, GoTo(t, n, s)
    PROVE  /\ node' \in [Turns -> Nodes]
           /\ state' \in [Turns -> States]
           /\ puts' \in [Turns -> Seq(States)]
           /\ node' = [node EXCEPT ![t] = n]
           /\ state' = [state EXCEPT ![t] = s]
BY DEF TypeOK, GoTo

\* The nodes the graph can name are nodes.
LEMMA NodeType ==
    /\ \A n \in {"start", "supervisor", "limit", "invalid", "end", "done",
                 "failed", "lost"} : At(n) \in Nodes /\ At(n).at = n
    /\ \A a \in Specialists : /\ AtModel(a) \in Nodes
                              /\ AtModel(a).at = "model" /\ AtModel(a).of = a
                              /\ AtTools(a) \in Nodes
                              /\ AtTools(a).at = "tools" /\ AtTools(a).of = a
BY DEF At, AtModel, AtTools, Nodes

\* The thread is empty and no turn has started.
LEMMA InitInv == Init => IInv
<1> SUFFICES ASSUME Init PROVE IInv
  OBVIOUS
<1>1. Empty \in States
  BY IterationsAssumption DEF Empty, States
<1>2. TypeOK
  BY <1>1, NodeType DEF Init, TypeOK
<1>3. StepsInv /\ PickInv /\ CallInv
  BY NodeType, IterationsAssumption DEF Init, StepsInv, PickInv, CallInv, Empty
<1> QED BY <1>2, <1>3 DEF IInv

\* A turn takes its iteration count and its pick afresh, whatever was saved.
LEMMA StartInv == ASSUME IInv, NEW t \in Turns, Start(t) PROVE IInv'
<1> USE DEF IInv
<1> DEFINE s == Input(t, saved)
<1>1. s \in States /\ s.iterations = 0
  <2>1. Entry(t, "human", {}) \in Entries
    BY EntryType
  <2> DEFINE r == [saved EXCEPT !.history = Append(@, Entry(t, "human", {}))]
  <2>2. r \in States
    BY <2>1, StateType DEF TypeOK
  <2>3. s = [r EXCEPT !.iterations = 0]
    BY DEF Input, TypeOK, States
  <2> HIDE DEF r, s
  <2> QED BY <2>2, <2>3, IterationsAssumption DEF States
<1>2. At("supervisor") \in Nodes /\ At("supervisor").at = "supervisor"
  BY NodeType
<1>3. /\ GoTo(t, At("supervisor"), s)
      /\ UNCHANGED <<saved, steps, pick, ran>>
      /\ node[t].at = "start"
  BY DEF Start
<1>4. /\ node' \in [Turns -> Nodes]
      /\ state' \in [Turns -> States]
      /\ puts' \in [Turns -> Seq(States)]
      /\ node' = [node EXCEPT ![t] = At("supervisor")]
      /\ state' = [state EXCEPT ![t] = s]
  BY <1>1, <1>2, <1>3, GoToType
<1>5. TypeOK'
  BY <1>3, <1>4 DEF TypeOK, Start
<1> HIDE DEF s
<1>6. StepsInv'
  BY <1>1, <1>2, <1>3, <1>4 DEF StepsInv, TypeOK
<1>7. PickInv' /\ CallInv'
  BY <1>2, <1>3, <1>4 DEF PickInv, CallInv, TypeOK
<1> QED BY <1>5, <1>6, <1>7

\* The supervisor picks before anything has run.
LEMMA SupervisorInv ==
    ASSUME IInv, NEW t \in Turns, NEW p \in Specialists \cup {"invalid"},
           CallSupervisor(t, p)
    PROVE  IInv'
<1> USE DEF IInv
<1> DEFINE n == IF p \in Specialists THEN AtModel(p) ELSE At("invalid")
           s == [state[t] EXCEPT !.agent = p]
<1>1. s \in States /\ s.iterations = state[t].iterations
  BY DEF TypeOK, States
<1>2. /\ n \in Nodes
      /\ p \in Specialists => n.at = "model" /\ n.of = p
      /\ p \notin Specialists => n.at = "invalid"
  BY NodeType
<1>3. /\ GoTo(t, n, s)
      /\ steps' = [steps EXCEPT ![t] = @ + 1]
      /\ pick' = [pick EXCEPT ![t] = p]
      /\ UNCHANGED <<saved, ran, overlapped>>
      /\ node[t].at = "supervisor"
  BY DEF CallSupervisor, Superstep
<1>4. /\ node' \in [Turns -> Nodes]
      /\ state' \in [Turns -> States]
      /\ puts' \in [Turns -> Seq(States)]
      /\ node' = [node EXCEPT ![t] = n]
      /\ state' = [state EXCEPT ![t] = s]
  BY <1>1, <1>2, <1>3, GoToType
<1> HIDE DEF n, s
<1>5. TypeOK'
  BY <1>3, <1>4 DEF TypeOK
<1>6. StepsInv'
  BY <1>1, <1>2, <1>3, <1>4, IterationsAssumption DEF StepsInv, TypeOK
<1>7. PickInv' /\ CallInv'
  BY <1>2, <1>3, <1>4 DEF PickInv, CallInv, TypeOK
<1> QED BY <1>5, <1>6, <1>7

\* A model call takes one iteration, and the last of them leads to no tools.
LEMMA SpecialistInv ==
    ASSUME IInv, NEW t \in Turns, NEW k \in {"text", "call", "bad"},
           NEW T \in SUBSET Tools, CallSpecialist(t, k, T)
    PROVE  IInv'
<1> USE DEF IInv
<1> DEFINE i == state[t].iterations + 1
           a == node[t].of
           n == Route(a, k, i)
           s == [Said(t, k, T) EXCEPT !.iterations = i, !.agent = a]
<1>0. /\ node[t].at = "model"
      /\ a \in Specialists /\ pick[t] = a
      /\ steps[t] = 2 * state[t].iterations + 1
      /\ state[t].iterations \in Nat /\ state[t].iterations < MaxIterations
  BY IterationsAssumption DEF CallSpecialist, PickInv, StepsInv, TypeOK, States
<1>1. s \in States /\ s.iterations = i /\ s.history # <<>>
  <2>1. Entry(t, k, T) \in Entries
    BY EntryType
  <2>2. Said(t, k, T) \in States /\ Said(t, k, T).history # <<>>
    BY <2>1, StateType DEF Said, TypeOK
  <2> DEFINE m == Said(t, k, T)
  <2>3. s = [m EXCEPT !.iterations = i, !.agent = a]
    OBVIOUS
  <2>4. m \in States /\ m.history # <<>> /\ i \in 0..MaxIterations /\ a \in Specialists
    BY <1>0, <2>2, IterationsAssumption
  <2> HIDE DEF m, i, a, s
  <2> QED BY <2>3, <2>4 DEF States
<1>2. /\ n \in Nodes
      /\ n.at \in {"invalid", "end", "limit", "tools"}
      /\ n.at = "tools" => n.of = a /\ i < MaxIterations
      /\ n.at = "limit" => i >= MaxIterations
  BY <1>0, NodeType, IterationsAssumption DEF Route
<1>3. /\ GoTo(t, n, s)
      /\ steps' = [steps EXCEPT ![t] = @ + 1]
      /\ UNCHANGED <<saved, pick, ran, overlapped>>
  BY DEF CallSpecialist, Superstep
<1>4. /\ node' \in [Turns -> Nodes]
      /\ state' \in [Turns -> States]
      /\ puts' \in [Turns -> Seq(States)]
      /\ node' = [node EXCEPT ![t] = n]
      /\ state' = [state EXCEPT ![t] = s]
  BY <1>1, <1>2, <1>3, GoToType
<1> HIDE DEF n, s
<1>5. TypeOK'
  BY <1>3, <1>4 DEF TypeOK
<1>6. StepsInv'
  <2>1. /\ steps'[t] = 2 * i /\ state'[t].iterations = i /\ node'[t] = n
        /\ i \in Nat /\ i <= MaxIterations
    <3>1. steps'[t] = steps[t] + 1 /\ state'[t] = s /\ node'[t] = n
      BY <1>3, <1>4 DEF TypeOK
    <3> QED BY <1>0, <1>1, <3>1, IterationsAssumption
  <2>2. \A u \in Turns \ {t} : /\ steps'[u] = steps[u]
                                /\ state'[u] = state[u] /\ node'[u] = node[u]
    BY <1>3, <1>4 DEF TypeOK
  <2> HIDE DEF i, a
  <2> QED BY <1>2, <2>1, <2>2, IterationsAssumption DEF StepsInv
<1>7. PickInv' /\ CallInv'
  BY <1>0, <1>1, <1>2, <1>3, <1>4 DEF PickInv, CallInv, TypeOK
<1> QED BY <1>5, <1>6, <1>7

\* A tool node runs tools of the specialist at work only.
LEMMA RunToolsInv == ASSUME IInv, NEW t \in Turns, RunTools(t) PROVE IInv'
<1> USE DEF IInv
<1> DEFINE a == node[t].of
           n == AtModel(a)
           s == Said(t, "answers", Last(t).tools)
<1>0. /\ node[t].at = "tools"
      /\ a \in Specialists /\ pick[t] = a
      /\ steps[t] = 2 * state[t].iterations
      /\ state[t].iterations \in Nat /\ state[t].iterations < MaxIterations
  BY IterationsAssumption DEF RunTools, PickInv, StepsInv, TypeOK, States
<1>1. s \in States /\ s.iterations = state[t].iterations
  <2>1. state[t].history \in Seq(Entries) /\ state[t].history # <<>>
    BY <1>0 DEF CallInv, TypeOK, States
  <2>2. Last(t) \in Entries
    BY <2>1 DEF Last
  <2>3. Entry(t, "answers", Last(t).tools) \in Entries
    BY <2>2, EntryType DEF Entries
  <2> QED BY <2>3, StateType DEF Said, TypeOK
<1>2. n \in Nodes /\ n.at = "model" /\ n.of = a
  BY <1>0, NodeType
<1>3. /\ GoTo(t, n, s)
      /\ steps' = [steps EXCEPT ![t] = @ + 1]
      /\ ran' = [ran EXCEPT ![t] = @ \cup (Last(t).tools \cap ToolsOf[a])]
      /\ UNCHANGED <<saved, pick, overlapped>>
  BY DEF RunTools, Superstep
<1>4. /\ node' \in [Turns -> Nodes]
      /\ state' \in [Turns -> States]
      /\ puts' \in [Turns -> Seq(States)]
      /\ node' = [node EXCEPT ![t] = n]
      /\ state' = [state EXCEPT ![t] = s]
  BY <1>1, <1>2, <1>3, GoToType
<1> HIDE DEF n, s
<1>5. TypeOK'
  BY <1>0, <1>3, <1>4, ToolsAssumption DEF TypeOK
<1>6. StepsInv'
  BY <1>0, <1>1, <1>2, <1>3, <1>4, IterationsAssumption DEF StepsInv, TypeOK
<1>7. PickInv' /\ CallInv'
  BY <1>0, <1>2, <1>3, <1>4 DEF PickInv, CallInv, TypeOK
<1> QED BY <1>5, <1>6, <1>7

\* The limit message and the apology end the graph.
LEMMA ApologiseInv == ASSUME IInv, NEW t \in Turns, Apologise(t) PROVE IInv'
<1> USE DEF IInv
<1> DEFINE s == Said(t, "text", {})
<1>1. s \in States
  <2>1. Entry(t, "text", {}) \in Entries
    BY EntryType
  <2> QED BY <2>1, StateType DEF Said, TypeOK
<1>2. At("end") \in Nodes /\ At("end").at = "end"
  BY NodeType
<1>3. /\ GoTo(t, At("end"), s)
      /\ steps' = [steps EXCEPT ![t] = @ + 1]
      /\ node[t].at \in {"limit", "invalid"}
      /\ UNCHANGED <<saved, pick, ran, overlapped>>
  BY DEF Apologise, Superstep
<1>4. /\ node' \in [Turns -> Nodes]
      /\ state' \in [Turns -> States]
      /\ puts' \in [Turns -> Seq(States)]
      /\ node' = [node EXCEPT ![t] = At("end")]
      /\ state' = [state EXCEPT ![t] = s]
  BY <1>1, <1>2, <1>3, GoToType
<1> HIDE DEF s
<1>5. TypeOK'
  BY <1>3, <1>4 DEF TypeOK
<1>6. StepsInv' /\ PickInv' /\ CallInv'
  BY <1>2, <1>3, <1>4 DEF StepsInv, PickInv, CallInv, TypeOK
<1> QED BY <1>5, <1>6

\* A checkpoint that is written changes nothing of a turn.
LEMMA PutInv == ASSUME IInv, NEW t \in Turns, Put(t) PROVE IInv'
<1> USE DEF IInv
<1>1. TypeOK'
  BY DEF Put, TypeOK
<1>2. StepsInv' /\ PickInv' /\ CallInv'
  BY DEF Put, StepsInv, PickInv, CallInv
<1> QED BY <1>1, <1>2

\* A turn that stops is at none of the nodes the invariant speaks of, and a
\* tool node that is cut off has run some of its specialist's tools.
LEMMA StopInv ==
    ASSUME IInv, NEW t \in Turns, Finish(t) \/ Fail(t) \/ Lose(t)
    PROVE  IInv'
<1> USE DEF IInv
<1>1. PICK n \in {"done", "failed", "lost"} : node' = [node EXCEPT ![t] = At(n)]
  BY DEF Finish, Fail, Lose
<1>2. At(n) \in Nodes /\ At(n).at = n
  BY NodeType
<1>3. /\ UNCHANGED <<saved, state, steps, pick, overlapped>>
      /\ puts' \in {puts, [puts EXCEPT ![t] = <<>>]}
  BY DEF Finish, Fail, Lose
<1>4. \/ UNCHANGED ran
      \/ /\ node[t].at = "tools"
         /\ \E D \in SUBSET ToolsOf[node[t].of] :
               ran' = [ran EXCEPT ![t] = @ \cup D]
  BY DEF Finish, Fail, Lose, RanSome
<1>5. node[t].at = "tools" => node[t].of \in Specialists /\ pick[t] = node[t].of
  BY DEF PickInv
<1>6. TypeOK'
  <2>1. ran' \in [Turns -> SUBSET Tools]
    <3>1. CASE node[t].at = "tools" /\ \E D \in SUBSET ToolsOf[node[t].of] :
                                          ran' = [ran EXCEPT ![t] = @ \cup D]
      <4>1. ToolsOf[node[t].of] \subseteq Tools
        BY <1>5, <3>1, ToolsAssumption
      <4> QED BY <3>1, <4>1 DEF TypeOK
    <3> QED BY <1>4, <3>1 DEF TypeOK
  <2>2. node' \in [Turns -> Nodes]
    BY <1>1, <1>2 DEF TypeOK
  <2>3. puts' \in [Turns -> Seq(States)]
    <3>1. <<>> \in Seq(States)
      OBVIOUS
    <3> QED BY <1>3, <3>1 DEF TypeOK
  <2> QED BY <1>3, <2>1, <2>2, <2>3 DEF TypeOK
<1>7. StepsInv' /\ CallInv'
  BY <1>1, <1>2, <1>3 DEF StepsInv, CallInv, TypeOK
<1>8. PickInv'
  BY <1>1, <1>2, <1>3, <1>4, <1>5 DEF PickInv, TypeOK
<1> QED BY <1>6, <1>7, <1>8

\* Every step keeps the invariant.
LEMMA NextInv == IInv /\ [Next]_vars => IInv'
<1> SUFFICES ASSUME IInv, [Next]_vars PROVE IInv'
  OBVIOUS
<1>1. CASE UNCHANGED vars
  BY <1>1 DEF vars, IInv, TypeOK, StepsInv, PickInv, CallInv
<1>2. CASE Next
  <2> PICK t \in Turns : Start(t) \/ TurnSteps(t) \/ Lose(t)
    BY <1>2 DEF Next
  <2> QED BY StartInv, SupervisorInv, SpecialistInv, RunToolsInv, ApologiseInv,
             PutInv, StopInv DEF TurnSteps
<1> QED BY <1>1, <1>2

\* It holds always.
LEMMA Inductive == Spec => []IInv
BY InitInv, NextInv, PTL DEF Spec

\* Type correctness of the thread, its turns and their checkpoints.
THEOREM TypeCorrect == Spec => []TypeOK
BY Inductive, PTL DEF IInv

\* Whatever the models say, a turn stays within GRAPH_RECURSION_LIMIT: at most
\* the supervisor, MAX_AGENT_ITERATIONS model calls, the tool rounds between
\* them and one closing message.
THEOREM TerminationIsStructural == Spec => []WithinRecursionLimit
<1>1. IInv => WithinRecursionLimit
  <2> SUFFICES ASSUME IInv, NEW t \in Turns, Running(t), node[t].at # "end"
               PROVE  steps[t] < RecursionLimit
    BY DEF WithinRecursionLimit
  <2>1. node[t].at \in {"supervisor", "model", "tools", "limit", "invalid"}
    BY DEF IInv, TypeOK, Nodes, Running
  <2>2. state[t].iterations \in 0..MaxIterations /\ steps[t] \in Nat
    BY DEF IInv, TypeOK, States
  <2> QED BY <2>1, <2>2, IterationsAssumption DEF IInv, StepsInv, RecursionLimit
<1> QED BY <1>1, Inductive, PTL

\* The limit message always follows MAX_AGENT_ITERATIONS model calls of the
\* turn itself.
THEOREM LimitAfterAllCalls == Spec => []LimitIsSpent
<1>1. IInv => LimitIsSpent
  BY DEF IInv, StepsInv, LimitIsSpent
<1> QED BY <1>1, Inductive, PTL

\* Only tools of the specialist that the turn's own supervisor picked are
\* ever executed in it.
THEOREM CapabilityIsBound == Spec => []OnlyPickedTools
<1>1. IInv => OnlyPickedTools
  BY DEF IInv, PickInv, OnlyPickedTools
<1> QED BY <1>1, Inductive, PTL

-----------------------------------------------------------------------------
(* What the thread shows.  Its history exists in versions: the checkpoint   *)
(* in Redis, what each turn computes with, and the checkpoints under way.   *)
(* A step adds at most one version, a longer one of those that exist.       *)

VersionsOf(sv, st, pt) ==
    {sv.history} \cup {st[u].history : u \in Turns}
    \cup UNION {{pt[u][i].history : i \in 1..Len(pt[u])} : u \in Turns}

Versions == VersionsOf(saved, state, puts)

\* No version tells of a turn that has not started.
Foreign(t, h) == \A i \in 1..Len(h) : h[i].turn # t

FreshInv == \A t \in Turns, h \in Versions : node[t].at = "start" => Foreign(t, h)

\* What may follow a message with tool calls.
Closes(m, n) ==
    \/ n = Entry(m.turn, "answers", m.tools)
    \/ n = Entry(m.turn, "text", {})
    \/ n.kind = "human" /\ n.turn # m.turn

GapFree(h) ==
    \A i \in 1..Len(h) - 1 : Asks(h[i]) => Closes(h[i], h[i + 1])

GapInv == \A h \in Versions : GapFree(h)

\* What a turn at work has said last, and that all calls of the turn but
\* those of its last message are answered.
Working == {"supervisor", "model", "tools", "limit", "invalid"}

LastFits(t, n, m) ==
    /\ m.turn = t
    /\ n = "supervisor" => m.kind = "human"
    /\ n = "model" => m.kind \in {"human", "answers"}
    /\ n \in {"tools", "limit"} => m.kind = "call"
    /\ n = "invalid" => m.kind \in {"human", "bad"}

Rounds(t, h) ==
    \A i \in 1..Len(h) - 1 : h[i].turn = t /\ Asks(h[i]) =>
        h[i + 1] = Entry(t, "answers", h[i].tools)

WorkInv ==
    \A t \in Turns : node[t].at \in Working =>
        /\ state[t].history # <<>>
        /\ LastFits(t, node[t].at, Last(t))
        /\ Rounds(t, state[t].history)

\* Only running turns have checkpoints under way, the last one is where the
\* turn is; and a turn that is alone on the thread finds its own in Redis.
PutsInv ==
    \A t \in Turns :
        /\ ~Running(t) => puts[t] = <<>>
        /\ puts[t] # <<>> => puts[t][Len(puts[t])] = state[t]
        /\ Running(t) /\ t \notin overlapped =>
              /\ \A u \in Turns \ {t} : ~Running(u)
              /\ puts[t] = <<>> => saved = state[t]

\* The thread in Redis, and all that may yet be written to it, begins with
\* what was said in a turn that has returned.
Begins(h, g) == Len(h) <= Len(g) /\ \A i \in 1..Len(h) : g[i] = h[i]

KeptInv ==
    \A t \in Turns \ overlapped : node[t].at = "done" =>
        /\ Begins(state[t].history, saved.history)
        /\ \A u \in Turns : Running(u) =>
              /\ Begins(state[t].history, state[u].history)
              /\ \A i \in 1..Len(puts[u]) : Begins(state[t].history, puts[u][i].history)

\* A history in which every call of turn t is answered or followed by the
\* turn's closing message.
Settled(t, h) ==
    \A i \in 1..Len(h) : h[i].turn = t /\ Asks(h[i]) =>
        Followed(h, i, "answers", h[i].tools) \/ Followed(h, i, "text", {})

\* A turn settles its history before it returns; as long as it runs alone no
\* other turn has taken up what it says; so where a version tells of a turn
\* that ran alone and returned, it tells of all of it.
EndInv == \A t \in Turns : node[t].at = "end" => Settled(t, state[t].history)

AloneInv ==
    \A t \in Turns \ overlapped : Running(t) =>
        \A u \in Turns \ {t} : Foreign(t, state[u].history)

DoneInv ==
    \A t \in Turns \ overlapped : node[t].at = "done" =>
        \A h \in Versions : Settled(t, h)

SettledInv == EndInv /\ AloneInv /\ DoneInv

\* What the properties of the history rest on.
HistoryInv == FreshInv /\ GapInv /\ WorkInv /\ PutsInv /\ KeptInv /\ SettledInv

\* Where a version may be.
LEMMA VersionsDef ==
    ASSUME NEW sv, NEW st, NEW pt, NEW h
    PROVE  h \in VersionsOf(sv, st, pt) <=>
              \/ h = sv.history
              \/ \E u \in Turns : h = st[u].history
              \/ \E u \in Turns : \E i \in 1..Len(pt[u]) : h = pt[u][i].history
<1> DEFINE Under(u) == {pt[u][i].history : i \in 1..Len(pt[u])}
<1>1. h \in UNION {Under(u) : u \in Turns} <=> \E u \in Turns : h \in Under(u)
  OBVIOUS
<1>2. \A u \in Turns : h \in Under(u) <=> \E i \in 1..Len(pt[u]) : h = pt[u][i].history
  OBVIOUS
<1> QED BY <1>1, <1>2 DEF VersionsOf

\* Versions are sequences of entries.
LEMMA VersionsType == ASSUME TypeOK, NEW h \in Versions PROVE h \in Seq(Entries)
<1>1. \A s \in States : s.history \in Seq(Entries)
  BY DEF States
<1>2. /\ saved \in States
      /\ \A u \in Turns : state[u] \in States /\ puts[u] \in Seq(States)
  BY DEF TypeOK
<1>3. \A u \in Turns : \A i \in 1..Len(puts[u]) : puts[u][i] \in States
  BY <1>2
<1> QED BY <1>1, <1>2, <1>3, VersionsDef DEF Versions

\* A history and one entry more.
LEMMA AppendFacts ==
    ASSUME NEW g \in Seq(Entries), NEW e \in Entries, NEW h, h = Append(g, e)
    PROVE  /\ h \in Seq(Entries) /\ h # <<>>
           /\ Len(g) \in Nat /\ Len(h) = Len(g) + 1 /\ h[Len(h)] = e
           /\ \A i \in 1..Len(g) : h[i] = g[i]
OBVIOUS

\* A message that closes the one before it leaves no gap.
LEMMA AppendGapFree ==
    ASSUME NEW g \in Seq(Entries), NEW e \in Entries, GapFree(g),
           g # <<>> /\ Asks(g[Len(g)]) => Closes(g[Len(g)], e)
    PROVE  GapFree(Append(g, e))
<1>1. PICK h : h = Append(g, e)
  OBVIOUS
<1>2. SUFFICES ASSUME NEW i \in 1..Len(h) - 1, Asks(h[i])
               PROVE  Closes(h[i], h[i + 1])
  BY <1>1 DEF GapFree
<1>3. /\ Len(g) \in Nat /\ Len(h) = Len(g) + 1 /\ h[Len(h)] = e
      /\ \A j \in 1..Len(g) : h[j] = g[j]
  BY <1>1, AppendFacts
<1>4. CASE i = Len(g)
  BY <1>2, <1>3, <1>4
<1>5. CASE i < Len(g)
  BY <1>2, <1>3, <1>5 DEF GapFree
<1> QED BY <1>3, <1>4, <1>5

\* The answers to a turn's last call complete its round.
LEMMA AppendRounds ==
    ASSUME NEW t, NEW g \in Seq(Entries), NEW e \in Entries, Rounds(t, g),
           g # <<>> /\ g[Len(g)].turn = t /\ Asks(g[Len(g)]) =>
               e = Entry(t, "answers", g[Len(g)].tools)
    PROVE  Rounds(t, Append(g, e))
<1>1. PICK h : h = Append(g, e)
  OBVIOUS
<1>2. SUFFICES ASSUME NEW i \in 1..Len(h) - 1, h[i].turn = t, Asks(h[i])
               PROVE  h[i + 1] = Entry(t, "answers", h[i].tools)
  BY <1>1 DEF Rounds
<1>3. /\ Len(g) \in Nat /\ Len(h) = Len(g) + 1 /\ h[Len(h)] = e
      /\ \A j \in 1..Len(g) : h[j] = g[j]
  BY <1>1, AppendFacts
<1>4. CASE i = Len(g)
  BY <1>2, <1>3, <1>4
<1>5. CASE i < Len(g)
  BY <1>2, <1>3, <1>5 DEF Rounds
<1> QED BY <1>3, <1>4, <1>5

\* A message of another turn, or a closing one, leaves a history settled.
LEMMA AppendSettled ==
    ASSUME NEW t, NEW g \in Seq(Entries), NEW e \in Entries,
           \/ Settled(t, g) /\ e.turn # t
           \/ /\ Rounds(t, g) /\ ~Asks(e)
              /\ g # <<>> /\ g[Len(g)].turn = t /\ Asks(g[Len(g)]) =>
                    e \in {Entry(t, "answers", g[Len(g)].tools), Entry(t, "text", {})}
    PROVE  Settled(t, Append(g, e))
<1>1. PICK h : h = Append(g, e)
  OBVIOUS
<1>2. SUFFICES ASSUME NEW i \in 1..Len(h), h[i].turn = t, Asks(h[i])
               PROVE  Followed(h, i, "answers", h[i].tools) \/ Followed(h, i, "text", {})
  BY <1>1 DEF Settled
<1>3. /\ Len(g) \in Nat /\ Len(h) = Len(g) + 1 /\ h[Len(h)] = e
      /\ \A j \in 1..Len(g) : h[j] = g[j]
  BY <1>1, AppendFacts
<1>4. i # Len(h)
  BY <1>2, <1>3
<1>5. CASE i = Len(g)
  BY <1>2, <1>3, <1>5 DEF Followed, Settled
<1>6. CASE i < Len(g)
  BY <1>2, <1>3, <1>6 DEF Followed, Settled, Rounds
<1> QED BY <1>3, <1>4, <1>5, <1>6

\* Beginning with a history is reflexive, and stays so as the thread grows.
LEMMA BeginsFacts ==
    ASSUME NEW h \in Seq(Entries)
    PROVE  /\ Begins(h, h)
           /\ \A g \in Seq(Entries), e \in Entries : Begins(h, g) => Begins(h, Append(g, e))
BY DEF Begins

\* What GoTo does to the versions and to the checkpoints of its turn.
LEMMA GoToVersions ==
    ASSUME TypeOK, NEW t \in Turns, NEW n \in Nodes, NEW s \in States, GoTo(t, n, s),
           UNCHANGED saved
    PROVE  /\ \A h \in Versions' : h \in Versions \/ h = s.history
           /\ puts'[t] # <<>> /\ puts'[t][Len(puts'[t])] = s
           /\ Len(puts[t]) \in Nat /\ Len(puts'[t]) = Len(puts[t]) + 1
           /\ \A i \in 1..Len(puts[t]) : puts'[t][i] = puts[t][i]
           /\ node'[t] = n /\ state'[t] = s
           /\ \A u \in Turns \ {t} :
                 node'[u] = node[u] /\ state'[u] = state[u] /\ puts'[u] = puts[u]
<1>1. /\ node'[t] = n /\ state'[t] = s /\ puts'[t] = Append(puts[t], s)
      /\ \A u \in Turns \ {t} :
            node'[u] = node[u] /\ state'[u] = state[u] /\ puts'[u] = puts[u]
  BY DEF GoTo, TypeOK
<1>2. /\ puts'[t] # <<>> /\ puts'[t][Len(puts'[t])] = s
      /\ Len(puts[t]) \in Nat /\ Len(puts'[t]) = Len(puts[t]) + 1
      /\ \A i \in 1..Len(puts[t]) : puts'[t][i] = puts[t][i]
  <2>1. puts[t] \in Seq(States)
    BY DEF TypeOK
  <2> QED BY <1>1, <2>1
<1>3. ASSUME NEW h \in Versions' PROVE h \in Versions \/ h = s.history
  <2>1. \/ h = saved'.history
        \/ \E u \in Turns : h = state'[u].history
        \/ \E u \in Turns : \E i \in 1..Len(puts'[u]) : h = puts'[u][i].history
    BY VersionsDef DEF Versions
  <2>2. CASE h = saved'.history
    BY <2>2, VersionsDef DEF Versions
  <2>3. ASSUME NEW u \in Turns, h = state'[u].history PROVE h \in Versions \/ h = s.history
    BY <1>1, <2>3, VersionsDef DEF Versions
  <2>4. ASSUME NEW u \in Turns, NEW i \in 1..Len(puts'[u]), h = puts'[u][i].history
        PROVE  h \in Versions \/ h = s.history
    <3>1. CASE u # t
      BY <1>1, <2>4, <3>1, VersionsDef DEF Versions
    <3>2. CASE u = t /\ i <= Len(puts[t])
      BY <1>2, <2>4, <3>2, VersionsDef DEF Versions
    <3>3. CASE u = t /\ i = Len(puts[t]) + 1
      BY <1>2, <2>4, <3>3
    <3> QED BY <1>2, <3>1, <3>2, <3>3
  <2> QED BY <2>1, <2>2, <2>3, <2>4
<1> QED BY <1>1, <1>2, <1>3

\* The history a turn goes on from: the thread's when it starts, its own when
\* it runs.  A turn that starts beside others is overlapped, and so are they.
GoesOnFrom(t, g) ==
    \/ Running(t) /\ g = state[t].history /\ overlapped \subseteq overlapped'
    \/ /\ node[t].at = "start" /\ g = saved.history
       /\ overlapped \subseteq overlapped'
       /\ \A u \in Turns : Running(u) => {t, u} \subseteq overlapped'

\* A turn goes on with the history it had or one entry more, to a node that
\* fits what it now says.
LEMMA GoOnHistory ==
    ASSUME IInv, HistoryInv, NEW t \in Turns, NEW n \in Nodes, NEW s \in States,
           GoTo(t, n, s), UNCHANGED saved,
           NEW g \in Versions, GoesOnFrom(t, g),
           \/ s.history = g
           \/ \E e \in Entries :
                 /\ e.turn = t /\ s.history = Append(g, e)
                 /\ g # <<>> /\ Asks(g[Len(g)]) => Closes(g[Len(g)], e),
           n.at \in Working \cup {"end"},
           n.at = "end" => Settled(t, s.history),
           n.at # "end" => /\ s.history # <<>>
                           /\ LastFits(t, n.at, s.history[Len(s.history)])
                           /\ Rounds(t, s.history)
    PROVE  HistoryInv'
<1> USE DEF IInv, HistoryInv
<1>1. /\ \A h \in Versions' : h \in Versions \/ h = s.history
      /\ puts'[t] # <<>> /\ puts'[t][Len(puts'[t])] = s
      /\ Len(puts[t]) \in Nat /\ Len(puts'[t]) = Len(puts[t]) + 1
      /\ \A i \in 1..Len(puts[t]) : puts'[t][i] = puts[t][i]
      /\ node'[t] = n /\ state'[t] = s
      /\ \A u \in Turns \ {t} :
            node'[u] = node[u] /\ state'[u] = state[u] /\ puts'[u] = puts[u]
  BY GoToVersions
<1>2. overlapped \subseteq overlapped' /\ saved' = saved
  BY DEF GoesOnFrom
<1>3. n.at \notin {"start", "done", "failed", "lost"} /\ Running(t)'
  BY <1>1 DEF Working, Running
<1>4. \A u \in Turns \ {t} : Running(u)' = Running(u)
  BY <1>1 DEF Running
<1>5. g \in Seq(Entries)
  BY VersionsType
<1>6. FreshInv'
  <2>1. \A u \in Turns : u # t /\ Foreign(u, g) => Foreign(u, s.history)
    <3>1. ASSUME NEW e \in Entries, e.turn = t, s.history = Append(g, e)
          PROVE  \A u \in Turns : u # t /\ Foreign(u, g) => Foreign(u, s.history)
      <4>1. /\ Len(g) \in Nat /\ Len(s.history) = Len(g) + 1
            /\ s.history[Len(s.history)] = e
            /\ \A i \in 1..Len(g) : s.history[i] = g[i]
        BY <1>5, <3>1, AppendFacts
      <4> QED BY <3>1, <4>1 DEF Foreign
    <3> QED BY <3>1
  <2>2. \A u \in Turns : node'[u].at = "start" => u # t /\ node[u].at = "start"
    BY <1>1, <1>3
  <2>3. \A u \in Turns : node[u].at = "start" => Foreign(u, g)
    BY DEF FreshInv
  <2>4. ASSUME NEW u \in Turns, NEW h \in Versions', node'[u].at = "start"
        PROVE  Foreign(u, h)
    BY <1>1, <2>1, <2>2, <2>3, <2>4 DEF FreshInv
  <2> QED BY <2>4 DEF FreshInv
<1>7. GapInv'
  <2>1. GapFree(g)
    BY DEF GapInv
  <2>2. GapFree(s.history)
    BY <1>5, <2>1, AppendGapFree
  <2> QED BY <1>1, <2>2 DEF GapInv
<1>8. WorkInv'
  <2>1. ASSUME NEW u \in Turns \ {t}, node'[u].at \in Working
        PROVE  /\ state'[u].history # <<>> /\ LastFits(u, node'[u].at, Last(u)')
               /\ Rounds(u, state'[u].history)
    BY <1>1, <2>1 DEF WorkInv, Last
  <2>2. ASSUME node'[t].at \in Working
        PROVE  /\ state'[t].history # <<>> /\ LastFits(t, node'[t].at, Last(t)')
               /\ Rounds(t, state'[t].history)
    BY <1>1, <2>2 DEF Last, Working
  <2> QED BY <2>1, <2>2 DEF WorkInv
<1>9. PutsInv'
  <2>1. ASSUME NEW u \in Turns, ~Running(u)' PROVE puts'[u] = <<>>
    BY <1>1, <1>3, <1>4, <2>1 DEF PutsInv
  <2>2. ASSUME NEW u \in Turns, puts'[u] # <<>>
        PROVE  puts'[u][Len(puts'[u])] = state'[u]
    BY <1>1, <2>2 DEF PutsInv
  <2>3. ASSUME NEW u \in Turns, Running(u)', u \notin overlapped'
        PROVE  /\ \A v \in Turns \ {u} : ~Running(v)'
               /\ puts'[u] = <<>> => saved' = state'[u]
    <3>1. CASE u = t
      BY <1>1, <1>2, <1>4, <2>3, <3>1 DEF GoesOnFrom, PutsInv
    <3>2. CASE u # t
      <4>1. Running(u) /\ u \notin overlapped
        BY <1>2, <1>4, <2>3, <3>2
      <4>2. ~Running(t)
        BY <3>2, <4>1 DEF PutsInv
      <4> QED BY <2>3, <4>1, <4>2 DEF GoesOnFrom
    <3> QED BY <3>1, <3>2
  <2> QED BY <2>1, <2>2, <2>3 DEF PutsInv
<1>10. KeptInv'
  <2> SUFFICES ASSUME NEW d \in Turns, d \notin overlapped', node'[d].at = "done"
               PROVE  /\ Begins(state'[d].history, saved'.history)
                      /\ \A u \in Turns : Running(u)' =>
                            /\ Begins(state'[d].history, state'[u].history)
                            /\ \A i \in 1..Len(puts'[u]) :
                                  Begins(state'[d].history, puts'[u][i].history)
    BY DEF KeptInv
  <2> DEFINE h == state[d].history
  <2>1. /\ d # t /\ node[d].at = "done" /\ d \notin overlapped /\ state'[d] = state[d]
        /\ h \in Seq(Entries)
    BY <1>1, <1>2, <1>3 DEF TypeOK, States
  <2> HIDE DEF h
  <2>2. /\ Begins(h, saved.history)
        /\ \A u \in Turns : Running(u) =>
              /\ Begins(h, state[u].history)
              /\ \A i \in 1..Len(puts[u]) : Begins(h, puts[u][i].history)
    BY <2>1 DEF KeptInv, h
  <2>3. Begins(h, g)
    BY <2>2 DEF GoesOnFrom
  <2>4. Begins(h, s.history)
    BY <1>5, <2>1, <2>3, BeginsFacts
  <2>5. ASSUME NEW u \in Turns \ {t}, Running(u)'
        PROVE  /\ Begins(h, state'[u].history)
               /\ \A i \in 1..Len(puts'[u]) : Begins(h, puts'[u][i].history)
    BY <1>1, <1>4, <2>2, <2>5
  <2>6. \A i \in 1..Len(puts[t]) : Begins(h, puts[t][i].history)
    <3>1. CASE Running(t)
      BY <2>2, <3>1
    <3>2. CASE ~Running(t)
      <4>1. puts[t] = <<>>
        BY <3>2 DEF PutsInv
      <4> QED BY <4>1
    <3> QED BY <3>1, <3>2
  <2>7. /\ Begins(h, state'[t].history)
        /\ \A i \in 1..Len(puts'[t]) : Begins(h, puts'[t][i].history)
    <3>1. Begins(h, state'[t].history)
      BY <1>1, <2>4
    <3>2. ASSUME NEW i \in 1..Len(puts'[t]) PROVE Begins(h, puts'[t][i].history)
      <4>1. CASE i \in 1..Len(puts[t])
        BY <1>1, <2>6, <4>1
      <4>2. CASE i \notin 1..Len(puts[t])
        <5>1. i = Len(puts'[t])
          BY <1>1, <4>2
        <5> QED BY <1>1, <2>4, <5>1
      <4> QED BY <4>1, <4>2
    <3> QED BY <3>1, <3>2
  <2> QED BY <1>2, <2>1, <2>2, <2>5, <2>7 DEF h
<1>11. EndInv'
  BY <1>1 DEF SettledInv, EndInv
<1>12. AloneInv'
  <2> SUFFICES ASSUME NEW u \in Turns, u \notin overlapped', Running(u)',
                      NEW v \in Turns \ {u}
               PROVE  Foreign(u, state'[v].history)
    BY DEF AloneInv
  <2>1. CASE u = t
    <3>1. state'[v] = state[v] /\ u \notin overlapped
      BY <1>1, <1>2, <2>1
    <3>2. CASE Running(t)
      BY <2>1, <3>1, <3>2 DEF SettledInv, AloneInv
    <3>3. CASE node[t].at = "start"
      <4>1. state[v].history \in Versions
        BY VersionsDef DEF Versions
      <4> QED BY <2>1, <3>1, <3>3, <4>1 DEF FreshInv
    <3> QED BY <3>2, <3>3 DEF GoesOnFrom
  <2>2. CASE u # t
    <3>1. Running(u) /\ u \notin overlapped
      BY <1>2, <1>4, <2>2
    <3>2. ~Running(t)
      BY <2>2, <3>1 DEF PutsInv
    <3> QED BY <3>1, <3>2 DEF GoesOnFrom
  <2> QED BY <2>1, <2>2
<1>13. DoneInv'
  <2> SUFFICES ASSUME NEW u \in Turns, u \notin overlapped', node'[u].at = "done",
                      NEW h \in Versions'
               PROVE  Settled(u, h)
    BY DEF DoneInv
  <2>1. u # t /\ node[u].at = "done" /\ u \notin overlapped
    BY <1>1, <1>2, <1>3
  <2>2. \A k \in Versions : Settled(u, k)
    BY <2>1 DEF SettledInv, DoneInv
  <2>3. Settled(u, s.history)
    <3>1. CASE s.history = g
      BY <2>2, <3>1
    <3>2. ASSUME NEW e \in Entries, e.turn = t, s.history = Append(g, e)
          PROVE  Settled(u, s.history)
      BY <1>5, <2>1, <2>2, <3>2, AppendSettled
    <3> QED BY <3>1, <3>2
  <2> QED BY <1>1, <2>2, <2>3
<1> QED BY <1>6, <1>7, <1>8, <1>9, <1>10, <1>11, <1>12, <1>13 DEF SettledInv

\* The checkpoint that is written, and those that are left.
LEMMA TailFacts ==
    ASSUME NEW S, NEW q \in Seq(S), q # <<>>
    PROVE  /\ Len(q) \in Nat \ {0} /\ Head(q) = q[1]
           /\ Len(Tail(q)) = Len(q) - 1
           /\ \A i \in 1..Len(Tail(q)) : i + 1 \in 1..Len(q) /\ Tail(q)[i] = q[i + 1]
           /\ Tail(q) = <<>> <=> Len(q) = 1
<1>1. Len(q) \in Nat \ {0} /\ Head(q) = q[1]
  OBVIOUS
<1>2. Tail(q) \in Seq(S) /\ Len(Tail(q)) = Len(q) - 1
  OBVIOUS
<1>3. \A i \in 1..Len(Tail(q)) : Tail(q)[i] = q[i + 1]
  OBVIOUS
<1>4. Tail(q) = <<>> <=> Len(q) = 1
  <2>1. Len(Tail(q)) = 0 => Tail(q) = <<>>
    BY <1>2, EmptySeq
  <2> QED BY <1>1, <1>2, <2>1
<1>5. \A i \in 1..Len(Tail(q)) : i + 1 \in 1..Len(q)
  BY <1>1, <1>2
<1> QED BY <1>1, <1>2, <1>3, <1>4, <1>5

\* A checkpoint that is written was a version, and its turn has left it behind.
LEMMA PutHistory == ASSUME IInv, HistoryInv, NEW t \in Turns, Put(t) PROVE HistoryInv'
<1> USE DEF IInv, HistoryInv
<1>1. /\ puts[t] \in Seq(States) /\ puts[t] # <<>>
      /\ saved' = Head(puts[t]) /\ puts'[t] = Tail(puts[t])
      /\ \A u \in Turns \ {t} : puts'[u] = puts[u]
      /\ UNCHANGED <<state, node, overlapped>>
  BY DEF Put, TypeOK
<1>2. /\ Len(puts[t]) \in Nat \ {0} /\ Len(puts'[t]) = Len(puts[t]) - 1
      /\ saved' = puts[t][1]
      /\ \A i \in 1..Len(puts'[t]) :
            i + 1 \in 1..Len(puts[t]) /\ puts'[t][i] = puts[t][i + 1]
      /\ puts'[t] = <<>> <=> Len(puts[t]) = 1
  BY <1>1, TailFacts
<1>3. \A u \in Turns : Running(u)' = Running(u)
  BY <1>1 DEF Running
<1>4. Running(t)
  BY <1>1 DEF PutsInv
<1>5. \A u \in Turns : \A i \in 1..Len(puts'[u]) :
         \E j \in 1..Len(puts[u]) : puts'[u][i] = puts[u][j]
  <2>1. \A u \in Turns \ {t} : \A i \in 1..Len(puts'[u]) :
           \E j \in 1..Len(puts[u]) : puts'[u][i] = puts[u][j]
    BY <1>1
  <2>2. \A i \in 1..Len(puts'[t]) : \E j \in 1..Len(puts[t]) : puts'[t][i] = puts[t][j]
    BY <1>2
  <2> QED BY <2>1, <2>2
<1>6. \A h \in Versions' : h \in Versions
  <2>1. 1 \in 1..Len(puts[t])
    BY <1>2
  <2>2. ASSUME NEW h \in Versions' PROVE h \in Versions
    <3>1. \/ h = saved'.history
          \/ \E u \in Turns : h = state'[u].history
          \/ \E u \in Turns : \E i \in 1..Len(puts'[u]) : h = puts'[u][i].history
      BY VersionsDef DEF Versions
    <3>2. CASE h = saved'.history
      BY <1>2, <2>1, <3>2, VersionsDef DEF Versions
    <3>3. CASE \E u \in Turns : h = state'[u].history
      BY <1>1, <3>3, VersionsDef DEF Versions
    <3>4. CASE \E u \in Turns : \E i \in 1..Len(puts'[u]) : h = puts'[u][i].history
      BY <1>5, <3>4, VersionsDef DEF Versions
    <3> QED BY <3>1, <3>2, <3>3, <3>4
  <2> QED BY <2>2
<1>7. FreshInv' /\ GapInv' /\ WorkInv'
  BY <1>1, <1>6 DEF FreshInv, GapInv, WorkInv, Last
<1>8. PutsInv'
  <2>1. ASSUME NEW u \in Turns
        PROVE  /\ ~Running(u)' => puts'[u] = <<>>
               /\ puts'[u] # <<>> => puts'[u][Len(puts'[u])] = state'[u]
    <3>1. CASE u = t
      <4>1. puts[t][Len(puts[t])] = state[t] /\ state' = state
        BY <1>1 DEF PutsInv
      <4>2. ASSUME puts'[t] # <<>> PROVE puts'[t][Len(puts'[t])] = puts[t][Len(puts[t])]
        <5>1. Len(puts'[t]) \in 1..Len(puts'[t])
          BY <1>2, <4>2
        <5> QED BY <1>2, <5>1
      <4> QED BY <1>3, <1>4, <3>1, <4>1, <4>2
    <3>2. CASE u # t
      BY <1>1, <1>3, <3>2 DEF PutsInv
    <3> QED BY <3>1, <3>2
  <2>2. ASSUME NEW u \in Turns, Running(u)', u \notin overlapped'
        PROVE  /\ \A v \in Turns \ {u} : ~Running(v)'
               /\ puts'[u] = <<>> => saved' = state'[u]
    <3>1. u = t
      BY <1>1, <1>3, <1>4, <2>2 DEF PutsInv
    <3> QED BY <1>1, <1>2, <1>3, <2>2, <3>1 DEF PutsInv
  <2> QED BY <2>1, <2>2 DEF PutsInv
<1>9. KeptInv'
  <2>1. ASSUME NEW d \in Turns \ overlapped, node[d].at = "done"
        PROVE  /\ Begins(state[d].history, saved'.history)
               /\ \A u \in Turns : Running(u) =>
                     \A i \in 1..Len(puts'[u]) : Begins(state[d].history, puts'[u][i].history)
    <3>1. /\ Begins(state[d].history, saved.history)
          /\ \A u \in Turns : Running(u) =>
                \A i \in 1..Len(puts[u]) : Begins(state[d].history, puts[u][i].history)
      BY <2>1 DEF KeptInv
    <3>2. 1 \in 1..Len(puts[t])
      BY <1>2
    <3>3. Begins(state[d].history, saved'.history)
      BY <1>2, <1>4, <3>1, <3>2
    <3> QED BY <1>5, <3>1, <3>3
  <2> QED BY <1>1, <1>3, <2>1 DEF KeptInv
<1>10. SettledInv'
  BY <1>1, <1>3, <1>6 DEF SettledInv, EndInv, AloneInv, DoneInv
<1> QED BY <1>7, <1>8, <1>9, <1>10

\* A turn returns when Redis has what it said; one that fails or is lost
\* leaves there what it had got to.
LEMMA StopHistory ==
    ASSUME IInv, HistoryInv, NEW t \in Turns, Finish(t) \/ Fail(t) \/ Lose(t)
    PROVE  HistoryInv'
<1> USE DEF IInv, HistoryInv
<1>1. PICK n \in {"done", "failed", "lost"} :
         /\ node' = [node EXCEPT ![t] = At(n)]
         /\ n = "done" => puts[t] = <<>> /\ node[t].at = "end"
  BY DEF Finish, Fail, Lose
<1>2. node'[t].at = n /\ \A u \in Turns \ {t} : node'[u] = node[u]
  BY <1>1, NodeType DEF TypeOK
<1>3. /\ UNCHANGED <<saved, state, overlapped>>
      /\ puts'[t] = <<>> /\ \A u \in Turns \ {t} : puts'[u] = puts[u]
  BY DEF Finish, Fail, Lose, TypeOK
<1>4. Running(t)
  BY DEF Finish, Fail, Lose, Running
<1>5. ~Running(t)' /\ \A u \in Turns \ {t} : Running(u)' = Running(u)
  BY <1>2 DEF Running
<1>6. \A h \in Versions' : h \in Versions
  <2>1. \A u \in Turns : \A i \in 1..Len(puts'[u]) : u # t
    BY <1>3
  <2> QED BY <1>3, <2>1, VersionsDef DEF Versions
<1>7. FreshInv' /\ GapInv' /\ WorkInv'
  BY <1>2, <1>3, <1>6 DEF FreshInv, GapInv, WorkInv, Last, Working
<1>8. PutsInv'
  BY <1>3, <1>5 DEF PutsInv
<1>9. KeptInv'
  <2>1. ASSUME NEW d \in Turns \ overlapped, node'[d].at = "done"
        PROVE  /\ Begins(state[d].history, saved.history)
               /\ \A u \in Turns \ {t} : Running(u) =>
                     /\ Begins(state[d].history, state[u].history)
                     /\ \A i \in 1..Len(puts[u]) : Begins(state[d].history, puts[u][i].history)
    <3>1. CASE d = t
      <4>1. saved = state[t] /\ \A u \in Turns \ {t} : ~Running(u)
        BY <1>1, <1>2, <1>4, <2>1, <3>1 DEF PutsInv
      <4>2. state[t].history \in Seq(Entries)
        BY DEF TypeOK, States
      <4> QED BY <3>1, <4>1, <4>2, BeginsFacts
    <3>2. CASE d # t
      BY <1>2, <2>1, <3>2 DEF KeptInv
    <3> QED BY <3>1, <3>2
  <2> QED BY <1>3, <1>5, <2>1 DEF KeptInv
<1>10. EndInv' /\ AloneInv'
  BY <1>2, <1>3, <1>5 DEF SettledInv, EndInv, AloneInv
<1>11. DoneInv'
  <2> SUFFICES ASSUME NEW u \in Turns \ overlapped, node'[u].at = "done",
                      NEW h \in Versions'
               PROVE  Settled(u, h)
    BY <1>3 DEF DoneInv
  <2>1. h \in Versions
    BY <1>6
  <2>2. CASE u # t
    BY <1>2, <2>1, <2>2 DEF SettledInv, DoneInv
  <2>3. CASE u = t
    <3>1. /\ saved = state[t] /\ Settled(t, state[t].history)
          /\ \A v \in Turns \ {t} : ~Running(v) /\ Foreign(t, state[v].history)
      BY <1>1, <1>2, <1>4, <2>3 DEF PutsInv, SettledInv, EndInv, AloneInv
    <3>2. \A v \in Turns : puts'[v] = <<>>
      BY <1>3, <3>1 DEF PutsInv
    <3>3. \E v \in Turns : h = state[v].history
      <4>1. \A v \in Turns : Len(puts'[v]) = 0
        BY <3>2
      <4> QED BY <1>3, <3>1, <4>1, VersionsDef DEF Versions
    <3>4. \A v \in Turns \ {t} : Settled(t, state[v].history)
      BY <3>1 DEF Foreign, Settled
    <3> QED BY <2>3, <3>1, <3>3, <3>4
  <2> QED BY <2>2, <2>3
<1> QED BY <1>7, <1>8, <1>9, <1>10, <1>11 DEF SettledInv

\* A turn starts from the thread in Redis, with the customer's message.
LEMMA StartHistory == ASSUME IInv, HistoryInv, NEW t \in Turns, Start(t) PROVE HistoryInv'
<1> USE DEF IInv, HistoryInv
<1> DEFINE g == saved.history
           e == Entry(t, "human", {})
           s == Input(t, saved)
<1>1. /\ g \in Seq(Entries) /\ g \in Versions /\ e \in Entries
      /\ e.turn = t /\ e.kind = "human"
  BY VersionsDef, EntryType DEF TypeOK, States, Versions, Entry
<1>2. s \in States /\ s.history = Append(g, e)
  <2> DEFINE r == [saved EXCEPT !.history = Append(@, e)]
  <2>1. r \in States /\ r.history = Append(g, e)
    BY <1>1, StateType DEF TypeOK
  <2>2. s = [r EXCEPT !.iterations = 0]
    BY DEF Input, TypeOK, States
  <2> HIDE DEF r, s, g, e
  <2> QED BY <2>1, <2>2, IterationsAssumption DEF States
<1>3. Foreign(t, g)
  BY <1>1 DEF FreshInv, Start
<1>4. GoTo(t, At("supervisor"), s) /\ UNCHANGED saved
  BY DEF Start
<1>5. GoesOnFrom(t, g)
  BY DEF Start, GoesOnFrom
<1> HIDE DEF g, e, s
<1>6. /\ s.history # <<>> /\ s.history[Len(s.history)] = e
      /\ Len(g) \in Nat /\ (g # <<>> => Len(g) \in 1..Len(g) /\ g[Len(g)] \in Entries)
  BY <1>1, <1>2
<1>7. g # <<>> => g[Len(g)].turn # t
  BY <1>3, <1>6 DEF Foreign
<1>8. Rounds(t, s.history)
  <2>1. Rounds(t, g)
    BY <1>1, <1>3 DEF Rounds, Foreign
  <2> QED BY <1>1, <1>2, <1>7, <2>1, AppendRounds
<1>9. g # <<>> /\ Asks(g[Len(g)]) => Closes(g[Len(g)], e)
  BY <1>1, <1>7 DEF Closes
<1>10. LastFits(t, "supervisor", e)
  BY <1>1 DEF LastFits
<1>11. At("supervisor") \in Nodes /\ At("supervisor").at = "supervisor"
  BY NodeType
<1> QED BY <1>1, <1>2, <1>4, <1>5, <1>6, <1>8, <1>9, <1>10, <1>11, GoOnHistory DEF Working

\* The supervisor says nothing.
LEMMA SupervisorHistory ==
    ASSUME IInv, HistoryInv, NEW t \in Turns, NEW p \in Specialists \cup {"invalid"},
           CallSupervisor(t, p)
    PROVE  HistoryInv'
<1> USE DEF IInv, HistoryInv
<1> DEFINE n == IF p \in Specialists THEN AtModel(p) ELSE At("invalid")
           s == [state[t] EXCEPT !.agent = p]
           g == state[t].history
<1>1. s \in States /\ s.history = g /\ g \in Versions
  BY VersionsDef DEF TypeOK, States, Versions
<1>2. n \in Nodes /\ n.at \in {"model", "invalid"}
  BY NodeType
<1>3. /\ GoTo(t, n, s) /\ UNCHANGED <<saved, overlapped>>
      /\ node[t].at = "supervisor"
  BY DEF CallSupervisor, Superstep
<1>4. GoesOnFrom(t, g)
  BY <1>3 DEF GoesOnFrom, Running
<1>5. g # <<>> /\ LastFits(t, "supervisor", g[Len(g)]) /\ Rounds(t, g)
  BY <1>3 DEF WorkInv, Working, Last
<1> HIDE DEF g, n, s
<1>6. LastFits(t, n.at, g[Len(g)])
  BY <1>2, <1>5 DEF LastFits
<1> QED BY <1>1, <1>2, <1>3, <1>4, <1>5, <1>6, GoOnHistory DEF Working

\* A turn at work says one thing more.
LEMMA SaysMore ==
    ASSUME IInv, HistoryInv, NEW t \in Turns, NEW n \in Nodes, NEW s \in States,
           GoTo(t, n, s), UNCHANGED <<saved, overlapped>>,
           node[t].at \in Working, n.at \in Working \cup {"end"},
           NEW e \in Entries, e.turn = t, s.history = Append(state[t].history, e),
           Asks(Last(t)) =>
               \/ e = Entry(t, "answers", Last(t).tools)
               \/ e = Entry(t, "text", {}) /\ n.at = "end",
           n.at = "end" => e.kind = "text",
           n.at # "end" => LastFits(t, n.at, e)
    PROVE  HistoryInv'
<1> USE DEF IInv, HistoryInv
<1> DEFINE g == state[t].history
<1>1. g \in Seq(Entries) /\ g \in Versions
  BY VersionsDef DEF TypeOK, States, Versions
<1>2. g # <<>> /\ LastFits(t, node[t].at, Last(t)) /\ Rounds(t, g) /\ Last(t) = g[Len(g)]
  BY DEF WorkInv, Last
<1>3. GoesOnFrom(t, g)
  BY DEF GoesOnFrom, Running, Working
<1> HIDE DEF g
<1>4. s.history # <<>> /\ s.history[Len(s.history)] = e
  BY <1>1, AppendFacts DEF g
<1>5. g[Len(g)].turn = t
  BY <1>2 DEF LastFits
<1>6. g # <<>> /\ Asks(g[Len(g)]) => Closes(g[Len(g)], e)
  BY <1>2, <1>5 DEF Closes
<1>7. n.at # "end" => Rounds(t, s.history)
  BY <1>1, <1>2, AppendRounds DEF g
<1>8. \E x \in Entries :
         /\ x.turn = t /\ s.history = Append(g, x)
         /\ g # <<>> /\ Asks(g[Len(g)]) => Closes(g[Len(g)], x)
  BY <1>6 DEF g
<1>9. n.at # "end" => /\ s.history # <<>>
                      /\ LastFits(t, n.at, s.history[Len(s.history)])
                      /\ Rounds(t, s.history)
  BY <1>4, <1>7
<1>10. n.at = "end" => Settled(t, s.history)
  <2> SUFFICES ASSUME n.at = "end" PROVE Settled(t, Append(g, e))
    BY DEF g
  <2>1. ~Asks(e)
    BY DEF Asks
  <2>2. Asks(g[Len(g)]) => e \in {Entry(t, "answers", g[Len(g)].tools), Entry(t, "text", {})}
    BY <1>2
  <2> QED BY <1>1, <1>2, <2>1, <2>2, AppendSettled
<1> QED BY <1>1, <1>3, <1>8, <1>9, <1>10, GoOnHistory

\* A model speaks only when all it called for is answered.
LEMMA SpecialistHistory ==
    ASSUME IInv, HistoryInv, NEW t \in Turns, NEW k \in {"text", "call", "bad"},
           NEW T \in SUBSET Tools, CallSpecialist(t, k, T)
    PROVE  HistoryInv'
<1> USE DEF IInv, HistoryInv
<1> DEFINE i == state[t].iterations + 1
           a == node[t].of
           n == Route(a, k, i)
           s == [Said(t, k, T) EXCEPT !.iterations = i, !.agent = a]
           e == Entry(t, k, T)
<1>1. /\ node[t].at = "model" /\ a \in Specialists
      /\ state[t].iterations \in Nat /\ state[t].iterations < MaxIterations
      /\ state[t] \in States
  BY IterationsAssumption DEF CallSpecialist, PickInv, StepsInv, TypeOK, States
<1>2. e \in Entries /\ e.turn = t /\ e.kind = k
  BY EntryType DEF Entry
<1>3. Said(t, k, T) \in States /\ Said(t, k, T).history = Append(state[t].history, e)
  BY <1>1, <1>2, StateType DEF Said, States
<1>4. s \in States /\ s.history = Append(state[t].history, e)
  <2> DEFINE m == Said(t, k, T)
  <2>1. s = [m EXCEPT !.iterations = i, !.agent = a]
    OBVIOUS
  <2>2. i \in 0..MaxIterations /\ a \in Specialists
    BY <1>1, IterationsAssumption
  <2> HIDE DEF m, i, a, s, e
  <2> QED BY <1>3, <2>1, <2>2 DEF States, m
<1>5. /\ n \in Nodes
      /\ \/ k = "bad" /\ n.at = "invalid"
         \/ k = "text" /\ n.at = "end"
         \/ k = "call" /\ n.at \in {"limit", "tools"}
  BY <1>1, NodeType DEF Route
<1>6. GoTo(t, n, s) /\ UNCHANGED <<saved, overlapped>>
  BY DEF CallSpecialist, Superstep
<1>7. ~Asks(Last(t))
  BY <1>1 DEF WorkInv, LastFits, Working, Asks
<1> HIDE DEF i, a, n, s, e
<1>8. n.at # "end" => LastFits(t, n.at, e)
  BY <1>2, <1>5 DEF LastFits
<1> QED BY <1>1, <1>2, <1>4, <1>5, <1>6, <1>7, <1>8, SaysMore DEF Working

\* A tool node answers the call it was reached by.
LEMMA RunToolsHistory ==
    ASSUME IInv, HistoryInv, NEW t \in Turns, RunTools(t) PROVE HistoryInv'
<1> USE DEF IInv, HistoryInv
<1> DEFINE n == AtModel(node[t].of)
           e == Entry(t, "answers", Last(t).tools)
           s == Said(t, "answers", Last(t).tools)
<1>1. node[t].at = "tools" /\ n \in Nodes /\ n.at = "model"
  BY NodeType DEF RunTools, PickInv
<1>2. state[t].history \in Seq(Entries) /\ state[t].history # <<>>
  BY <1>1 DEF CallInv, TypeOK, States
<1>3. Last(t) \in Entries /\ Last(t).tools \in SUBSET Tools
  <2>1. Last(t) \in Entries
    BY <1>2 DEF Last
  <2> QED BY <2>1 DEF Entries
<1>4. e \in Entries /\ e.turn = t /\ e.kind = "answers"
  BY <1>3, EntryType DEF Entry
<1>5. s \in States /\ s.history = Append(state[t].history, e)
  BY <1>4, StateType DEF Said, TypeOK, States
<1>6. GoTo(t, n, s) /\ UNCHANGED <<saved, overlapped>>
  BY DEF RunTools, Superstep
<1>7. LastFits(t, "model", e)
  BY <1>4 DEF LastFits
<1> HIDE DEF n, s
<1> QED BY <1>1, <1>4, <1>5, <1>6, <1>7, SaysMore DEF Working

\* A turn may end on its call: the limit message is what follows it.
LEMMA ApologiseHistory ==
    ASSUME IInv, HistoryInv, NEW t \in Turns, Apologise(t) PROVE HistoryInv'
<1> USE DEF IInv, HistoryInv
<1> DEFINE n == At("end")
           e == Entry(t, "text", {})
           s == Said(t, "text", {})
<1>1. n \in Nodes /\ n.at = "end"
  BY NodeType
<1>2. e \in Entries /\ e.turn = t /\ e.kind = "text"
  BY EntryType DEF Entry
<1>3. s \in States /\ s.history = Append(state[t].history, e)
  BY <1>2, StateType DEF Said, TypeOK, States
<1>4. GoTo(t, n, s) /\ UNCHANGED <<saved, overlapped>> /\ node[t].at \in Working
  BY DEF Apologise, Superstep, Working
<1> HIDE DEF n, s
<1> QED BY <1>1, <1>2, <1>3, <1>4, SaysMore

\* The history of the thread is what HistoryInv says, whatever the models say
\* and wherever turns fail, stop or overlap.
LEMMA HistoryCorrect == Spec => []HistoryInv
<1>1. Init => HistoryInv
  <2> SUFFICES ASSUME Init PROVE HistoryInv
    OBVIOUS
  <2>1. \A t \in Turns : node[t].at = "start" /\ puts[t] = <<>> /\ state[t].history = <<>>
    BY NodeType DEF Init, Empty
  <2>2. \A h \in Versions : h = <<>>
    BY <2>1, VersionsDef DEF Versions, Init, Empty
  <2>3. FreshInv /\ GapInv
    BY <2>2 DEF FreshInv, Foreign, GapInv, GapFree
  <2> QED BY <2>1, <2>3 DEF HistoryInv, WorkInv, Working, PutsInv, KeptInv, Running,
                            SettledInv, EndInv, AloneInv, DoneInv
<1>2. IInv /\ HistoryInv /\ [Next]_vars => HistoryInv'
  <2> SUFFICES ASSUME IInv, HistoryInv, [Next]_vars PROVE HistoryInv'
    OBVIOUS
  <2>1. CASE UNCHANGED vars
    BY <2>1 DEF vars, HistoryInv, FreshInv, GapInv, WorkInv, PutsInv, KeptInv, SettledInv, EndInv,
                AloneInv, DoneInv, Versions, VersionsOf, Last, Running
  <2>2. CASE Next
    <3> PICK t \in Turns : Start(t) \/ TurnSteps(t) \/ Lose(t)
      BY <2>2 DEF Next
    <3> QED BY StartHistory, SupervisorHistory, SpecialistHistory, RunToolsHistory,
               ApologiseHistory, PutHistory, StopHistory DEF TurnSteps
  <2> QED BY <2>1, <2>2
<1> QED BY <1>1, <1>2, Inductive, PTL DEF Spec

\* Whatever the models are sent, the calls without answers in it are of earlier
\* turns that were cut short or overlapped (call_supervisor, call_specialist).
THEOREM OnlyCutTurnsLeaveCalls == Spec => []OpenCallsAreOfCutTurns
<1>1. IInv /\ HistoryInv => OpenCallsAreOfCutTurns
  <2> SUFFICES ASSUME IInv, HistoryInv,
                      NEW t \in Turns, node[t].at \in {"supervisor", "model"},
                      NEW i \in Unanswered(state[t].history)
               PROVE  LET h == state[t].history IN
                      /\ h[i].turn # t
                      /\ \/ Followed(h, i, "text", {})
                         \/ node[h[i].turn].at \in {"failed", "lost"}
                         \/ h[i].turn \in overlapped
    BY DEF OpenCallsAreOfCutTurns
  <2> DEFINE h == state[t].history
             u == h[i].turn
  <2>1. h \in Seq(Entries) /\ h \in Versions
    BY VersionsDef DEF IInv, TypeOK, States, Versions
  <2>2. /\ i \in 1..Len(h) /\ Asks(h[i]) /\ ~Followed(h, i, "answers", h[i].tools)
        /\ u \in Turns
    <3>1. h[i] \in Entries
      BY <2>1 DEF Unanswered
    <3> QED BY <3>1 DEF Unanswered, Entries
  <2>3. u # t
    <3>1. LastFits(t, node[t].at, h[Len(h)]) /\ Rounds(t, h)
      BY DEF HistoryInv, WorkInv, Working, Last
    <3>2. Len(h) \in Nat /\ ~Asks(h[Len(h)])
      BY <2>1, <3>1 DEF LastFits, Asks
    <3>3. i < Len(h) /\ i \in 1..Len(h) - 1
      BY <2>2, <3>2
    <3> HIDE DEF h
    <3> QED BY <2>2, <3>1, <3>3 DEF Rounds, Followed
  <2>4. ASSUME u \notin overlapped, node[u].at \notin {"failed", "lost"}
        PROVE  Followed(h, i, "text", {})
    <3>1. node[u].at # "start"
      BY <2>1, <2>2 DEF HistoryInv, FreshInv, Foreign
    <3>2. ~Running(u)
      <4>1. Running(t)
        BY DEF Running
      <4> QED BY <2>2, <2>3, <2>4, <4>1 DEF HistoryInv, PutsInv
    <3>3. node[u].at = "done"
      BY <2>4, <3>1, <3>2 DEF Running
    <3>4. Settled(u, h)
      BY <2>1, <2>2, <2>4, <3>3 DEF HistoryInv, SettledInv, DoneInv
    <3> HIDE DEF h
    <3> QED BY <2>2, <3>4 DEF Settled
  <2> QED BY <2>3, <2>4
<1> QED BY <1>1, Inductive, HistoryCorrect, PTL

\* A call without an answer stands in the thread only where its turn was cut
\* short.
THEOREM GapsAreExplained == Spec => []GapsOnlyWhereCutShort
<1>1. IInv /\ HistoryInv => GapsOnlyWhereCutShort
  <2> SUFFICES ASSUME IInv, HistoryInv,
                      NEW i \in Unanswered(saved.history) \ {Len(saved.history)}
               PROVE  \/ Followed(saved.history, i, "text", {})
                      \/ /\ saved.history[i + 1].kind = "human"
                         /\ saved.history[i + 1].turn # saved.history[i].turn
    BY DEF GapsOnlyWhereCutShort
  <2> DEFINE h == saved.history
  <2>1. h \in Seq(Entries) /\ GapFree(h)
    BY VersionsDef DEF IInv, TypeOK, States, HistoryInv, GapInv, Versions
  <2> HIDE DEF h
  <2>2. /\ i \in 1..Len(h) /\ i # Len(h) /\ Asks(h[i])
        /\ ~Followed(h, i, "answers", h[i].tools)
    BY DEF Unanswered, h
  <2>3. i < Len(h) /\ i \in 1..Len(h) - 1
    BY <2>1, <2>2
  <2>4. Closes(h[i], h[i + 1])
    BY <2>1, <2>2, <2>3 DEF GapFree
  <2> QED BY <2>2, <2>3, <2>4 DEF Closes, Followed, h
<1> QED BY <1>1, Inductive, HistoryCorrect, PTL

\* The thread in Redis keeps what was said in a turn that has returned and
\* ran alone, whatever becomes of later turns.
THEOREM ReturnedTurnsStay == Spec => []FinishedTurnsAreKept
<1>1. IInv /\ HistoryInv => FinishedTurnsAreKept
  <2> SUFFICES ASSUME IInv, HistoryInv, NEW t \in Turns \ overlapped, node[t].at = "done"
               PROVE  LET h == state[t].history IN
                      Len(h) <= Len(saved.history) /\ SubSeq(saved.history, 1, Len(h)) = h
    BY DEF FinishedTurnsAreKept
  <2> DEFINE h == state[t].history
             g == saved.history
  <2>1. h \in Seq(Entries) /\ g \in Seq(Entries) /\ Begins(h, g)
    BY DEF IInv, TypeOK, States, HistoryInv, KeptInv
  <2> HIDE DEF h, g
  <2>2. Len(h) <= Len(g) /\ SubSeq(g, 1, Len(h)) = h
    BY <2>1 DEF Begins
  <2> QED BY <2>2 DEF h, g
<1> QED BY <1>1, Inductive, HistoryCorrect, PTL
=============================================================================
