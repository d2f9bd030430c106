----------------------- MODULE ConversationMemoryProofs -----------------------
(***************************************************************************)
(* A quiet conversation is closed in full, and what expires is in the      *)
(* summary.  A thread is settled when no turn of it is in flight and an    *)
(* end_conversation in flight has read all of it.  A thread with an idle   *)
(* marker is settled; a thread without a marker is settled and covered,    *)
(* unless the sweeper missed it.                                           *)
(***************************************************************************)
EXTENDS ConversationMemory, TLAPS

Steps == {"sleep", "next", "summarise", "drop", "drop failed"}

TypeInv ==
    /\ saved \in [Threads -> Nat]
    /\ gone \in [Threads -> Nat]
    /\ turn \in [Threads -> {"none", "touched", "asked"}]
    /\ marker \in [Threads -> {"none", "fresh", "idle"}]
    /\ covered \in [Threads -> Nat]
    /\ missed \in [Threads -> BOOLEAN]
    /\ sweep \in [stale : SUBSET Threads, step : Steps, on : SUBSET Threads,
                  read : Nat]
    /\ ending \in [Threads -> Nat]

\* What the sweeper works on is a thread it found, and only it takes markers.
SweepInv ==
    /\ sweep.on \subseteq sweep.stale
    /\ \A c, d \in sweep.on : c = d
    /\ \A c \in sweep.stale : marker[c] # "none"

Settled(c) == turn[c] = "none" /\ ending[c] \in {0, saved[c]}

\* The stored summary goes up to the end of what the checkpoint still holds.
Covered(c) == saved[c] > gone[c] => covered[c] = saved[c]

IdleInv(c) ==
    marker[c] = "idle" =>
        /\ Settled(c)
        /\ c \in sweep.on /\ sweep.step = "summarise" => sweep.read = saved[c]
        /\ c \in sweep.on /\ sweep.step = "drop" => Covered(c)

ClosedInv(c) == marker[c] = "none" /\ ~missed[c] => Settled(c) /\ Covered(c)

IInv == TypeInv /\ SweepInv /\ \A c \in Threads : IdleInv(c) /\ ClosedInv(c)

\* At first nothing has been said.
LEMMA InvInit == Init => IInv
BY DEF Init, Asleep, Steps, IInv, TypeInv, SweepInv, IdleInv, ClosedInv, Settled, Covered

\* A turn marks its thread before it says anything.
LEMMA TurnStep ==
    ASSUME IInv, NEW t \in Threads, Touch(t) \/ Ask(t) \/ Reply(t) \/ Idle(t)
    PROVE  IInv'
<1> USE DEF IInv, TypeInv
<1>1. TypeInv'
  <2>1. CASE Touch(t)
    BY <2>1 DEF Touch
  <2>2. CASE Ask(t)
    BY <2>2 DEF Ask
  <2>3. CASE Reply(t)
    BY <2>3 DEF Reply
  <2>4. CASE Idle(t)
    BY <2>4 DEF Idle, threadVars
  <2> QED
    BY <2>1, <2>2, <2>3, <2>4
<1>2. SweepInv'
  BY DEF Touch, Ask, Reply, Idle, threadVars, SweepInv
<1>3. ASSUME NEW c \in Threads PROVE (IdleInv(c) /\ ClosedInv(c))'
  <2> USE <1>3 DEF IdleInv, ClosedInv, Settled, Covered
  <2>1. CASE Touch(t)
    BY <2>1 DEF Touch
  <2>2. CASE Ask(t)
    BY <2>2 DEF Ask
  <2>3. CASE Reply(t)
    BY <2>3 DEF Reply
  <2>4. CASE Idle(t)
    BY <2>4 DEF Idle, threadVars
  <2> QED
    BY <2>1, <2>2, <2>3, <2>4
<1> QED
  BY <1>1, <1>2, <1>3

\* The sweeper drops an idle marker after a summary of all of the thread.
LEMMA SweepStep ==
    ASSUME IInv, Sweep \/ SweepFails
    PROVE  IInv'
<1> USE DEF IInv, TypeInv
<1>1. CASE FindIdle
  BY <1>1 DEF FindIdle, threadVars, Asleep, Steps, SweepInv, IdleInv, ClosedInv,
     Settled, Covered
<1>2. CASE SweepDone
  BY <1>2 DEF SweepDone, threadVars, Asleep, Steps, SweepInv, IdleInv, ClosedInv,
     Settled, Covered
<1>3. CASE SweepFails
  BY <1>3 DEF SweepFails, threadVars, Asleep, Steps, SweepInv, IdleInv, ClosedInv,
     Settled, Covered
<1>4. ASSUME NEW t \in Threads, ReadThread(t) PROVE IInv'
  <2>1. TypeInv' /\ SweepInv'
    BY <1>4 DEF ReadThread, threadVars, Steps, SweepInv
  <2>2. ASSUME NEW c \in Threads PROVE (IdleInv(c) /\ ClosedInv(c))'
    BY <1>4, <2>2 DEF ReadThread, threadVars, IdleInv, ClosedInv, Settled, Covered
  <2> QED
    BY <2>1, <2>2
<1>5. ASSUME NEW t \in Threads, Summarise(t) PROVE IInv'
  <2>1. TypeInv' /\ SweepInv'
    BY <1>5 DEF Summarise, threadVars, Steps, SweepInv
  <2>2. marker[t] # "none"
    BY <1>5 DEF Summarise, SweepInv
  <2>3. ASSUME NEW c \in Threads PROVE (IdleInv(c) /\ ClosedInv(c))'
    <3>1. CASE c = t
      BY <1>5, <2>2, <3>1 DEF Summarise, threadVars, IdleInv, ClosedInv, Settled, Covered
    <3>2. CASE c # t
      <4>1. c \notin sweep'.on /\ covered'[c] = covered[c]
        <5>1. sweep'.on = {t}
          BY <1>5 DEF Summarise
        <5>2. covered'[c] = covered[c]
          BY <1>5, <3>2 DEF Summarise
        <5> QED
          BY <3>2, <5>1, <5>2
      <4>2. UNCHANGED <<saved, gone, turn, marker, missed, ending>>
        BY <1>5 DEF Summarise, threadVars
      <4> QED
        BY <2>3, <4>1, <4>2 DEF IdleInv, ClosedInv, Settled, Covered
    <3> QED
      BY <3>1, <3>2
  <2> QED
    BY <2>1, <2>3
<1>6. ASSUME NEW t \in Threads, DropMarker(t) PROVE IInv'
  <2>1. TypeInv' /\ SweepInv'
    BY <1>6 DEF DropMarker, threadVars, Steps, SweepInv
  <2>2. t \in sweep.on /\ marker[t] # "none"
    BY <1>6 DEF DropMarker, SweepInv
  <2>3. ASSUME NEW c \in Threads PROVE (IdleInv(c) /\ ClosedInv(c))'
    BY <1>6, <2>2, <2>3 DEF DropMarker, threadVars, IdleInv, ClosedInv, Settled, Covered
  <2> QED
    BY <2>1, <2>3
<1> QED
  BY <1>1, <1>2, <1>3, <1>4, <1>5, <1>6 DEF Sweep

\* A summary that end_conversation stores late is of all that a settled thread
\* holds; a restart stops what is in flight, and only a settled thread expires.
LEMMA OtherStep ==
    ASSUME IInv,
           Crash \/ \E t \in Threads : EndRead(t) \/ EndStore(t) \/ Expire(t)
    PROVE  IInv'
<1> USE DEF IInv, TypeInv, SweepInv, IdleInv, ClosedInv, Settled, Covered
<1>1. CASE Crash
  BY <1>1 DEF Crash, Asleep, Steps
<1>2. ASSUME NEW t \in Threads, EndRead(t) PROVE IInv'
  BY <1>2 DEF EndRead, threadVars
<1>3. ASSUME NEW t \in Threads, EndStore(t) PROVE IInv'
  BY <1>3 DEF EndStore, threadVars
<1>4. ASSUME NEW t \in Threads, Expire(t) PROVE IInv'
  BY <1>4 DEF Expire
<1> QED
  BY <1>1, <1>2, <1>3, <1>4

\* The invariant is inductive.
LEMMA InvStep == IInv /\ [Next]_vars => IInv'
<1> SUFFICES ASSUME IInv, [Next]_vars PROVE IInv'
  OBVIOUS
<1>1. CASE UNCHANGED vars
  BY <1>1 DEF vars, threadVars, IInv, TypeInv, SweepInv, IdleInv, ClosedInv, Settled,
     Covered
<1>2. CASE Next
  BY <1>2, TurnStep, SweepStep, OtherStep DEF Next
<1> QED
  BY <1>1, <1>2

\* The invariant holds throughout.
LEMMA InvHolds == Spec => []IInv
BY InvInit, InvStep, PTL DEF Spec

\* sweep_idle's zrem: whenever the sweeper closes a conversation that is still
\* idle, its summary has everything, for any number of conversations and turns.
THEOREM ClosedInFull == Spec => QuietClosedInFull
<1>1. ASSUME IInv, [Next]_vars, NEW c \in Threads,
             marker[c] = "idle", sweep.step = "drop", saved[c] > gone[c]
      PROVE  marker'[c] # "none" \/ covered[c] = saved[c]
  <2>1. CASE c \in sweep.on
    BY <1>1, <2>1 DEF IInv, IdleInv, Covered
  <2>2. CASE c \notin sweep.on
    <3> USE <1>1, <2>2 DEF IInv, TypeInv, threadVars
    <3>1. CASE Sweep \/ SweepFails \/ Crash
      BY <3>1 DEF Sweep, FindIdle, ReadThread, Summarise, DropMarker, SweepDone,
         SweepFails, Crash
    <3>2. ASSUME NEW t \in Threads, Touch(t) \/ Ask(t) \/ Reply(t) \/ Idle(t)
          PROVE  marker'[c] # "none"
      BY <3>2 DEF Touch, Ask, Reply, Idle
    <3>3. ASSUME NEW t \in Threads, EndRead(t) \/ EndStore(t) \/ Expire(t)
          PROVE  marker'[c] # "none"
      BY <3>3 DEF EndRead, EndStore, Expire
    <3>4. CASE UNCHANGED vars
      BY <3>4 DEF vars
    <3> QED
      BY <3>1, <3>2, <3>3, <3>4 DEF Next
  <2> QED
    BY <2>1, <2>2
<1>2. IInv /\ [Next]_vars =>
        [\A c \in Threads :
            marker[c] = "idle" /\ sweep.step = "drop" /\ saved[c] > gone[c]
               => marker'[c] # "none" \/ covered[c] = saved[c]]_vars
  BY <1>1
<1> QED
  BY InvHolds, <1>2, PTL DEF Spec, QuietClosedInFull

\* agent_graph_context: what survives the expiry of a checkpoint is the summary,
\* whatever order turns, sweeps, restarts and end_conversation calls came in.
THEOREM SummarySurvives == Spec => ExpiredIsCovered
<1>1. ASSUME IInv, [Next]_vars, NEW c \in Threads, gone'[c] # gone[c]
      PROVE  covered[c] = saved[c] \/ missed[c]
  <2>1. ASSUME NEW t \in Threads, Expire(t) PROVE covered[c] = saved[c] \/ missed[c]
    BY <1>1, <2>1 DEF Expire, IInv, TypeInv, ClosedInv, Covered
  <2>2. gone' # gone
    BY <1>1
  <2> QED
    BY <1>1, <2>1, <2>2 DEF Next, Sweep, FindIdle, ReadThread, Summarise, DropMarker,
       SweepDone, SweepFails, Crash, Touch, Ask, Reply, Idle, EndRead, EndStore, vars,
       threadVars
<1>2. IInv /\ [Next]_vars =>
        [\A c \in Threads :
            gone'[c] # gone[c] => covered[c] = saved[c] \/ missed[c]]_vars
  BY <1>1
<1> QED
  BY InvHolds, <1>2, PTL DEF Spec, ExpiredIsCovered
=============================================================================
