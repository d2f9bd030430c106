------------------------- MODULE ConversationMemory -------------------------
(***************************************************************************)
(* How a conversation outlives its Redis checkpoint.  Every turn marks its *)
(* thread active in a sorted set; a background sweeper of the API process  *)
(* finds threads idle for CONVERSATION_IDLE_SECONDS, has a model summarise *)
(* what the checkpoint holds, stores the summary and drops the marker.     *)
(* Turns, the sweeper and end_conversation interleave at every await.      *)
(* Three days after its last activity the checkpoint expires.              *)
(***************************************************************************)
EXTENDS Integers, FiniteSets

CONSTANTS
    Threads,      \* conversations, "customer_id:thread_id"
    MaxTurns,     \* bound: turns of a conversation
    MaxCrashes,   \* bound: restarts of the API process, failures of Redis
    Broken        \* threads whose summary cannot be made, however often tried

ASSUME TurnsAssumption == MaxTurns \in Nat
ASSUME CrashesAssumption == MaxCrashes \in Nat
ASSUME BrokenAssumption == Broken \subseteq Threads

VARIABLES
    saved,     \* messages of the thread that were checkpointed in Redis
    gone,      \* those of them that have expired, the first ones
    turn,      \* the turn in flight: "none", "touched" or "asked"
    turns,     \* turns begun so far
    marker,    \* member of the sorted set: "none", "fresh" or "idle" (by score)
    covered,   \* the message up to which the stored summary goes, or 0
    missed,    \* the sweeper gave the thread up, or dropped a fresh marker
    sweep,     \* the sweeper: threads it has found, and where it is
    ending,    \* the count read by an end_conversation in flight, 0 without one
    crashes

threadVars == <<saved, gone, turn, turns>>
vars == <<threadVars, marker, covered, missed, sweep, ending, crashes>>

Asleep == [stale |-> {}, step |-> "sleep", on |-> {}, read |-> 0]

Init ==
    /\ saved = [c \in Threads |-> 0]
    /\ gone = [c \in Threads |-> 0]
    /\ turn = [c \in Threads |-> "none"]
    /\ turns = [c \in Threads |-> 0]
    /\ marker = [c \in Threads |-> "none"]
    /\ covered = [c \in Threads |-> 0]
    /\ missed = [c \in Threads |-> FALSE]
    /\ sweep = Asleep
    /\ ending = [c \in Threads |-> 0]
    /\ crashes = 0

-----------------------------------------------------------------------------
(* A turn: routes/agent.py.                                                *)

\* stream_agent_chat marks the thread before it streams.
Touch(c) ==
    /\ turn[c] = "none" /\ turns[c] < MaxTurns
    /\ turn' = [turn EXCEPT ![c] = "touched"]
    /\ turns' = [turns EXCEPT ![c] = @ + 1]
    /\ marker' = [marker EXCEPT ![c] = "fresh"]
    /\ missed' = [missed EXCEPT ![c] = FALSE]
    /\ UNCHANGED <<saved, gone, covered, sweep, ending, crashes>>

\* A guardrail answers and the graph is not run; or the graph's first
\* checkpoint holds the customer's message.
Ask(c) ==
    /\ turn[c] = "touched"
    /\ \/ turn' = [turn EXCEPT ![c] = "none"] /\ UNCHANGED saved
       \/ /\ turn' = [turn EXCEPT ![c] = "asked"]
          /\ saved' = [saved EXCEPT ![c] = @ + 1]
    /\ UNCHANGED <<gone, turns, marker, covered, missed, sweep, ending, crashes>>

\* The graph's answer is checkpointed, or a model call fails.
Reply(c) ==
    /\ turn[c] = "asked"
    /\ turn' = [turn EXCEPT ![c] = "none"]
    /\ saved' \in {saved, [saved EXCEPT ![c] = @ + 1]}
    /\ UNCHANGED <<gone, turns, marker, covered, missed, sweep, ending, crashes>>

\* CONVERSATION_IDLE_SECONDS without a touch.  Timing assumption: by then the
\* turn that touched the thread is over, the sweeper's work on the thread too,
\* and an end_conversation still in flight was called after that turn.  The
\* gateway ends requests under /agent after the same 300 seconds; nothing in the
\* program itself bounds them.
Idle(c) ==
    /\ marker[c] = "fresh"
    /\ turn[c] = "none" /\ ending[c] \in {0, saved[c]} /\ c \notin sweep.on
    /\ marker' = [marker EXCEPT ![c] = "idle"]
    /\ UNCHANGED <<threadVars, covered, missed, sweep, ending, crashes>>

-----------------------------------------------------------------------------
(* The sweeper: sweep_idle, in sweep_loop.                                 *)

\* zrangebyscore: the members past the cutoff, at this moment.
FindIdle ==
    /\ sweep.step = "sleep"
    /\ sweep' = [Asleep EXCEPT !.stale = {c \in Threads : marker[c] = "idle"},
                               !.step = "next"]
    /\ UNCHANGED <<threadVars, marker, covered, missed, ending, crashes>>

\* summarise_and_store reads the checkpoint; nothing there, nothing stored.
ReadThread(c) ==
    /\ sweep.step = "next" /\ c \in sweep.stale
    /\ sweep' = [sweep EXCEPT !.on = {c}, !.read = saved[c],
                              !.step = IF saved[c] = gone[c] THEN "drop" ELSE "summarise"]
    /\ UNCHANGED <<threadVars, marker, covered, missed, ending, crashes>>

\* Mistake: a thread's second summary does not replace its first (an insert
\* that does nothing on a conflict).
SummariseOnce(c) ==
    /\ sweep.step = "summarise" /\ sweep.on = {c}
    /\ c \notin Broken
    /\ covered' = [covered EXCEPT ![c] = IF @ = 0 THEN sweep.read ELSE @]
    /\ sweep' = [sweep EXCEPT !.step = "drop"]
    /\ UNCHANGED <<threadVars, marker, missed, ending, crashes>>

\* The model calls return and save_conversation_summary replaces the row; or
\* one of them fails, or the summary is empty.
Summarise(c) ==
    /\ sweep.step = "summarise" /\ sweep.on = {c}
    /\ \/ /\ c \notin Broken
          /\ covered' = [covered EXCEPT ![c] = sweep.read]
          /\ sweep' = [sweep EXCEPT !.step = "drop"]
       \/ /\ Broken # {}
          /\ sweep' = [sweep EXCEPT !.step = "drop failed"]
          /\ UNCHANGED covered
    /\ UNCHANGED <<threadVars, marker, missed, ending, crashes>>

\* Mistake: the marker is dropped only when the summary was stored.
DropMarkerIfStored(c) ==
    /\ sweep.step \in {"drop", "drop failed"} /\ sweep.on = {c}
    /\ marker' = IF sweep.step = "drop" THEN [marker EXCEPT ![c] = "none"] ELSE marker
    /\ UNCHANGED missed
    /\ sweep' = [sweep EXCEPT !.stale = @ \ {c}, !.on = {}, !.read = 0, !.step = "next"]
    /\ UNCHANGED <<threadVars, covered, ending, crashes>>

\* zrem, in any case, and whatever the score is by now.
DropMarker(c) ==
    /\ sweep.step \in {"drop", "drop failed"} /\ sweep.on = {c}
    /\ marker' = [marker EXCEPT ![c] = "none"]
    /\ missed' = [missed EXCEPT ![c] = sweep.step = "drop failed" \/ marker[c] = "fresh"]
    /\ sweep' = [sweep EXCEPT !.stale = @ \ {c}, !.on = {}, !.read = 0, !.step = "next"]
    /\ UNCHANGED <<threadVars, covered, ending, crashes>>

\* The sweep is over and sweep_loop sleeps.
SweepDone ==
    /\ sweep.step = "next" /\ sweep.stale = {}
    /\ sweep' = Asleep
    /\ UNCHANGED <<threadVars, marker, covered, missed, ending, crashes>>

\* zrangebyscore or zrem raises: sweep_loop logs it and sleeps again.
SweepFails ==
    /\ sweep.step # "sleep"
    /\ sweep' = Asleep
    /\ crashes < MaxCrashes /\ crashes' = crashes + 1
    /\ UNCHANGED <<threadVars, marker, covered, missed, ending>>

-----------------------------------------------------------------------------
\* end_conversation: summarise_and_store outside the sweeper.
EndRead(c) ==
    /\ ending[c] = 0 /\ saved[c] > gone[c]
    /\ ending' = [ending EXCEPT ![c] = saved[c]]
    /\ UNCHANGED <<threadVars, marker, covered, missed, sweep, crashes>>

EndStore(c) ==
    /\ ending[c] > 0
    /\ ending' = [ending EXCEPT ![c] = 0]
    /\ \/ c \notin Broken /\ covered' = [covered EXCEPT ![c] = ending[c]]
       \/ Broken # {} /\ UNCHANGED covered
    /\ UNCHANGED <<threadVars, marker, missed, sweep, crashes>>

\* CONVERSATION_TTL_MINUTES after the last read or write of the checkpoint.
\* Timing assumption, which a sweeper that fails for days would break: it has
\* taken the thread's marker by then.
Expire(c) ==
    /\ saved[c] > gone[c]
    /\ marker[c] = "none" /\ turn[c] = "none" /\ ending[c] = 0 /\ c \notin sweep.stale
    /\ gone' = [gone EXCEPT ![c] = saved[c]]
    /\ UNCHANGED <<saved, turn, turns, marker, covered, missed, sweep, ending, crashes>>

\* Mistake: the markers are kept in the process.
CrashForgetsMarkers ==
    /\ crashes < MaxCrashes
    /\ crashes' = crashes + 1
    /\ turn' = [c \in Threads |-> "none"]
    /\ ending' = [c \in Threads |-> 0]
    /\ marker' = [c \in Threads |-> "none"]
    /\ sweep' = Asleep
    /\ UNCHANGED <<saved, gone, turns, covered, missed>>

\* The API process restarts: Redis and Postgres keep their state, whatever
\* was in flight is gone.
Crash ==
    /\ crashes < MaxCrashes
    /\ crashes' = crashes + 1
    /\ turn' = [c \in Threads |-> "none"]
    /\ ending' = [c \in Threads |-> 0]
    /\ sweep' = Asleep
    /\ UNCHANGED <<saved, gone, turns, marker, covered, missed>>

Sweep == FindIdle \/ SweepDone
         \/ \E c \in Threads : ReadThread(c) \/ Summarise(c) \/ DropMarker(c)

Next ==
    \/ Sweep \/ SweepFails \/ Crash
    \/ \E c \in Threads :
          \/ Touch(c) \/ Ask(c) \/ Reply(c) \/ Idle(c)
          \/ EndRead(c) \/ EndStore(c) \/ Expire(c)

Spec == Init /\ [][Next]_vars

\* Time passes, calls return, and the sweep loop runs as long as the process.
Fairness ==
    /\ WF_vars(Sweep)
    /\ \A c \in Threads : WF_vars(Ask(c) \/ Reply(c)) /\ WF_vars(Idle(c))
                          /\ WF_vars(EndStore(c))

FairSpec == Spec /\ Fairness

-----------------------------------------------------------------------------
\* The variables stay in their types.
TypeOK ==
    /\ saved \in [Threads -> 0..(2 * MaxTurns)]
    /\ gone \in [Threads -> 0..(2 * MaxTurns)]
    /\ turn \in [Threads -> {"none", "touched", "asked"}]
    /\ turns \in [Threads -> 0..MaxTurns]
    /\ marker \in [Threads -> {"none", "fresh", "idle"}]
    /\ covered \in [Threads -> 0..(2 * MaxTurns)]
    /\ missed \in [Threads -> BOOLEAN]
    /\ sweep \in [stale : SUBSET Threads, on : SUBSET Threads, read : 0..(2 * MaxTurns),
                  step : {"sleep", "next", "summarise", "drop", "drop failed"}]
    /\ ending \in [Threads -> 0..(2 * MaxTurns)]
    /\ crashes \in 0..MaxCrashes

\* A conversation that is quiet when it is closed is closed in full: when the
\* sweeper drops a marker that is still idle, the stored summary goes up to the
\* last message, unless its own attempt failed -- with end_conversation, restarts
\* and earlier summaries of the same thread in between.
QuietClosedInFull ==
    [][\A c \in Threads :
          marker[c] = "idle" /\ sweep.step = "drop" /\ saved[c] > gone[c]
             => marker'[c] # "none" \/ covered[c] = saved[c]]_vars

\* What survives expiry is the summary (agent_graph_context): when a checkpoint
\* expires, the stored summary goes up to its last message, whatever turns,
\* restarts, failing sweeps and late end_conversation calls came before --
\* unless the sweeper gave the thread up or raced a turn of it.
ExpiredIsCovered ==
    [][\A c \in Threads :
          gone'[c] # gone[c] => covered[c] = saved[c] \/ missed[c]]_vars

\* One bad conversation does not stall the sweep (sweep_idle's comment): an
\* idle marker does not stay for ever, also when its summary always fails.
MarkersDrain ==
    \A c \in Threads : marker[c] = "idle" ~> marker[c] # "idle"

\* .env.example: "A conversation with no new turns for this long is
\* summarised, embedded into pgvector, and closed by the background sweeper."
IdleIsSummarised ==
    \A c \in Threads : saved[c] > covered[c] ~> covered[c] = saved[c]
=============================================================================
