-------------------------- MODULE ChatStreamProofs --------------------------
(***************************************************************************)
(* What holds of ChatStream for any number of messages and of texts.       *)
(***************************************************************************)
EXTENDS ChatStream, SequenceTheorems, FiniteSetTheorems, TLAPS

\* The component waits for the reply to r.
Waiting(r) == reader[r] \in {"fetch", "read", "fallback"}

\* The server decides what to emit when it stops changing parts, and once.
DecidedOnce(r) ==
    /\ out[r] # "undecided" => server[r] \in {"emit", "done", "over"}
    /\ server[r] \in {"emit", "done"} => out[r] # "undecided"

\* What is on the wire was decided, and nothing follows the end.
WireIsDecided(r) ==
    \A i \in 1..Len(frames[r]) :
        /\ server[r] \in {"done", "over"}
        /\ frames[r][i] = "done" \/ frames[r][i] = out[r]
        /\ frames[r][i] = "done" => server[r] = "over"

\* While it can still be read, an error is ahead of the end.
ErrorGoesFirst(r) ==
    out[r] = "error" /\ reader[r] \in {"fetch", "read"} =>
        /\ frames[r] # <<>> => frames[r][1] = "error"
        /\ server[r] \in {"done", "over"} /\ r \notin cut => frames[r] # <<>>

\* The reply bubble goes with the reader.
BubbleFollows(r) ==
    /\ r \in streaming <=> Waiting(r)
    /\ Waiting(r) => role[r] = "agent"
    /\ reader[r] \in {"idle", "fallback"} => server[r] = "idle"

\* How a request has ended for the component, and what it means for the server.
EndIsKnown(r) ==
    reader[r] = "over" /\ server[r] # "idle" =>
        /\ role[r] = "agent" => server[r] = "over" /\ out[r] # "error"
        /\ role[r] # "agent" => out[r] = "error" \/ r \in cut
        /\ server[r] \in {"input", "graph", "output"} => r \in cut

\* What is shown of a reply that is complete.
Complete(r) == IF out[r] = "nothing" THEN "empty reply" ELSE out[r]

\* The bubble holds what was decided or is waiting for it: then it is ahead of
\* the end on the wire.  A bubble that is over without an error holds all of it.
WholeReply(r) ==
    /\ reader[r] = "idle" => text[r] = ""
    /\ reader[r] \in {"fetch", "read"} =>
        /\ text[r] # "" => text[r] = out[r] /\ server[r] \in {"done", "over"}
        /\ text[r] = "" =>
            /\ frames[r] # <<>> =>
                   frames[r][1] = IF out[r] = "nothing" THEN "done" ELSE out[r]
            /\ out[r] # "nothing" /\ server[r] \in {"done", "over"} /\ r \notin cut =>
                   frames[r] # <<>>
    /\ reader[r] = "over" /\ role[r] = "agent" /\ server[r] # "idle" => text[r] = Complete(r)

RequestInv(r) ==
    /\ DecidedOnce(r) /\ WireIsDecided(r) /\ ErrorGoesFirst(r) /\ BubbleFollows(r)
    /\ EndIsKnown(r) /\ WholeReply(r)

\* The component's messages come one after the other.
OneAfterTheOther ==
    /\ \A q, r \in Sends : q < r /\ reader[r] # "idle" => reader[q] = "over"
    /\ pending <=> \E r \in Sends : Waiting(r)

IInv == TypeOK /\ (\A r \in Sends : RequestInv(r)) /\ OneAfterTheOther

-----------------------------------------------------------------------------
\* A request that a step leaves alone stays as it was.
LEMMA Undisturbed ==
    ASSUME NEW r \in Sends, RequestInv(r),
           server'[r] = server[r], parts'[r] = parts[r], out'[r] = out[r],
           frames'[r] = frames[r], reader'[r] = reader[r], role'[r] = role[r], text'[r] = text[r],
           r \in streaming' <=> r \in streaming, r \in cut' <=> r \in cut
    PROVE  RequestInv(r)'
PROOF
<1>1. DecidedOnce(r)' /\ WireIsDecided(r)' /\ ErrorGoesFirst(r)'
    BY DEF RequestInv, DecidedOnce, WireIsDecided, ErrorGoesFirst
<1>2. BubbleFollows(r)' /\ EndIsKnown(r)'
    BY DEF RequestInv, BubbleFollows, EndIsKnown, Waiting
<1>3. WholeReply(r)'
    BY DEF RequestInv, WholeReply, Complete
<1> QED
    BY <1>1, <1>2, <1>3 DEF RequestInv

\* What the component shows and how it waits only changes when it reads.
LEMMA Waits ==
    ASSUME OneAfterTheOther, UNCHANGED <<reader, pending>>
    PROVE  OneAfterTheOther'
PROOF
BY DEF OneAfterTheOther, Waiting

\* Whoever waits, waits alone.
LEMMA WaitsAlone ==
    ASSUME OneAfterTheOther, NEW r \in Sends, Waiting(r), NEW q \in Sends, q # r
    PROVE  ~Waiting(q)
PROOF
<1>1. q < r \/ r < q
    BY SendsAssumption DEF Sends
<1> QED
    BY <1>1 DEF OneAfterTheOther, Waiting

\* A request that is over for the component lets it send again.
LEMMA Closes ==
    ASSUME TypeOK, OneAfterTheOther, NEW r \in Sends, Waiting(r),
           ReaderAt(r, "over"), pending' = FALSE
    PROVE  OneAfterTheOther'
PROOF
<1>1. \A q \in Sends : ~Waiting(q)'
    BY WaitsAlone DEF Waiting, ReaderAt, TypeOK
<1>2. ASSUME NEW p \in Sends, NEW q \in Sends, p < q, reader'[q] # "idle"
      PROVE  reader'[p] = "over"
    BY <1>2 DEF OneAfterTheOther, Waiting, ReaderAt, TypeOK
<1> QED
    BY <1>1, <1>2 DEF OneAfterTheOther

\* An error is over for the component, and told: of a failed turn, or of a
\* request that never came to one or was cut.
LEMMA FailsTold ==
    ASSUME TypeOK, NEW r \in Sends, Fails(r), BubbleFollows(r), UNCHANGED <<server, out, cut>>,
           \/ server[r] = "idle" \/ r \in cut
           \/ out[r] = "error" /\ server[r] \in {"done", "over"}
    PROVE  BubbleFollows(r)' /\ EndIsKnown(r)' /\ WholeReply(r)'
PROOF
<1>1. reader'[r] = "over" /\ r \notin streaming'
    BY DEF Fails, ReaderAt, TypeOK
<1>2. role'[r] \in {"error", "agent then error"} /\ text'[r] \in {text[r], "error"}
    BY DEF Fails, BecomesError, TypeOK
<1>3. BubbleFollows(r)'
    BY <1>1, <1>2 DEF BubbleFollows, Waiting
<1>4. EndIsKnown(r)'
    BY <1>2 DEF EndIsKnown
<1>5. WholeReply(r)'
    BY <1>1, <1>2 DEF WholeReply
<1> QED
    BY <1>3, <1>4, <1>5

\* What emitting a frame does to the wire.
LEMMA Emitted ==
    ASSUME TypeOK, NEW r \in Sends, NEW f \in Texts \cup {"done"}, Emit(r, f)
    PROVE  /\ frames' \in [Sends -> Seq(Texts \cup {"done"})]
           /\ Len(frames[r]) \in Nat /\ (Len(frames[r]) = 0 => frames[r] = <<>>)
           /\ \/ r \in cut /\ frames'[r] = frames[r]
              \/ /\ r \notin cut /\ frames'[r] # <<>>
                 /\ Len(frames'[r]) = Len(frames[r]) + 1
                 /\ frames'[r][Len(frames[r]) + 1] = f
                 /\ \A i \in 1..Len(frames[r]) : frames'[r][i] = frames[r][i]
PROOF
<1> DEFINE F == Texts \cup {"done"}
<1>1. frames \in [Sends -> Seq(F)] /\ frames[r] \in Seq(F)
    BY DEF TypeOK
<1>2. Len(frames[r]) \in Nat /\ (Len(frames[r]) = 0 => frames[r] = <<>>)
    BY <1>1, EmptySeq, LenProperties
<1>3. CASE r \in cut
    BY <1>1, <1>2, <1>3 DEF Emit
<1>4. CASE r \notin cut
    <2> DEFINE s == Append(frames[r], f)
    <2>1. frames' = [frames EXCEPT ![r] = s]
        BY <1>4 DEF Emit
    <2>2. /\ s \in Seq(F) /\ s # <<>> /\ Len(s) = Len(frames[r]) + 1
          /\ s[Len(frames[r]) + 1] = f
          /\ \A i \in 1..Len(frames[r]) : s[i] = frames[r][i]
        BY <1>1, AppendProperties
    <2> HIDE DEF s
    <2> QED
        BY <1>1, <1>2, <1>4, <2>1, <2>2
<1> QED
    BY <1>3, <1>4

\* Nothing is on the wire before the server emits.
LEMMA QuietWire ==
    ASSUME TypeOK, NEW r \in Sends, WireIsDecided(r), server[r] \notin {"done", "over"}
    PROVE  frames[r] = <<>> /\ Len(frames[r]) = 0
PROOF
<1>1. frames[r] \in Seq(Texts \cup {"done"})
    BY DEF TypeOK
<1>2. 1 \notin 1..Len(frames[r])
    BY DEF WireIsDecided
<1>3. Len(frames[r]) \in Nat \ {0} => 1 \in 1..Len(frames[r])
    OBVIOUS
<1> QED
    BY <1>1, <1>2, <1>3, EmptySeq

\* Nothing has been sent yet.  The lemmas after this one are about one action
\* each, which keeps the invariant.
LEMMA Start == Init => IInv
PROOF
<1> SUFFICES ASSUME Init PROVE IInv
    OBVIOUS
<1>1. TypeOK
    BY EmptySeq DEF Init, TypeOK, Roles, Texts
<1>2. ASSUME NEW r \in Sends PROVE RequestInv(r)
    <2>1. frames[r] = <<>> /\ server[r] = "idle" /\ out[r] = "undecided"
          /\ reader[r] = "idle" /\ streaming = {} /\ text[r] = ""
        BY DEF Init
    <2>2. Len(frames[r]) = 0
        BY <2>1, EmptySeq
    <2> QED
        <3>1. DecidedOnce(r) /\ BubbleFollows(r) /\ EndIsKnown(r) /\ WholeReply(r)
            BY <2>1 DEF DecidedOnce, BubbleFollows, EndIsKnown, WholeReply, Waiting
        <3>2. WireIsDecided(r) /\ ErrorGoesFirst(r)
            <4>1. 1..Len(frames[r]) = {}
                BY <2>2
            <4> QED
                BY <2>1, <4>1 DEF WireIsDecided, ErrorGoesFirst
        <3> QED
            BY <3>1, <3>2 DEF RequestInv
<1>3. OneAfterTheOther
    BY DEF Init, OneAfterTheOther, Waiting
<1> QED
    BY <1>1, <1>2, <1>3 DEF IInv

-----------------------------------------------------------------------------
\* Every step keeps the invariant: one lemma per action, about the types, the
\* request it works on, the other requests and the component.

LEMMA CheckInputKeeps ==
    ASSUME IInv, NEW r \in Sends, CheckInput(r)
    PROVE  IInv'
PROOF
<1> USE DEF IInv
<1>1. TypeOK'
    BY DEF CheckInput, Decide, TypeOK, Roles, Texts, serverVars, clientVars, bubbleVars
<1>2. RequestInv(r)'
    <2>1. DecidedOnce(r)'
        BY DEF CheckInput, Decide, TypeOK, RequestInv, DecidedOnce, serverVars, clientVars,
               bubbleVars
    <2>2. WireIsDecided(r)'
        BY DEF CheckInput, Decide, TypeOK, RequestInv, WireIsDecided, serverVars, clientVars,
               bubbleVars
    <2>3. ErrorGoesFirst(r)'
        BY QuietWire DEF CheckInput, Decide, TypeOK, RequestInv, ErrorGoesFirst, DecidedOnce,
               BubbleFollows, serverVars, clientVars, bubbleVars
    <2>4. BubbleFollows(r)'
        BY DEF CheckInput, Decide, TypeOK, RequestInv, BubbleFollows, DecidedOnce, Waiting,
               serverVars, clientVars, bubbleVars
    <2>5. EndIsKnown(r)'
        BY DEF CheckInput, Decide, TypeOK, RequestInv, EndIsKnown, BubbleFollows, DecidedOnce,
               Waiting, serverVars, clientVars, bubbleVars
    <2>6. WholeReply(r)'
        BY QuietWire DEF CheckInput, Decide, TypeOK, RequestInv, WholeReply, Complete, DecidedOnce,
               BubbleFollows, EndIsKnown, serverVars, clientVars, bubbleVars
    <2> QED
        BY <2>1, <2>2, <2>3, <2>4, <2>5, <2>6 DEF RequestInv
<1>3. ASSUME NEW q \in Sends, q # r PROVE RequestInv(q)'
    BY <1>3, Undisturbed DEF CheckInput, Decide, TypeOK, serverVars, clientVars, bubbleVars
<1>4. OneAfterTheOther'
    BY Waits DEF CheckInput, Decide, TypeOK, serverVars, clientVars, bubbleVars
<1> QED
    BY <1>1, <1>2, <1>3, <1>4

LEMMA EndGraphKeeps ==
    ASSUME IInv, NEW r \in Sends, EndGraph(r)
    PROVE  IInv'
PROOF
<1> USE DEF IInv
<1>1. TypeOK'
    BY DEF EndGraph, Decide, TypeOK, Roles, Texts, serverVars, clientVars, bubbleVars
<1>2. RequestInv(r)'
    <2>1. DecidedOnce(r)'
        BY DEF EndGraph, Decide, TypeOK, RequestInv, DecidedOnce, serverVars, clientVars, bubbleVars
    <2>2. WireIsDecided(r)'
        BY DEF EndGraph, Decide, TypeOK, RequestInv, WireIsDecided, serverVars, clientVars,
               bubbleVars
    <2>3. ErrorGoesFirst(r)'
        BY QuietWire DEF EndGraph, Decide, TypeOK, RequestInv, ErrorGoesFirst, DecidedOnce,
               BubbleFollows, serverVars, clientVars, bubbleVars
    <2>4. BubbleFollows(r)'
        BY DEF EndGraph, Decide, TypeOK, RequestInv, BubbleFollows, DecidedOnce, Waiting,
               serverVars, clientVars, bubbleVars
    <2>5. EndIsKnown(r)'
        BY DEF EndGraph, Decide, TypeOK, RequestInv, EndIsKnown, BubbleFollows, DecidedOnce,
               Waiting, serverVars, clientVars, bubbleVars
    <2>6. WholeReply(r)'
        BY QuietWire DEF EndGraph, Decide, TypeOK, RequestInv, WholeReply, Complete, DecidedOnce,
               BubbleFollows, EndIsKnown, serverVars, clientVars, bubbleVars
    <2> QED
        BY <2>1, <2>2, <2>3, <2>4, <2>5, <2>6 DEF RequestInv
<1>3. ASSUME NEW q \in Sends, q # r PROVE RequestInv(q)'
    BY <1>3, Undisturbed DEF EndGraph, Decide, TypeOK, serverVars, clientVars, bubbleVars
<1>4. OneAfterTheOther'
    BY Waits DEF EndGraph, Decide, TypeOK, serverVars, clientVars, bubbleVars
<1> QED
    BY <1>1, <1>2, <1>3, <1>4

LEMMA CheckOutputKeeps ==
    ASSUME IInv, NEW r \in Sends, CheckOutput(r)
    PROVE  IInv'
PROOF
<1> USE DEF IInv
<1>1. TypeOK'
    BY DEF CheckOutput, Decide, TypeOK, Roles, Texts, serverVars, clientVars, bubbleVars
<1>2. RequestInv(r)'
    <2>1. DecidedOnce(r)'
        BY DEF CheckOutput, Decide, TypeOK, RequestInv, DecidedOnce, serverVars, clientVars,
               bubbleVars
    <2>2. WireIsDecided(r)'
        BY DEF CheckOutput, Decide, TypeOK, RequestInv, WireIsDecided, serverVars, clientVars,
               bubbleVars
    <2>3. ErrorGoesFirst(r)'
        BY QuietWire DEF CheckOutput, Decide, TypeOK, RequestInv, ErrorGoesFirst, DecidedOnce,
               BubbleFollows, serverVars, clientVars, bubbleVars
    <2>4. BubbleFollows(r)'
        BY DEF CheckOutput, Decide, TypeOK, RequestInv, BubbleFollows, DecidedOnce, Waiting,
               serverVars, clientVars, bubbleVars
    <2>5. EndIsKnown(r)'
        BY DEF CheckOutput, Decide, TypeOK, RequestInv, EndIsKnown, BubbleFollows, DecidedOnce,
               Waiting, serverVars, clientVars, bubbleVars
    <2>6. WholeReply(r)'
        BY QuietWire DEF CheckOutput, Decide, TypeOK, RequestInv, WholeReply, Complete, DecidedOnce,
               BubbleFollows, EndIsKnown, serverVars, clientVars, bubbleVars
    <2> QED
        BY <2>1, <2>2, <2>3, <2>4, <2>5, <2>6 DEF RequestInv
<1>3. ASSUME NEW q \in Sends, q # r PROVE RequestInv(q)'
    BY <1>3, Undisturbed DEF CheckOutput, Decide, TypeOK, serverVars, clientVars, bubbleVars
<1>4. OneAfterTheOther'
    BY Waits DEF CheckOutput, Decide, TypeOK, serverVars, clientVars, bubbleVars
<1> QED
    BY <1>1, <1>2, <1>3, <1>4

LEMMA EmitReplyKeeps ==
    ASSUME IInv, NEW r \in Sends, EmitReply(r)
    PROVE  IInv'
PROOF
<1> USE DEF IInv
<1>1. TypeOK'
    <2>1. out[r] # "nothing" => out[r] \in Texts \cup {"done"}
        BY DEF EmitReply, TypeOK, RequestInv, DecidedOnce, Texts
    <2>2. frames' \in [Sends -> Seq(Texts \cup {"done"})]
        BY <2>1, Emitted DEF EmitReply, TypeOK
    <2> QED
        BY <2>2 DEF EmitReply, TypeOK, clientVars, bubbleVars
<1>2. RequestInv(r)'
    <2>1. /\ server[r] = "emit" /\ server'[r] = "done" /\ out' = out /\ parts' = parts
          /\ reader' = reader /\ cut' = cut
        BY DEF EmitReply, TypeOK, clientVars
    <2>2. frames[r] = <<>> /\ Len(frames[r]) = 0
        BY <2>1, QuietWire DEF RequestInv
    <2>3. \/ frames'[r] = frames[r] /\ (out[r] # "nothing" => r \in cut)
          \/ /\ frames'[r] # <<>> /\ Len(frames'[r]) = 1
             /\ frames'[r][1] = out[r] /\ out[r] # "nothing"
        <3>1. CASE out[r] = "nothing"
            BY <3>1 DEF EmitReply
        <3>2. CASE out[r] # "nothing"
            <4>1. out[r] \in Texts \cup {"done"} /\ Emit(r, out[r])
                BY <2>1, <3>2 DEF EmitReply, TypeOK, RequestInv, DecidedOnce, Texts
            <4> QED
                <5>1. r \in cut => frames'[r] = frames[r]
                    BY <4>1, Emitted
                <5>2. r \notin cut => /\ frames'[r] # <<>>
                                     /\ Len(frames'[r]) = Len(frames[r]) + 1
                                     /\ frames'[r][Len(frames[r]) + 1] = out[r]
                    BY <4>1, Emitted
                <5> QED
                    BY <2>2, <3>2, <5>1, <5>2
        <3> QED
            BY <3>1, <3>2
    <2>4. WireIsDecided(r)' /\ ErrorGoesFirst(r)'
        <3>1. CASE frames'[r] = frames[r] /\ (out[r] # "nothing" => r \in cut)
            <4>1. 1..Len(frames'[r]) = {}
                BY <2>2, <3>1
            <4> QED
                BY <2>1, <2>2, <3>1, <4>1 DEF WireIsDecided, ErrorGoesFirst
        <3>2. CASE frames'[r] # <<>> /\ Len(frames'[r]) = 1 /\ frames'[r][1] = out[r]
            <4>1. 1..Len(frames'[r]) = {1}
                BY <3>2
            <4>2. out[r] # "done"
                BY DEF TypeOK
            <4> QED
                BY <2>1, <3>2, <4>1, <4>2 DEF WireIsDecided, ErrorGoesFirst
        <3> QED
            BY <2>3, <3>1, <3>2
    <2>5. DecidedOnce(r)'
        BY <2>1 DEF RequestInv, DecidedOnce
    <2>6. BubbleFollows(r)' /\ EndIsKnown(r)'
        <3>1. UNCHANGED <<role, text, streaming>>
            BY DEF EmitReply, clientVars, bubbleVars
        <3>2. BubbleFollows(r)'
            BY <2>1, <3>1 DEF RequestInv, BubbleFollows, Waiting
        <3>3. EndIsKnown(r)'
            BY <2>1, <3>1 DEF RequestInv, EndIsKnown
        <3> QED
            BY <3>2, <3>3
    <2>7. WholeReply(r)'
        <3>1. UNCHANGED <<role, text>>
            BY DEF EmitReply, clientVars, bubbleVars
        <3> QED
            BY <2>1, <2>2, <2>3, <3>1 DEF RequestInv, WholeReply, Complete, EndIsKnown
    <2> QED
        BY <2>4, <2>5, <2>6, <2>7 DEF RequestInv
<1>3. ASSUME NEW q \in Sends, q # r PROVE RequestInv(q)'
    BY <1>3, Undisturbed DEF EmitReply, Emit, TypeOK, serverVars, clientVars, bubbleVars
<1>4. OneAfterTheOther'
    BY Waits DEF EmitReply, Emit, TypeOK, serverVars, clientVars, bubbleVars
<1> QED
    BY <1>1, <1>2, <1>3, <1>4

LEMMA EmitDoneKeeps ==
    ASSUME IInv, NEW r \in Sends, EmitDone(r)
    PROVE  IInv'
PROOF
<1> USE DEF IInv
<1>1. TypeOK'
    <2>2. frames' \in [Sends -> Seq(Texts \cup {"done"})]
        BY Emitted DEF EmitDone
    <2> QED
        BY <2>2 DEF EmitDone, TypeOK, clientVars, bubbleVars
<1>2. RequestInv(r)'
    <2>1. /\ server[r] = "done" /\ server'[r] = "over" /\ out' = out /\ parts' = parts
          /\ reader' = reader /\ cut' = cut
        BY DEF EmitDone, TypeOK, clientVars
    <2>2. WireIsDecided(r)' /\ ErrorGoesFirst(r)'
        <3>1. Emit(r, "done")
            BY DEF EmitDone
        <3> QED
            <4>1. CASE r \in cut
                <5>1. frames'[r] = frames[r]
                    BY <3>1, <4>1, Emitted
                <5> QED
                    BY <2>1, <4>1, <5>1 DEF RequestInv, WireIsDecided, ErrorGoesFirst
            <4>2. CASE r \notin cut
                <5> DEFINE n == Len(frames[r])
                <5>1. /\ n \in Nat /\ (n = 0 => frames[r] = <<>>)
                      /\ frames'[r] # <<>> /\ Len(frames'[r]) = n + 1 /\ frames'[r][n + 1] = "done"
                      /\ \A i \in 1..n : frames'[r][i] = frames[r][i]
                    BY <2>1, <3>1, <4>2, Emitted
                <5>2. ASSUME NEW i \in 1..(n + 1)
                      PROVE  i = n + 1 \/ i \in 1..n
                    BY <5>1
                <5>3. n # 0 => frames'[r][1] = frames[r][1] /\ 1 \in 1..n
                    BY <5>1
                <5>4. ASSUME NEW i \in 1..n
                      PROVE  frames[r][i] = out[r] /\ frames[r][i] # "done"
                    BY <2>1, <3>1 DEF RequestInv, WireIsDecided, ErrorGoesFirst
                <5> HIDE DEF n
                <5> QED
                    BY <2>1, <3>1, <5>1, <5>2, <5>3, <5>4, <4>2 DEF RequestInv, WireIsDecided,
                           ErrorGoesFirst, DecidedOnce
            <4> QED
                BY <4>1, <4>2
    <2>3. DecidedOnce(r)'
        BY <2>1 DEF RequestInv, DecidedOnce
    <2>4. BubbleFollows(r)' /\ EndIsKnown(r)'
        <3>1. UNCHANGED <<role, text, streaming>>
            BY DEF EmitDone, clientVars, bubbleVars
        <3>2. BubbleFollows(r)'
            BY <2>1, <3>1 DEF RequestInv, BubbleFollows, Waiting
        <3>3. EndIsKnown(r)'
            BY <2>1, <3>1 DEF RequestInv, EndIsKnown, ErrorGoesFirst, BubbleFollows
        <3> QED
            BY <3>2, <3>3
    <2>5. WholeReply(r)'
        <3>1. UNCHANGED <<role, text>> /\ Emit(r, "done")
            BY DEF EmitDone, clientVars, bubbleVars
        <3>2. \/ r \in cut /\ frames'[r] = frames[r]
              \/ /\ r \notin cut /\ frames'[r] # <<>>
                 /\ \/ frames[r] = <<>> /\ frames'[r][1] = "done"
                    \/ frames[r] # <<>> /\ frames'[r][1] = frames[r][1]
            <4>1. CASE r \in cut
                BY <3>1, <4>1, Emitted
            <4>2. CASE r \notin cut
                <5> DEFINE n == Len(frames[r])
                <5>1. /\ n \in Nat /\ (n = 0 <=> frames[r] = <<>>)
                      /\ frames'[r] # <<>> /\ frames'[r][n + 1] = "done"
                      /\ \A i \in 1..n : frames'[r][i] = frames[r][i]
                    BY <3>1, <4>2, Emitted, EmptySeq
                <5> HIDE DEF n
                <5>2. n # 0 => 1 \in 1..n
                    BY <5>1
                <5> QED
                    BY <4>2, <5>1, <5>2
            <4> QED
                BY <4>1, <4>2
        <3> QED
            BY <2>1, <3>1, <3>2 DEF RequestInv, WholeReply, Complete, EndIsKnown
    <2> QED
        BY <2>2, <2>3, <2>4, <2>5 DEF RequestInv
<1>3. ASSUME NEW q \in Sends, q # r PROVE RequestInv(q)'
    BY <1>3, Undisturbed DEF EmitDone, Emit, TypeOK, serverVars, clientVars, bubbleVars
<1>4. OneAfterTheOther'
    BY Waits DEF EmitDone, Emit, TypeOK, serverVars, clientVars, bubbleVars
<1> QED
    BY <1>1, <1>2, <1>3, <1>4

LEMMA CancelledKeeps ==
    ASSUME IInv, NEW r \in Sends, Cancelled(r)
    PROVE  IInv'
PROOF
<1> USE DEF IInv
<1>1. TypeOK'
    BY DEF Cancelled, TypeOK, Roles, Texts, serverVars, clientVars, bubbleVars
<1>2. RequestInv(r)'
    <2>1. DecidedOnce(r)'
        BY DEF Cancelled, TypeOK, RequestInv, DecidedOnce, serverVars, clientVars, bubbleVars
    <2>2. WireIsDecided(r)'
        BY DEF Cancelled, TypeOK, RequestInv, WireIsDecided, serverVars, clientVars, bubbleVars
    <2>3. ErrorGoesFirst(r)'
        BY QuietWire DEF Cancelled, TypeOK, RequestInv, ErrorGoesFirst, DecidedOnce,
               BubbleFollows, serverVars, clientVars, bubbleVars
    <2>4. BubbleFollows(r)'
        BY DEF Cancelled, TypeOK, RequestInv, BubbleFollows, DecidedOnce, Waiting, serverVars,
               clientVars, bubbleVars
    <2>5. EndIsKnown(r)'
        BY DEF Cancelled, TypeOK, RequestInv, EndIsKnown, BubbleFollows, DecidedOnce, Waiting,
               serverVars, clientVars, bubbleVars
    <2>6. WholeReply(r)'
        BY QuietWire DEF Cancelled, TypeOK, RequestInv, WholeReply, Complete, DecidedOnce,
               BubbleFollows, EndIsKnown, serverVars, clientVars, bubbleVars
    <2> QED
        BY <2>1, <2>2, <2>3, <2>4, <2>5, <2>6 DEF RequestInv
<1>3. ASSUME NEW q \in Sends, q # r PROVE RequestInv(q)'
    BY <1>3, Undisturbed DEF Cancelled, TypeOK, serverVars, clientVars, bubbleVars
<1>4. OneAfterTheOther'
    BY Waits DEF Cancelled, TypeOK, serverVars, clientVars, bubbleVars
<1> QED
    BY <1>1, <1>2, <1>3, <1>4

LEMMA ArriveKeeps ==
    ASSUME IInv, NEW r \in Sends, Arrive(r)
    PROVE  IInv'
PROOF
<1> USE DEF IInv
<1>1. TypeOK'
    BY DEF Arrive, TypeOK, Roles, Texts, serverVars, clientVars, bubbleVars
<1>2. RequestInv(r)'
    <2>1. DecidedOnce(r)'
        BY DEF Arrive, TypeOK, RequestInv, DecidedOnce, serverVars, clientVars, bubbleVars
    <2>2. WireIsDecided(r)'
        BY DEF Arrive, TypeOK, RequestInv, WireIsDecided, serverVars, clientVars, bubbleVars
    <2>3. ErrorGoesFirst(r)'
        BY QuietWire DEF Arrive, TypeOK, RequestInv, ErrorGoesFirst, DecidedOnce, BubbleFollows,
               serverVars, clientVars, bubbleVars
    <2>4. BubbleFollows(r)'
        BY DEF Arrive, TypeOK, RequestInv, BubbleFollows, DecidedOnce, Waiting, serverVars,
               clientVars, bubbleVars
    <2>5. EndIsKnown(r)'
        BY DEF Arrive, TypeOK, RequestInv, EndIsKnown, BubbleFollows, DecidedOnce, Waiting,
               serverVars, clientVars, bubbleVars
    <2>6. WholeReply(r)'
        BY QuietWire DEF Arrive, TypeOK, RequestInv, WholeReply, Complete, DecidedOnce,
               BubbleFollows, EndIsKnown, serverVars, clientVars, bubbleVars
    <2> QED
        BY <2>1, <2>2, <2>3, <2>4, <2>5, <2>6 DEF RequestInv
<1>3. ASSUME NEW q \in Sends, q # r PROVE RequestInv(q)'
    BY <1>3, Undisturbed DEF Arrive, TypeOK, serverVars, clientVars, bubbleVars
<1>4. OneAfterTheOther'
    BY Waits DEF Arrive, TypeOK, serverVars, clientVars, bubbleVars
<1> QED
    BY <1>1, <1>2, <1>3, <1>4

LEMMA OpenKeeps ==
    ASSUME IInv, NEW r \in Sends, Open(r)
    PROVE  IInv'
PROOF
<1> USE DEF IInv
<1>1. TypeOK'
    BY DEF Open, ReaderAt, TypeOK, Roles, Texts, serverVars, clientVars, bubbleVars
<1>2. RequestInv(r)'
    <2>1. DecidedOnce(r)'
        BY DEF Open, ReaderAt, TypeOK, RequestInv, DecidedOnce, serverVars, clientVars, bubbleVars
    <2>2. WireIsDecided(r)'
        BY DEF Open, ReaderAt, TypeOK, RequestInv, WireIsDecided, serverVars, clientVars, bubbleVars
    <2>3. ErrorGoesFirst(r)'
        BY QuietWire DEF Open, ReaderAt, TypeOK, RequestInv, ErrorGoesFirst, DecidedOnce,
               BubbleFollows, serverVars, clientVars, bubbleVars
    <2>4. BubbleFollows(r)'
        BY DEF Open, ReaderAt, TypeOK, RequestInv, BubbleFollows, DecidedOnce, Waiting,
               serverVars, clientVars, bubbleVars
    <2>5. EndIsKnown(r)'
        BY DEF Open, ReaderAt, TypeOK, RequestInv, EndIsKnown, BubbleFollows, DecidedOnce,
               Waiting, serverVars, clientVars, bubbleVars
    <2>6. WholeReply(r)'
        BY QuietWire DEF Open, ReaderAt, TypeOK, RequestInv, WholeReply, Complete, DecidedOnce,
               BubbleFollows, EndIsKnown, serverVars, clientVars, bubbleVars
    <2> QED
        BY <2>1, <2>2, <2>3, <2>4, <2>5, <2>6 DEF RequestInv
<1>3. ASSUME NEW q \in Sends, q # r PROVE RequestInv(q)'
    BY <1>3, Undisturbed DEF Open, ReaderAt, TypeOK, serverVars, clientVars, bubbleVars
<1>4. OneAfterTheOther'
    BY DEF Open, ReaderAt, TypeOK, OneAfterTheOther, Waiting, Sends, serverVars, clientVars,
           bubbleVars
<1> QED
    BY <1>1, <1>2, <1>3, <1>4

LEMMA RefusedKeeps ==
    ASSUME IInv, NEW r \in Sends, Refused(r)
    PROVE  IInv'
PROOF
<1> USE DEF IInv
<1>1. TypeOK'
    BY DEF Refused, Fails, BecomesError, ReaderAt, TypeOK, Roles, Texts, serverVars, clientVars,
           bubbleVars
<1>2. RequestInv(r)'
    <2>1. DecidedOnce(r)'
        BY DEF Refused, RequestInv, DecidedOnce, serverVars
    <2>2. reader'[r] = "over" /\ server' = server /\ out' = out /\ cut' = cut
        BY DEF Refused, Fails, ReaderAt, TypeOK, serverVars
    <2>3. WireIsDecided(r)' /\ ErrorGoesFirst(r)'
        BY <2>2 DEF Refused, RequestInv, WireIsDecided, ErrorGoesFirst
    <2>4. BubbleFollows(r)' /\ EndIsKnown(r)' /\ WholeReply(r)'
        BY FailsTold DEF Refused, RequestInv, serverVars
    <2> QED
        BY <2>1, <2>3, <2>4 DEF RequestInv
<1>3. ASSUME NEW q \in Sends, q # r PROVE RequestInv(q)'
    BY <1>3, Undisturbed DEF Refused, Fails, BecomesError, ReaderAt, TypeOK, serverVars,
           clientVars, bubbleVars
<1>4. OneAfterTheOther'
    BY Closes DEF Refused, Fails, Waiting
<1> QED
    BY <1>1, <1>2, <1>3, <1>4

LEMMA FallbackKeeps ==
    ASSUME IInv, NEW r \in Sends, Fallback(r)
    PROVE  IInv'
PROOF
<1> USE DEF IInv
<1>1. TypeOK'
    BY DEF Fallback, ReaderAt, TypeOK, Roles, Texts, serverVars, clientVars, bubbleVars
<1>2. RequestInv(r)'
    <2>1. DecidedOnce(r)'
        BY DEF Fallback, ReaderAt, TypeOK, RequestInv, DecidedOnce, serverVars, clientVars,
               bubbleVars
    <2>2. WireIsDecided(r)'
        BY DEF Fallback, ReaderAt, TypeOK, RequestInv, WireIsDecided, serverVars, clientVars,
               bubbleVars
    <2>3. ErrorGoesFirst(r)'
        BY QuietWire DEF Fallback, ReaderAt, TypeOK, RequestInv, ErrorGoesFirst, DecidedOnce,
               BubbleFollows, serverVars, clientVars, bubbleVars
    <2>4. BubbleFollows(r)'
        BY DEF Fallback, ReaderAt, TypeOK, RequestInv, BubbleFollows, DecidedOnce, Waiting,
               serverVars, clientVars, bubbleVars
    <2>5. EndIsKnown(r)'
        BY DEF Fallback, ReaderAt, TypeOK, RequestInv, EndIsKnown, BubbleFollows, DecidedOnce,
               Waiting, serverVars, clientVars, bubbleVars
    <2>6. WholeReply(r)'
        BY QuietWire DEF Fallback, ReaderAt, TypeOK, RequestInv, WholeReply, Complete, DecidedOnce,
               BubbleFollows, EndIsKnown, serverVars, clientVars, bubbleVars
    <2> QED
        BY <2>1, <2>2, <2>3, <2>4, <2>5, <2>6 DEF RequestInv
<1>3. ASSUME NEW q \in Sends, q # r PROVE RequestInv(q)'
    BY <1>3, Undisturbed DEF Fallback, ReaderAt, TypeOK, serverVars, clientVars, bubbleVars
<1>4. OneAfterTheOther'
    BY DEF Fallback, ReaderAt, TypeOK, OneAfterTheOther, Waiting, Sends, serverVars, clientVars,
           bubbleVars
<1> QED
    BY <1>1, <1>2, <1>3, <1>4

LEMMA FallbackAnswersKeeps ==
    ASSUME IInv, NEW r \in Sends, FallbackAnswers(r)
    PROVE  IInv'
PROOF
<1> USE DEF IInv
<1>1. TypeOK'
    BY DEF FallbackAnswers, BecomesError, ReaderAt, TypeOK, Roles, Texts, serverVars, clientVars,
           bubbleVars
<1>2. RequestInv(r)'
    <2>1. DecidedOnce(r)'
        BY DEF FallbackAnswers, BecomesError, ReaderAt, TypeOK, RequestInv, DecidedOnce,
               serverVars, clientVars, bubbleVars
    <2>2. WireIsDecided(r)'
        BY DEF FallbackAnswers, BecomesError, ReaderAt, TypeOK, RequestInv, WireIsDecided,
               serverVars, clientVars, bubbleVars
    <2>3. ErrorGoesFirst(r)'
        BY QuietWire DEF FallbackAnswers, BecomesError, ReaderAt, TypeOK, RequestInv,
               ErrorGoesFirst, DecidedOnce, BubbleFollows, serverVars, clientVars, bubbleVars
    <2>4. BubbleFollows(r)'
        BY DEF FallbackAnswers, BecomesError, ReaderAt, TypeOK, RequestInv, BubbleFollows,
               DecidedOnce, Waiting, serverVars, clientVars, bubbleVars
    <2>5. EndIsKnown(r)'
        BY DEF FallbackAnswers, BecomesError, ReaderAt, TypeOK, RequestInv, EndIsKnown,
               BubbleFollows, DecidedOnce, Waiting, serverVars, clientVars, bubbleVars
    <2>6. WholeReply(r)'
        BY QuietWire DEF FallbackAnswers, BecomesError, ReaderAt, TypeOK, RequestInv, WholeReply,
               Complete, DecidedOnce, BubbleFollows, EndIsKnown, serverVars, clientVars, bubbleVars
    <2> QED
        BY <2>1, <2>2, <2>3, <2>4, <2>5, <2>6 DEF RequestInv
<1>3. ASSUME NEW q \in Sends, q # r PROVE RequestInv(q)'
    BY <1>3, Undisturbed DEF FallbackAnswers, BecomesError, ReaderAt, TypeOK, serverVars,
           clientVars, bubbleVars
<1>4. OneAfterTheOther'
    BY Closes DEF FallbackAnswers, Waiting
<1> QED
    BY <1>1, <1>2, <1>3, <1>4

LEMMA ReadKeeps ==
    ASSUME IInv, NEW r \in Sends, Read(r)
    PROVE  IInv'
PROOF
<1> USE DEF IInv
<1>1. TypeOK'
    <2>1. /\ Head(frames[r]) \in Texts \cup {"done"}
          /\ Tail(frames[r]) \in Seq(Texts \cup {"done"})
        BY HeadTailProperties DEF Read, TypeOK
    <2>2. frames' \in [Sends -> Seq(Texts \cup {"done"})]
        BY <2>1 DEF Read, TypeOK
    <2>3. text' \in [Sends -> Texts]
        BY <2>1 DEF Read, Completes, Fails, BecomesError, TypeOK, Texts
    <2>4. /\ reader' \in [Sends -> {"idle", "fetch", "read", "fallback", "over"}]
          /\ pending' \in BOOLEAN
          /\ role' \in [Sends -> Roles]
          /\ streaming' \subseteq Sends
        <3>1. CASE Completes(r)
            BY <3>1 DEF Completes, ReaderAt, TypeOK
        <3>2. CASE Fails(r)
            BY <3>2 DEF Fails, BecomesError, ReaderAt, TypeOK, Roles
        <3>3. CASE UNCHANGED <<reader, pending, role, streaming>>
            BY <3>3 DEF TypeOK
        <3> QED
            BY <3>1, <3>2, <3>3 DEF Read
    <2> QED
        BY <2>2, <2>3, <2>4 DEF Read, TypeOK, serverVars
<1>2. RequestInv(r)'
    <2>1. DecidedOnce(r)'
        BY DEF Read, RequestInv, DecidedOnce, serverVars
    <2>2. /\ Len(frames[r]) \in Nat \ {0} /\ Head(frames[r]) = frames[r][1]
          /\ Len(frames'[r]) = Len(frames[r]) - 1
          /\ \A i \in 1..Len(frames'[r]) : frames'[r][i] = frames[r][i + 1]
        <3>1. frames[r] \in Seq(Texts \cup {"done"}) /\ frames[r] # <<>>
              /\ frames'[r] = Tail(frames[r])
            BY DEF Read, TypeOK
        <3>2. Head(frames[r]) = frames[r][1]
            BY <3>1
        <3> QED
            BY <3>1, <3>2, HeadTailProperties, EmptySeq
    <2>3. /\ server' = server /\ out' = out /\ cut' = cut
          /\ reader'[r] \in {"read", "over"} /\ reader[r] = "read"
          /\ reader'[r] = "read" => Head(frames[r]) \notin {"done", "error"}
        BY DEF Read, Completes, Fails, ReaderAt, TypeOK, serverVars
    <2>4. WireIsDecided(r)' /\ ErrorGoesFirst(r)'
        BY <2>2, <2>3 DEF RequestInv, WireIsDecided, ErrorGoesFirst
    <2>5. /\ Head(frames[r]) = "done" \/ Head(frames[r]) = out[r]
          /\ Head(frames[r]) = "done" => server[r] = "over" /\ out[r] # "error"
          /\ server[r] \in {"done", "over"}
        <3>1. 1 \in 1..Len(frames[r])
            BY <2>2
        <3> QED
            BY <2>2, <2>3, <3>1 DEF Read, RequestInv, WireIsDecided, ErrorGoesFirst
    <2>6. BubbleFollows(r)' /\ EndIsKnown(r)' /\ WholeReply(r)'
        <3>1. CASE Head(frames[r]) = "done"
            <4>1. BubbleFollows(r)' /\ EndIsKnown(r)'
                BY <2>3, <2>5, <3>1 DEF Read, Completes, TypeOK, RequestInv, BubbleFollows,
                       EndIsKnown, Waiting
            <4>2. Completes(r) /\ frames[r] # <<>> /\ frames[r][1] = "done"
                BY <2>2, <3>1 DEF Read
            <4>3. text[r] = "" => out[r] = "nothing"
                BY <2>3, <4>2 DEF TypeOK, RequestInv, WholeReply
            <4>4. text[r] # "" => text[r] = out[r] /\ out[r] # "nothing"
                BY <2>3 DEF TypeOK, RequestInv, WholeReply, Texts
            <4>5. reader'[r] = "over" /\ text'[r] = IF text[r] = "" THEN "empty reply" ELSE text[r]
                BY <4>2 DEF Completes, ReaderAt, TypeOK
            <4>6. WholeReply(r)'
                BY <2>3, <4>3, <4>4, <4>5 DEF WholeReply, Complete
            <4> QED
                BY <4>1, <4>6
        <3>2. CASE Head(frames[r]) = "error"
            <4>1. Fails(r) /\ out[r] = "error"
                BY <2>5, <3>2 DEF Read
            <4> QED
                BY <2>3, <2>5, <4>1, FailsTold DEF RequestInv
        <3>3. CASE Head(frames[r]) \notin {"done", "error"}
            <4>1. /\ text' = [text EXCEPT ![r] = Head(frames[r])]
                  /\ UNCHANGED <<reader, role, streaming>>
                BY <3>3 DEF Read
            <4>2. text'[r] = out[r] /\ out[r] # ""
                BY <2>5, <3>3, <4>1 DEF TypeOK
            <4>3. BubbleFollows(r)' /\ EndIsKnown(r)'
                BY <2>3, <4>1 DEF RequestInv, BubbleFollows, EndIsKnown, Waiting
            <4>4. WholeReply(r)'
                BY <2>3, <2>5, <4>1, <4>2 DEF WholeReply
            <4> QED
                BY <4>3, <4>4
        <3> QED
            BY <3>1, <3>2, <3>3
    <2> QED
        BY <2>1, <2>4, <2>6 DEF RequestInv
<1>3. ASSUME NEW q \in Sends, q # r PROVE RequestInv(q)'
    BY <1>3, Undisturbed DEF Read, Completes, Fails, BecomesError, ReaderAt, TypeOK, serverVars,
           clientVars, bubbleVars
<1>4. OneAfterTheOther'
    <2>1. CASE UNCHANGED <<reader, pending>>
        BY <2>1, Waits
    <2>2. CASE ReaderAt(r, "over") /\ pending' = FALSE
        BY <2>2, Closes DEF Read, Waiting
    <2> QED
        BY <2>1, <2>2 DEF Read, Completes, Fails
<1> QED
    BY <1>1, <1>2, <1>3, <1>4

LEMMA ReadFailsKeeps ==
    ASSUME IInv, NEW r \in Sends, ReadFails(r)
    PROVE  IInv'
PROOF
<1> USE DEF IInv
<1>1. TypeOK'
    <2>1. frames' \in [Sends -> Seq(Texts \cup {"done"})]
        BY EmptySeq DEF ReadFails, TypeOK
    <2>2. text' \in [Sends -> Texts]
        BY DEF ReadFails, Fails, BecomesError, TypeOK, Texts
    <2>3. role' \in [Sends -> Roles]
        BY DEF ReadFails, Fails, BecomesError, TypeOK, Roles
    <2> QED
        BY <2>1, <2>2, <2>3 DEF ReadFails, Fails, ReaderAt, TypeOK, serverVars
<1>2. RequestInv(r)'
    <2>1. DecidedOnce(r)'
        BY DEF ReadFails, RequestInv, DecidedOnce, serverVars
    <2>2. reader'[r] = "over" /\ server' = server /\ out' = out /\ cut' = cut
        BY DEF ReadFails, Fails, ReaderAt, TypeOK, serverVars
    <2>3. WireIsDecided(r)' /\ ErrorGoesFirst(r)'
        <3>1. frames'[r] = <<>> /\ Len(<<>>) = 0
            BY EmptySeq DEF ReadFails, TypeOK
        <3> QED
            BY <2>2, <3>1 DEF WireIsDecided, ErrorGoesFirst
    <2>4. BubbleFollows(r)' /\ EndIsKnown(r)' /\ WholeReply(r)'
        BY FailsTold DEF ReadFails, RequestInv, serverVars
    <2> QED
        BY <2>1, <2>3, <2>4 DEF RequestInv
<1>3. ASSUME NEW q \in Sends, q # r PROVE RequestInv(q)'
    BY <1>3, Undisturbed DEF ReadFails, Fails, BecomesError, ReaderAt, TypeOK, serverVars,
           clientVars, bubbleVars
<1>4. OneAfterTheOther'
    BY Closes DEF ReadFails, Fails, Waiting
<1> QED
    BY <1>1, <1>2, <1>3, <1>4

LEMMA SendKeeps ==
    ASSUME IInv, NEW r \in Sends, Send(r)
    PROVE  IInv'
PROOF
<1> USE DEF IInv
<1>1. TypeOK'
    BY DEF Send, ReaderAt, TypeOK, Roles, Texts, serverVars, clientVars, bubbleVars
<1>2. RequestInv(r)'
    <2>1. DecidedOnce(r)'
        BY DEF Send, ReaderAt, TypeOK, RequestInv, DecidedOnce, serverVars, clientVars, bubbleVars
    <2>2. WireIsDecided(r)'
        BY DEF Send, ReaderAt, TypeOK, RequestInv, WireIsDecided, serverVars, clientVars, bubbleVars
    <2>3. ErrorGoesFirst(r)'
        BY QuietWire DEF Send, ReaderAt, TypeOK, RequestInv, ErrorGoesFirst, DecidedOnce,
               BubbleFollows, serverVars, clientVars, bubbleVars
    <2>4. BubbleFollows(r)'
        BY DEF Send, ReaderAt, TypeOK, RequestInv, BubbleFollows, DecidedOnce, Waiting,
               serverVars, clientVars, bubbleVars
    <2>5. EndIsKnown(r)'
        BY DEF Send, ReaderAt, TypeOK, RequestInv, EndIsKnown, BubbleFollows, DecidedOnce,
               Waiting, serverVars, clientVars, bubbleVars
    <2>6. WholeReply(r)'
        BY QuietWire DEF Send, ReaderAt, TypeOK, RequestInv, WholeReply, Complete, DecidedOnce,
               BubbleFollows, EndIsKnown, serverVars, clientVars, bubbleVars
    <2> QED
        BY <2>1, <2>2, <2>3, <2>4, <2>5, <2>6 DEF RequestInv
<1>3. ASSUME NEW q \in Sends, q # r PROVE RequestInv(q)'
    BY <1>3, Undisturbed DEF Send, ReaderAt, TypeOK, serverVars, clientVars, bubbleVars
<1>4. OneAfterTheOther'
    <2>1. \A q \in Sends : q < r => reader[q] = "over"
        <3> SUFFICES ASSUME NEW q \in Sends, q < r PROVE reader[q] = "over"
            OBVIOUS
        <3>1. q \in 1..(r - 1)
            BY SendsAssumption DEF Sends
        <3>2. reader[q] # "idle" /\ ~Waiting(q)
            BY <3>1 DEF Send, OneAfterTheOther
        <3> QED
            BY <3>2 DEF TypeOK, Waiting
    <2>2. \A q \in Sends : r < q => reader[q] = "idle"
        BY DEF Send, OneAfterTheOther
    <2>3. reader' = [reader EXCEPT ![r] = "fetch"] /\ pending'
        BY DEF Send, ReaderAt
    <2>4. \E q \in Sends : Waiting(q)'
        BY <2>3 DEF Waiting, TypeOK
    <2>5. ASSUME NEW p \in Sends, NEW q \in Sends, p < q, reader'[q] # "idle"
          PROVE  reader'[p] = "over"
        <3>1. q = r \/ reader[q] # "idle"
            BY <2>3, <2>5 DEF TypeOK
        <3>2. reader[p] = "over" /\ p # r
            BY <2>1, <2>2, <2>5, <3>1, SendsAssumption DEF OneAfterTheOther, Sends, Send
        <3> QED
            BY <2>3, <3>2 DEF TypeOK
    <2> QED
        BY <2>3, <2>4, <2>5 DEF OneAfterTheOther
<1> QED
    BY <1>1, <1>2, <1>3, <1>4

LEMMA CutKeeps ==
    ASSUME IInv, NEW r \in Sends, Cut(r)
    PROVE  IInv'
PROOF
<1> USE DEF IInv
<1>1. TypeOK'
    BY DEF Cut, TypeOK, Roles, Texts, serverVars, clientVars, bubbleVars
<1>2. RequestInv(r)'
    <2>1. DecidedOnce(r)'
        BY DEF Cut, TypeOK, RequestInv, DecidedOnce, serverVars, clientVars, bubbleVars
    <2>2. WireIsDecided(r)'
        BY DEF Cut, TypeOK, RequestInv, WireIsDecided, serverVars, clientVars, bubbleVars
    <2>3. ErrorGoesFirst(r)'
        BY QuietWire DEF Cut, TypeOK, RequestInv, ErrorGoesFirst, DecidedOnce, BubbleFollows,
               serverVars, clientVars, bubbleVars
    <2>4. BubbleFollows(r)'
        BY DEF Cut, TypeOK, RequestInv, BubbleFollows, DecidedOnce, Waiting, serverVars,
               clientVars, bubbleVars
    <2>5. EndIsKnown(r)'
        BY DEF Cut, TypeOK, RequestInv, EndIsKnown, BubbleFollows, DecidedOnce, Waiting,
               serverVars, clientVars, bubbleVars
    <2>6. WholeReply(r)'
        BY QuietWire DEF Cut, TypeOK, RequestInv, WholeReply, Complete, DecidedOnce, BubbleFollows,
               EndIsKnown, serverVars, clientVars, bubbleVars
    <2> QED
        BY <2>1, <2>2, <2>3, <2>4, <2>5, <2>6 DEF RequestInv
<1>3. ASSUME NEW q \in Sends, q # r PROVE RequestInv(q)'
    BY <1>3, Undisturbed DEF Cut, TypeOK, serverVars, clientVars, bubbleVars
<1>4. OneAfterTheOther'
    BY Waits DEF Cut, TypeOK, serverVars, clientVars, bubbleVars
<1> QED
    BY <1>1, <1>2, <1>3, <1>4

LEMMA SayKeeps ==
    ASSUME IInv, NEW r \in Sends, NEW p \in PartKinds, Say(r, p)
    PROVE  IInv'
PROOF
<1> USE DEF IInv
<1>1. TypeOK'
    <2>1. p \in Seq(Pieces) /\ parts[r] \in Seq(Pieces)
        <3>1. /\ <<"words">> \in Seq(Pieces) /\ <<"secret">> \in Seq(Pieces)
              /\ <<"open", "reasoning">> \in Seq(Pieces)
              /\ <<"open", "reasoning", "close">> \in Seq(Pieces)
              /\ <<"reasoning", "close", "words">> \in Seq(Pieces)
            BY DEF Pieces
        <3> QED
            BY <3>1 DEF TypeOK, PartKinds
    <2>2. parts[r] \o p \in Seq(Pieces)
        BY <2>1, ConcatProperties
    <2> QED
        BY <2>2 DEF Say, TypeOK, clientVars, bubbleVars
<1>2. RequestInv(r)'
    <2>1. DecidedOnce(r)'
        BY DEF Say, TypeOK, RequestInv, DecidedOnce, serverVars, clientVars, bubbleVars
    <2>2. WireIsDecided(r)'
        BY DEF Say, TypeOK, RequestInv, WireIsDecided, serverVars, clientVars, bubbleVars
    <2>3. ErrorGoesFirst(r)'
        BY QuietWire DEF Say, TypeOK, RequestInv, ErrorGoesFirst, DecidedOnce, BubbleFollows,
               serverVars, clientVars, bubbleVars
    <2>4. BubbleFollows(r)'
        BY DEF Say, TypeOK, RequestInv, BubbleFollows, DecidedOnce, Waiting, serverVars,
               clientVars, bubbleVars
    <2>5. EndIsKnown(r)'
        BY DEF Say, TypeOK, RequestInv, EndIsKnown, BubbleFollows, DecidedOnce, Waiting,
               serverVars, clientVars, bubbleVars
    <2>6. WholeReply(r)'
        BY QuietWire DEF Say, TypeOK, RequestInv, WholeReply, Complete, DecidedOnce, BubbleFollows,
               EndIsKnown, serverVars, clientVars, bubbleVars
    <2> QED
        BY <2>1, <2>2, <2>3, <2>4, <2>5, <2>6 DEF RequestInv
<1>3. ASSUME NEW q \in Sends, q # r PROVE RequestInv(q)'
    BY <1>3, Undisturbed DEF Say, TypeOK, serverVars, clientVars, bubbleVars
<1>4. OneAfterTheOther'
    BY Waits DEF Say, TypeOK, serverVars, clientVars, bubbleVars
<1> QED
    BY <1>1, <1>2, <1>3, <1>4

-----------------------------------------------------------------------------
LEMMA Inductive == IInv /\ [Next]_vars => IInv'
PROOF
<1> SUFFICES ASSUME IInv, [Next]_vars PROVE IInv'
    OBVIOUS
<1>1. CASE Next
    <2>1. PICK r \in Sends :
              ServerSteps(r) \/ (\E p \in PartKinds : Say(r,
              p)) \/ ClientSteps(r) \/ Send(r) \/ Cut(r)
        BY <1>1 DEF Next
    <2>2. CASE ServerSteps(r)
        BY <2>2, CheckInputKeeps, EndGraphKeeps, CheckOutputKeeps, EmitReplyKeeps, EmitDoneKeeps,
           CancelledKeeps DEF ServerSteps
    <2>3. CASE ClientSteps(r)
        BY <2>3, ArriveKeeps, OpenKeeps, RefusedKeeps, FallbackKeeps, FallbackAnswersKeeps,
           ReadKeeps, ReadFailsKeeps DEF ClientSteps
    <2> QED
        BY <2>1, <2>2, <2>3, SendKeeps, CutKeeps, SayKeeps
<1>2. CASE UNCHANGED vars
    <2>1. ASSUME NEW r \in Sends PROVE RequestInv(r)'
        BY <1>2, Undisturbed DEF vars, serverVars, clientVars, bubbleVars, IInv
    <2> QED
        BY <1>2, <2>1, Waits DEF vars, serverVars, clientVars, bubbleVars, IInv, TypeOK
<1> QED
    BY <1>1, <1>2

LEMMA Invariant == Spec => []IInv
PROOF
BY Start, Inductive, PTL DEF Spec

\* The variables stay in their types, however many messages and texts.
THEOREM TypeCorrect == Spec => []TypeOK
PROOF
<1>1. IInv => TypeOK
    BY DEF IInv
<1> QED
    BY <1>1, Invariant, PTL

\* A reply that is shown as finished is the one that the server decided on.
THEOREM FinishedRepliesAreWhole == Spec => []RepliesAreWhole
PROOF
<1>1. IInv => RepliesAreWhole
    BY DEF IInv, RequestInv, WholeReply, Complete, RepliesAreWhole
<1> QED
    BY <1>1, Invariant, PTL

\* A failed turn is shown as an error, and only a failed turn or connection.
THEOREM FailuresAreTold == Spec => []ErrorsAreShown
PROOF
<1>1. IInv => ErrorsAreShown
    BY DEF IInv, RequestInv, EndIsKnown, ErrorsAreShown
<1> QED
    BY <1>1, Invariant, PTL

\* The component blocks its send button exactly while one reply arrives.
THEOREM OneReplyAtATime == Spec => []PendingIsOneReply
PROOF
<1>1. ASSUME IInv PROVE PendingIsOneReply
    <2> USE <1>1
    <2>1. \A r \in Sends : r \in streaming <=> Waiting(r)
        BY DEF IInv, RequestInv, BubbleFollows
    <2>2. streaming \subseteq Sends /\ OneAfterTheOther
        BY DEF IInv, TypeOK
    <2>3. CASE pending
        <3>1. PICK r \in Sends : Waiting(r)
            BY <2>2, <2>3 DEF OneAfterTheOther
        <3>2. streaming = {r}
            BY <2>1, <2>2, <3>1, WaitsAlone
        <3> QED
            BY <2>3, <3>2, FS_Singleton DEF PendingIsOneReply
    <2>4. CASE ~pending
        <3>1. streaming = {}
            BY <2>1, <2>2, <2>4 DEF OneAfterTheOther
        <3> QED
            BY <2>4, <3>1, FS_EmptySet DEF PendingIsOneReply
    <2> QED
        BY <2>3, <2>4
<1> QED
    BY <1>1, Invariant, PTL

\* Two turns of one component overlap only after the earlier one was cut off.
THEOREM OverlapNeedsACut == Spec => []OverlapOnlyAfterCut
PROOF
<1>1. ASSUME IInv PROVE OverlapOnlyAfterCut
    <2> SUFFICES ASSUME NEW q \in Sends, NEW r \in Sends, q < r,
                        {server[q], server[r]} \subseteq {"input", "graph", "output"}
                 PROVE  q \in cut
        BY DEF OverlapOnlyAfterCut
    <2>1. reader[r] # "idle"
        BY <1>1 DEF IInv, RequestInv, BubbleFollows
    <2>2. reader[q] = "over"
        BY <1>1, <2>1 DEF IInv, OneAfterTheOther
    <2> QED
        BY <1>1, <2>2 DEF IInv, RequestInv, EndIsKnown
<1> QED
    BY <1>1, Invariant, PTL
=============================================================================
