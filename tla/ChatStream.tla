----------------------------- MODULE ChatStream -----------------------------
(***************************************************************************)
(* A chat component of the browser and the response streams it is sent.    *)
(* stream_llm_response runs the graph, checks what it said and emits at    *)
(* most one message, or an error, and then "done"; streamAgent reads the   *)
(* frames, and the component lets a bubble grow with them.  The connection *)
(* may be cut at any time; the server learns of it later.                  *)
(***************************************************************************)
EXTENDS Integers, Sequences, FiniteSets

CONSTANTS
    MaxSends,    \* bound: messages typed into the component
    MaxParts     \* bound: pieces of text the specialists produce in each turn

ASSUME SendsAssumption == MaxSends \in Nat \ {0}

Sends == 1..MaxSends

ASSUME PartsAssumption == MaxParts \in [Sends -> Nat]

\* What a text is made of: harmless words, something validate_output refuses,
\* reasoning, and the tags <think> and </think>.
Pieces == {"words", "secret", "reasoning", "open", "close"}

\* The text of one model call.  A chat template that opens the block itself
\* leaves a model's text with the closing tag only.
PartKinds ==
    {<<"words">>, <<"secret">>, <<"open", "reasoning", "close">>,
     <<"open", "reasoning">>, <<"reasoning", "close", "words">>}

VARIABLES
    server,     \* where stream_llm_response is in a request
    parts,      \* response_parts, joined
    out,        \* what it decided to emit
    frames,     \* frames emitted and not yet read
    cut,        \* requests whose connection is broken
    reader,     \* where streamAgent and the component are in a request
    pending,    \* the component's pending signal
    role,       \* who speaks in the reply bubble of a request: "none" before
                \* there is one; "agent then error" is a bubble that kept its
                \* text and is followed by one of role "error"
    text,       \* the text of the reply bubble
    streaming   \* the requests whose reply bubble is still growing

serverVars == <<server, parts, out>>
bubbleVars == <<role, text, streaming>>
clientVars == <<reader, pending, bubbleVars>>
vars == <<serverVars, frames, cut, clientVars>>

Texts == {"", "answer", "input blocked", "output blocked", "stub", "empty reply", "error"}

Roles == {"none", "agent", "error", "agent then error"}

Init ==
    /\ server = [r \in Sends |-> "idle"]
    /\ parts = [r \in Sends |-> <<>>]
    /\ out = [r \in Sends |-> "undecided"]
    /\ frames = [r \in Sends |-> <<>>]
    /\ cut = {}
    /\ reader = [r \in Sends |-> "idle"]
    /\ pending = FALSE
    /\ role = [r \in Sends |-> "none"]
    /\ text = [r \in Sends |-> ""]
    /\ streaming = {}

-----------------------------------------------------------------------------
(* The server: stream_llm_response.                                        *)

Decide(r, o) ==
    /\ out' = [out EXCEPT ![r] = o]
    /\ server' = [server EXCEPT ![r] = "emit"]

\* validate_input and the optional model check let the message pass, block it,
\* or the model check raises.
CheckInput(r) ==
    /\ server[r] = "input"
    /\ \/ server' = [server EXCEPT ![r] = "graph"] /\ UNCHANGED out
       \/ Decide(r, "input blocked")
       \/ Decide(r, "error")
    /\ UNCHANGED <<parts, frames, cut, clientVars>>

\* A node the customer hears says something.
Say(r, p) ==
    /\ server[r] = "graph" /\ Len(parts[r]) + Len(p) =< MaxParts[r]
    /\ parts' = [parts EXCEPT ![r] = @ \o p]
    /\ UNCHANGED <<server, out, frames, cut, clientVars>>

\* The run of the graph returns, or raises.
EndGraph(r) ==
    /\ server[r] = "graph"
    /\ \/ server' = [server EXCEPT ![r] = "output"] /\ UNCHANGED out
       \/ Decide(r, "error")
    /\ UNCHANGED <<parts, frames, cut, clientVars>>

\* strip_reasoning of the joined parts: a block reaches from its opening tag to
\* the next closing tag, be it in a later part, and to the end without one; a
\* closing tag that closes nothing is text.
Shown(ps) ==
    {i \in DOMAIN ps :
        /\ ps[i] # "open"
        /\ \A j \in 1..(i - 1) : ps[j] = "open" =>
               \E k \in (j + 1)..(i - 1) : ps[k] = "close"}

Harmful(ps) == \E i \in Shown(ps) : ps[i] = "secret"

\* validate_output, then the optional model check of what passed.
CheckOutput(r) ==
    /\ server[r] = "output"
    /\ \/ /\ ~Harmful(parts[r])
          /\ \/ Decide(r, IF Shown(parts[r]) = {} THEN "nothing" ELSE "answer")
             \/ Decide(r, "error")
       \/ Decide(r, "output blocked")
    /\ UNCHANGED <<parts, frames, cut, clientVars>>

Emit(r, f) ==
    frames' = [frames EXCEPT ![r] = IF r \in cut THEN @ ELSE Append(@, f)]

\* yield the one message or error; an empty answer has none.
EmitReply(r) ==
    /\ server[r] = "emit"
    /\ IF out[r] = "nothing" THEN UNCHANGED frames ELSE Emit(r, out[r])
    /\ server' = [server EXCEPT ![r] = "done"]
    /\ UNCHANGED <<parts, out, cut, clientVars>>

\* yield DONE_EVENT
EmitDone(r) ==
    /\ server[r] = "done"
    /\ Emit(r, "done")
    /\ server' = [server EXCEPT ![r] = "over"]
    /\ UNCHANGED <<parts, out, cut, clientVars>>

\* The connection breaks; the server task is cancelled when it is noticed.
Cut(r) ==
    /\ reader[r] \in {"fetch", "read"} /\ r \notin cut
    /\ cut' = cut \cup {r}
    /\ UNCHANGED <<serverVars, frames, clientVars>>

Cancelled(r) ==
    /\ r \in cut /\ server[r] \notin {"idle", "over"}
    /\ server' = [server EXCEPT ![r] = "over"]
    /\ UNCHANGED <<parts, out, frames, cut, clientVars>>

-----------------------------------------------------------------------------
(* The browser: AgentChatComponent and ApiService.streamAgent.             *)

ReaderAt(r, l) == reader' = [reader EXCEPT ![r] = l]

\* Mistake: Enter sends although a reply is pending.
SendAnytime(r) ==
    /\ reader[r] = "idle" /\ \A q \in 1..(r - 1) : reader[q] # "idle"
    /\ ReaderAt(r, "fetch")
    /\ pending' = TRUE
    /\ role' = [role EXCEPT ![r] = "agent"]
    /\ streaming' = streaming \cup {r}
    /\ UNCHANGED <<serverVars, frames, cut, text>>

\* send: one reply at a time.
Send(r) ==
    /\ reader[r] = "idle" /\ \A q \in 1..(r - 1) : reader[q] # "idle"
    /\ ~pending
    /\ ReaderAt(r, "fetch")
    /\ pending' = TRUE
    /\ role' = [role EXCEPT ![r] = "agent"]
    /\ streaming' = streaming \cup {r}
    /\ UNCHANGED <<serverVars, frames, cut, text>>

\* The request reaches the handler, which starts the stream.
Arrive(r) ==
    /\ reader[r] = "fetch" /\ r \notin cut /\ server[r] = "idle"
    /\ server' = [server EXCEPT ![r] = "input"]
    /\ UNCHANGED <<parts, out, frames, cut, clientVars>>

\* The response's headers are there and its body is read.
Open(r) ==
    /\ reader[r] = "fetch" /\ server[r] # "idle"
    /\ ReaderAt(r, "read")
    /\ UNCHANGED <<serverVars, frames, cut, pending, bubbleVars>>

\* The bubble that waited for the reply says what went wrong.
BecomesError(r) ==
    /\ role' = [role EXCEPT ![r] = "error"]
    /\ text' = [text EXCEPT ![r] = "error"]

\* Mistake: the error callback leaves pending as it is.
FailsStillPending(r) ==
    /\ ReaderAt(r, "over")
    /\ UNCHANGED pending
    /\ streaming' = streaming \ {r}
    /\ IF text[r] # "" THEN role' = [role EXCEPT ![r] = "agent then error"] /\ UNCHANGED text
       ELSE BecomesError(r)

\* The error callback: text that has arrived is kept.
Fails(r) ==
    /\ ReaderAt(r, "over")
    /\ pending' = FALSE
    /\ streaming' = streaming \ {r}
    /\ IF text[r] # "" THEN role' = [role EXCEPT ![r] = "agent then error"] /\ UNCHANGED text
       ELSE BecomesError(r)

\* The complete callback.
Completes(r) ==
    /\ ReaderAt(r, "over")
    /\ pending' = FALSE
    /\ streaming' = streaming \ {r}
    /\ text' = [text EXCEPT ![r] = IF @ = "" THEN "empty reply" ELSE @]
    /\ UNCHANGED role

\* The request is refused (401, 403, 422, 429, 5xx), or fetch rejects because
\* the connection broke.
Refused(r) ==
    /\ reader[r] = "fetch" /\ (server[r] = "idle" \/ r \in cut)
    /\ Fails(r)
    /\ UNCHANGED <<serverVars, frames, cut>>

\* 404: the component asks the endpoint that does not stream, and is still
\* pending.
Fallback(r) ==
    /\ reader[r] = "fetch" /\ server[r] = "idle" /\ r \notin cut
    /\ ReaderAt(r, "fallback")
    /\ UNCHANGED <<serverVars, frames, cut, pending, bubbleVars>>

FallbackAnswers(r) ==
    /\ reader[r] = "fallback"
    /\ ReaderAt(r, "over")
    /\ pending' = FALSE
    /\ streaming' = streaming \ {r}
    /\ \/ text' = [text EXCEPT ![r] = "stub"] /\ UNCHANGED role
       \/ BecomesError(r)
    /\ UNCHANGED <<serverVars, frames, cut>>

\* Mistake: an error frame is read like a message, its text is in the data.
ReadErrorAsText(r) ==
    /\ reader[r] = "read" /\ frames[r] # <<>>
    /\ frames' = [frames EXCEPT ![r] = Tail(@)]
    /\ IF Head(frames[r]) = "done" THEN Completes(r)
       ELSE /\ text' = [text EXCEPT ![r] = Head(frames[r])]
            /\ UNCHANGED <<reader, pending, role, streaming>>
    /\ UNCHANGED <<serverVars, cut>>

\* A frame arrives: the end, an error, or a text to append.
Read(r) ==
    /\ reader[r] = "read" /\ frames[r] # <<>>
    /\ frames' = [frames EXCEPT ![r] = Tail(@)]
    /\ CASE Head(frames[r]) = "done"  -> Completes(r)
         [] Head(frames[r]) = "error" -> Fails(r)
         [] Head(frames[r]) \notin {"done", "error"} ->
                /\ text' = [text EXCEPT ![r] = Head(frames[r])]
                /\ UNCHANGED <<reader, pending, role, streaming>>
    /\ UNCHANGED <<serverVars, cut>>

\* Mistake: a broken connection is the end of the reply.
ReadFailsAsEnd(r) ==
    /\ reader[r] = "read" /\ r \in cut
    /\ Completes(r)
    /\ frames' = [frames EXCEPT ![r] = <<>>]
    /\ UNCHANGED <<serverVars, cut>>

\* reader.read() rejects on a broken connection; what was on its way may have
\* been read before or is lost.
ReadFails(r) ==
    /\ reader[r] = "read" /\ r \in cut
    /\ Fails(r)
    /\ frames' = [frames EXCEPT ![r] = <<>>]
    /\ UNCHANGED <<serverVars, cut>>

-----------------------------------------------------------------------------
ServerSteps(r) ==
    \/ CheckInput(r) \/ EndGraph(r) \/ CheckOutput(r)
    \/ EmitReply(r) \/ EmitDone(r) \/ Cancelled(r)

ClientSteps(r) ==
    \/ Arrive(r) \/ Open(r) \/ Refused(r) \/ Fallback(r) \/ FallbackAnswers(r)
    \/ Read(r) \/ ReadFails(r)

Next == \E r \in Sends :
    \/ ServerSteps(r) \/ (\E p \in PartKinds : Say(r, p))
    \/ ClientSteps(r) \/ Send(r) \/ Cut(r)

Spec == Init /\ [][Next]_vars

\* The server's turn ends (AgentGraph!TurnsEnd), responses arrive.
FairSpec == Spec /\ \A r \in Sends : WF_vars(ServerSteps(r)) /\ WF_vars(ClientSteps(r))

-----------------------------------------------------------------------------
\* The variables stay in their types.
TypeOK ==
    /\ server \in [Sends -> {"idle", "input", "graph", "output", "emit", "done", "over"}]
    /\ parts \in [Sends -> Seq(Pieces)]
    /\ out \in [Sends -> {"undecided", "nothing", "answer", "input blocked",
                          "output blocked", "error"}]
    /\ frames \in [Sends -> Seq(Texts \cup {"done"})]
    /\ cut \subseteq Sends
    /\ reader \in [Sends -> {"idle", "fetch", "read", "fallback", "over"}]
    /\ pending \in BOOLEAN
    /\ role \in [Sends -> Roles]
    /\ text \in [Sends -> Texts]
    /\ streaming \subseteq Sends

\* The reasoning of a model is not shown to a customer (the comment above
\* strip_reasoning: "a model that emits it anyway must not have it shown to a
\* customer").  Expected to fail.
ReasoningIsHidden ==
    \A r \in Sends : text[r] = "answer" =>
        \A i \in Shown(parts[r]) : parts[r][i] # "reasoning"

\* A reply that stands in the chat as finished, without an error, is all that
\* the server decided to say, wherever the connection broke and however far the
\* browser had read: a reply that was cut off is not taken for a whole or an
\* empty one, and nothing but an empty answer is shown as one.
RepliesAreWhole ==
    \A r \in Sends : reader[r] = "over" /\ role[r] = "agent" /\ server[r] # "idle" =>
        text[r] = IF out[r] = "nothing" THEN "empty reply" ELSE out[r]

\* The customer is told of every turn that failed, and told of a failure only
\* when the turn failed or the connection did: an answer that was completely
\* received is not followed by an error.
ErrorsAreShown ==
    \A r \in Sends : reader[r] = "over" /\ server[r] # "idle" =>
        /\ out[r] = "error" => role[r] # "agent"
        /\ role[r] # "agent" => out[r] = "error" \/ r \in cut

\* The send button is blocked exactly while one reply is being received.
PendingIsOneReply ==
    Cardinality(streaming) = IF pending THEN 1 ELSE 0

\* The component starts no turn while another of its thread still runs, unless
\* the earlier one's connection broke.
OverlapOnlyAfterCut ==
    \A q, r \in Sends :
        /\ q < r
        /\ {server[q], server[r]} \subseteq {"input", "graph", "output"}
        => q \in cut

\* Every message gets an answer or an error and the component can be used
\* again, whichever way the connection and the server go.
SendSettles == pending ~> ~pending
=============================================================================
