---------------------------- MODULE MCAgentGraph ----------------------------
EXTENDS AgentGraph, TLC

CONSTANTS tracking, actions, status, refund

MCToolsOf == (tracking :> {status}) @@ (actions :> {refund})

\* The specialists are interchangeable together with their tools.
Same == [x \in {tracking, actions, status, refund} |-> x]
Swap == (tracking :> actions) @@ (actions :> tracking)
        @@ (status :> refund) @@ (refund :> status)

\* So are the turns of the thread.
ThreadSymmetry == {p @@ q : p \in Permutations(Turns), q \in {Same, Swap}}
=============================================================================
