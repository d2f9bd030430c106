---------------------------- MODULE MCChatStream ----------------------------
EXTENDS ChatStream

\* Three pieces are the longest text; two shorter ones fit as well.  How two
\* messages meet does not depend on what the second one is answered.
PiecesPerTurn == [r \in Sends |-> IF r = 1 THEN 3 ELSE 1]
=============================================================================
