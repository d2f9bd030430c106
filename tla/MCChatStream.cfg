\* Two messages.  The first turn says nothing or up to three pieces of text:
\* reasoning blocks that are opened, closed and left open in any order.
SPECIFICATION FairSpec
CONSTANTS
  MaxSends = 2
  MaxParts <- PiecesPerTurn
INVARIANTS
  ErrorsAreShown
  PendingIsOneReply
  OverlapOnlyAfterCut
  RepliesAreWhole
PROPERTIES
  SendSettles
\* The customer types no more.
CHECK_DEADLOCK FALSE
