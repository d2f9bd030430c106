\* One message, answered with up to three pieces of text.
SPECIFICATION Spec
CONSTANTS
  MaxSends = 1
  MaxParts <- PiecesPerTurn
INVARIANTS
  ReasoningIsHidden
\* The customer types no more.
CHECK_DEADLOCK FALSE
