SPECIFICATION FairSpec
CONSTANTS
  BracketCarriesSl = TRUE
  MaxTries = 3
  SlMaxRetries = 3
\* executeEntry returns
CHECK_DEADLOCK FALSE
INVARIANT PlacedOnce
INVARIANT AbortedIsFlat
INVARIANT SuccessIsProtected
PROPERTY Terminates
