SPECIFICATION Spec
CONSTANTS
  BracketCarriesSl = FALSE
  MaxTries = 3
  SlMaxRetries = 3
\* executeEntry returns
CHECK_DEADLOCK FALSE
INVARIANT SuccessIsProtected
