\* Both callers; a position of four quarters, two failing calls.
SPECIFICATION FairSpec
CONSTANTS
  Profits <- MCProfits
  Sl <- MCSl
  Tp1 = 4
  Tp2 = 8
  Size = 4
  MaxHold = 1
  SupportsEdit = TRUE
  Callers = {"contract", "pipeline"}
  MaxFaults = 2
  MaxStops = 3
  None = none
INVARIANTS  AtRest
PROPERTIES StopRatchets TimeExitCloses
CHECK_DEADLOCK FALSE
