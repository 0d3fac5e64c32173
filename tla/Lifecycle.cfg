\* Orders, tickets, sessions and crashes are bounded, so a run may use them up.
SPECIFICATION FairSpec
CONSTANTS
  Procs = {p1}
  Symbols = {BTC}
  Tickets = {t1}
  Sessions = {w1}
  MaxCrashes = 2
  MaxFills = 2
  PendingRows = {BTC}
  MaxPyramid = 0
  TargetStates <- NoTargets
  Recovery = {BTC}
  NoProc = NoProc
  NoSymbol = NoSymbol
  NoTicket = NoTicket
  NoSession = NoSession
CHECK_DEADLOCK FALSE
INVARIANTS RecoveredAgrees KillLeavesLate
PROPERTY ShutdownEnds
