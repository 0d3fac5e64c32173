\* Orders, tickets, sessions and crashes are bounded, so a run may use them up.
SPECIFICATION ReconcileFair
CONSTANTS
  Procs = {p1, p2}
  Symbols = {BTC}
  Tickets = {t1}
  Sessions = {w1}
  MaxCrashes = 1
  MaxFills = 2
  FetchFails = TRUE
  MaxPyramid = 0
  TargetStates <- NoTargets
  Recovery = {BTC}
  NoProc = NoProc
  NoSymbol = NoSymbol
  NoTicket = NoTicket
  NoSession = NoSession
CHECK_DEADLOCK FALSE
PROPERTY OrphanWasFlat
PROPERTY UntrackedIsClosed
