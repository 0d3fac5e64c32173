\* Ticket, session and crash counts are bounded, so a run may use them up.
SPECIFICATION Spec
CONSTANTS
  Procs = {p1, p2}
  Symbols = {BTC, ETH}
  Tickets = {t1, t2, t3}
  Sessions = {w1, w2}
  MaxPyramid = 1
  MaxCrashes = 1
  TargetStates <- TpTargets
  Recovery = {ETH}
  NoProc = NoProc
  NoSymbol = NoSymbol
  NoTicket = NoTicket
  NoSession = NoSession
SYMMETRY Symmetric
CHECK_DEADLOCK FALSE
INVARIANT OneActiveRoot
INVARIANT PositionHasTicket
INVARIANT PyramidsCounted
INVARIANT PositionAgrees
PROPERTY ImplementsLifecycle
PROPERTY FsmFollowsMap
