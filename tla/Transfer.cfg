SPECIFICATION Spec
CONSTANTS
  None = None
  Requests = {q1, q2}
  MaxPuts = 2
  Values <- SomeValues
  Runs = {r1, r2}
  MaxNow = 2
  MaxStarts = 2
  MaxManual = 1
  MaxTrades = 1
  MaxRetries = 2
  Wallet = 100
  Margins = {60}
  Profits = {40}
  RiskTimesMultiplier = 30
  ReserveFloor = 50
  TransferPct = 50
  MinTransfer = 10
INVARIANTS KeepsRunning StopsQuietly CacheAgrees
PROPERTY BufferKept
CHECK_DEADLOCK FALSE
SYMMETRY Interchangeable
