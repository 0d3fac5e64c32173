SPECIFICATION SignalSpec
CONSTANTS
  MaxPrice = 4
  Base = 100
  SRLevels = {2, 3}
  Atrs = {4}
  RangeSums = {5, 10}
  Widths1h = {2}
  MinSamples = 3
  AGradeMinSamples = 2
  WinratePct = 55
  AGradeWinratePct = 50
  MaxNeighbours = 4
  LowBalance = 3
  HighBalance = 300
  HardCap = 38
  Balances <- SomeBalances
  LevCaps <- SomeCaps
  Lots = 10
  MinLots = 1
  None = None
INVARIANTS MirrorFair SignalSound KnnMonotone SizeBounded
