SPECIFICATION Spec
CONSTANTS
  None = None
  Unset = Unset
  InitialBalance = 500
  SlippagePct = 0
  Horizon = 8
  EndDate = 7
  Prices = {100, 200}
  StopPrices = {50, 150, 250}
  Sizes = {1, 2}
  IsMonths = 2
  OosMonths = 2
  RollMonths = 1
  Ranges <- SomeRanges
  Grid <- SomeGrid
  RandomParams <- SomeSamples
  TopN = 1
  Expectancies <- SomeExpectancies
  Scale = 6
PROPERTY FillsAtClose
CHECK_DEADLOCK FALSE
