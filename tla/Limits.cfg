SPECIFICATION LimitSpec
CONSTANTS
  Clock <- SomeInstants
  Streams <- SomeStreams
  Losing <- SomeLosing
  Symbols = {"BTC", "ETH"}
  Releases <- SomeReleases
  DayLimit = 2
  MaxSessionLosses = 3
  MaxHourly5m = 2
  MaxHourly1m = 1
  MaxLosses = 2
INVARIANTS CountersTrue BlocksHold LimitsHold
