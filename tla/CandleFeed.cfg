\* One stream over four bars of a day each: one lost connection, one crash.
SPECIFICATION FairSpec
CONSTANTS
  Slots = {s1, s2}
  None = none
  MaxDrops = 1
  MaxBar = 3
  Day = 1
  Window = 4
  Multiplier = 1
  MaxRecent = 1
  MaxDelay = 1
  Slack = 1
  RestLimit = 2
  MaxPending = 2
  MaxCrashes = 1
INVARIANTS OneSocket EachCloseOnce RecoveredNoHoles
PROPERTIES ClosedStays Reconnects ClosesDown
CHECK_DEADLOCK FALSE
