\* Two runs, overlapping or one after the other, over a growing queue.
SPECIFICATION Spec
CONSTANTS
  a1 = a1  a2 = a2
  None = None
  Addresses = {a1, a2}
  Rows <- MCRows
  Modes <- MCModes
  Pressing = {a2}
  Payloads = {p1, p2}
  Rpm = 2
  Limit = 3
  DiscoveryTTL = 1
  DetailTTL = 2
  MaxRuns = 2
  MaxTime = 1
  MaxFaults = 2
INVARIANTS
  AnswersReachLedgers
  NothingBoughtTwice
  PayloadsKept
CHECK_DEADLOCK FALSE
