\* Two runs, overlapping or one after the other, up to a TTL apart.
SPECIFICATION Spec
CONSTANTS
  None = None
  Entities = {1, 2}
  Addresses = {1, 2}
  RankingAt <- MCRankingAt
  SeedOffers <- MCSeedOffers
  Candidates <- MCCandidates
  Conflicted = {2}
  Exhausted = {}
  Rpm = 5
  EntityLimit = 2
  AddressLimit = 2
  EntityTTL = 2
  AddressTTL = 1
  Backoff = 1
  MaxRuns = 2
  MaxTime = 1
  MaxFaults = 2
INVARIANTS
  ParsedIsFiled
  NothingBoughtTwice
  PlanFitsWindow
PROPERTY
  RetriesGoFirst
CHECK_DEADLOCK FALSE
