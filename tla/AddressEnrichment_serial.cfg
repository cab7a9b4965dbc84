\* Two runs of one campaign, one after the other, under weak fairness of their
\* steps; either may die; three rows, two points.
SPECIFICATION FairSpec
CONSTANTS
  r1 = r1  r2 = r2  c1 = c1
  a1 = a1  a2 = a2  a3 = a3  i1 = i1  i2 = i2  e1 = e1
  None = None
  Entities = {e1}
  KnownEntities = {}
  MaxConsecutiveFailures = 2
  Runs = {r1, r2}
  Campaigns = {c1}
  Addresses = {a1, a2, a3}
  Inputs = {i1}
  RowsOf <- MCRowsOf3
  DirectOf <- MCDirectOf3
  PointLimit <- MCPointLimit3
  RequestLimit = 3
  ResponsePoints = {1}
  MaxActive = 1
INVARIANT RequestsWithinPointLimit
PROPERTY RunsEnd
CHECK_DEADLOCK FALSE
