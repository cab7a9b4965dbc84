\* Two overlapping runs of one campaign over three entities; either may die,
\* entities are learnt and finalize runs at any time.  The entities of the
\* canary are all finished, so what is left to ask for is learnt.
SPECIFICATION Spec
CONSTANTS
  r1 = r1  r2 = r2  c1 = c1  a1 = a1  e1 = e1  e2 = e2  e3 = e3
  None = None
  Runs = {r1, r2}
  Campaigns = {c1}
  Entities = {e1, e2, e3}
  InputIds = {}
  Addresses = {a1}
  RequestLimit <- MCRequestLimit
  MaxConsecutiveFailures = 2
  MaxActive = 2
SYMMETRY Symmetry
INVARIANTS
  RequestsAccounted
  MembersAccounted
  FrozenHas502
  BreakerStops
CHECK_DEADLOCK FALSE
