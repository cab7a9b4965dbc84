\* Two overlapping runs that take the time before every reserve.
SPECIFICATION Spec
CONSTANTS
  r1 = r1  r2 = r2
  Runs = {r1, r2}
  LimitOf <- MCUniformLimits
  Ceiling = 2
  Window = 2
  FrozenRuns = {}
  Budget = 4
  Estimate = 2
  Sizes = {0}
  MaxRetries = 0
  MaxActive = 2
  MaxClock = 3
  MaxRequests = 2
SYMMETRY Symmetry
INVARIANT SharedWindowRespected
CHECK_DEADLOCK FALSE
