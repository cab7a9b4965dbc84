\* Two overlapping runs with different limits, one of which passes its start
\* time; either may die.
SPECIFICATION Spec
CONSTANTS
  r1 = r1  r2 = r2
  Runs = {r1, r2}
  LimitOf <- MCLimits
  Ceiling = 2
  Window = 2
  FrozenRuns = {r2}
  Budget = 4
  Estimate = 2
  Sizes = {0, 1, 4}
  MaxRetries = 1
  MaxActive = 2
  MaxClock = 2
  MaxRequests = 2
INVARIANTS
  OvershootBounded
  BudgetOvershootBounded
  CountersAgree
CHECK_DEADLOCK FALSE
