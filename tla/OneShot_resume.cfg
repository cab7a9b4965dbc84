\* One table authorization, two resumes that overlap.
SPECIFICATION Spec
CONSTANTS
  k1 = k1  k2 = k2  k3 = k3
  census = census  recovery = recovery  strict = strict
  None = None
  Commands = {k1, k2}
  Auths = {strict}
  Tables = {strict}
  Recovered <- MCNoRecovered
  Population = {}
SYMMETRY Symmetry
INVARIANT UnpreparedUnsubmitted
CHECK_DEADLOCK FALSE
