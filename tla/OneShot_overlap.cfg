\* A census, its recovery, and the table that relies on the recovery; any
\* three commands overlap, any may die, and commands never stop coming.
SPECIFICATION Spec
CONSTANTS
  k1 = k1  k2 = k2  k3 = k3
  census = census  recovery = recovery  strict = strict
  None = None
  Commands = {k1, k2, k3}
  Auths = {census, recovery, strict}
  Tables = {strict}
  Recovered <- MCRecovered
  Population = {recovery}
SYMMETRY Symmetry
INVARIANTS
  SubmittedOnce
  RecoveryOverFailure
  SealedPopulation
  ClaimsAreBacked
CHECK_DEADLOCK FALSE
