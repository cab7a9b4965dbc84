\* The history of one address, up to three transactions.
SPECIFICATION CensusSpec
CONSTANTS
  Addresses = {a1}
  a1 = a1
  Transactions <- MCTransactions
  MaxTransactions = 3
INVARIANT RowsAreAccepted
INVARIANT CensusReconciles
INVARIANT FirstCensusReconciles
INVARIANT CensusCountsThePolicy
INVARIANT SecondPolicyNarrows
CHECK_DEADLOCK FALSE
