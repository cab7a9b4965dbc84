\* Two overlapping rebuilds of two versions, in any order, while evidence and
\* decisions arrive, of who controls an address or of its label.
SPECIFICATION Spec
CONSTANTS
  k1 = k1  k2 = k2
  None = None
  Rows <- MCRows
  Unproved <- MCUnproved
  Values = {1, 2}
  Times = {1, 2}
  Resolvers = {k1, k2}
  MaxDecisions = 1
SYMMETRY Symmetry
INVARIANTS
  WinnersAreJustified
  PointInTime
  OneRevisionPerAsOf
  ConflictsAreTraceable
PROPERTY HistoryKept
CHECK_DEADLOCK FALSE
