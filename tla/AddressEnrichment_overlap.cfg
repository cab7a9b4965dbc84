\* Two runs of one campaign overlap freely, may disagree about its inputs, and may die.
SPECIFICATION Spec
CONSTANTS
  r1 = r1  r2 = r2  c1 = c1
  a1 = a1  a2 = a2  a3 = a3  i1 = i1  i2 = i2  e1 = e1
  None = None
  Runs = {r1, r2}
  Campaigns = {c1}
  Addresses = {a1, a2}
  Entities = {e1}
  Inputs = {i1, i2}
  RowsOf <- MCRowsOf
  DirectOf <- MCDirectOf
  PointLimit <- MCPointLimit
  RequestLimit = 2
  MaxConsecutiveFailures = 2
  ResponsePoints = {1, 2}
  KnownEntities = {}
  MaxActive = 2
SYMMETRY Symmetry
INVARIANTS
  TypeOK
  AtMostOncePerCampaign
  BindingGoverns
  EvidenceProvenance
  EntitiesAccountedFor
  QuotaAccounting
PROPERTIES
  ImplementsLedger
CHECK_DEADLOCK FALSE
