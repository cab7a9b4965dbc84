\* Two candidate publications and two feature materializations of one
\* campaign id overlap; any of them may fail or die, the receipt may be rewritten, and
\* the source may repeat an address or a pinned subject in either tier.
SPECIFICATION Spec
CONSTANTS
  c1 = c1  c2 = c2  w1 = w1  w2 = w2  a1 = a1  a2 = a2  x = x  id = id  s = s  f = f
  Publishers = {c1, c2}
  Writers = {w1, w2}
  Ids = {id}
  Campaign <- MCCampaign
  Tiers = {"p0", "edge"}
  Addresses = {a1, a2}
  Exclusions <- MCExclusions
  Expected <- MCExpected
  Scripts = {s}
  Features = {f}
  None = None
  MaxRows = 2
SYMMETRY Symmetry
INVARIANTS
  PublishedIsWhole
  OutcomeIsTrue
PROPERTY
  ImplementsArtifacts
CHECK_DEADLOCK FALSE
