\* Three credentials, so that a binding can be replaced twice.
CONSTANTS
  c1 = c1  c2 = c2  c3 = c3  None = None
  Creds = {c1, c2, c3}
  MaxFaults = 2
SPECIFICATION FairSpec
INVARIANTS TypeOK OnlyRevocationClears OnlyRejectionStops RefusedBindKeepsBinding
PROPERTIES RevokedIsRetired
