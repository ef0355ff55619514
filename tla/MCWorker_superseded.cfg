\* No fault at all: a render task of an old revision arrives after the new one.
CONSTANTS
  i1 = i1  i2 = i2  i3 = i3  a1 = a1  a2 = a2  d1 = d1  d2 = d2  None = None
  Ids = {i1, i2, i3}
  Artifacts = {a1}
  Digests = {d1}
  Revisions <- MCRevisions
  Tasks <- OneArtifact
  Refused <- OneRefused
  MaxFaults = 0
  MaxOffers = 2
SPECIFICATION Spec
INVARIANT SupersededRemoved
