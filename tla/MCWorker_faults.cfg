\* One artifact under crashes, lost and refused POSTs, late POSTs, re-offers.
CONSTANTS
  i1 = i1  i2 = i2  i3 = i3  a1 = a1  a2 = a2  d1 = d1  d2 = d2  None = None
  Ids = {i1, i2, i3}
  Artifacts = {a1}
  Digests = {d1, d2}
  Revisions <- MCRevisions
  Tasks <- OneArtifact
  Refused <- OneRefused
  MaxFaults = 2
  MaxOffers = 4
SPECIFICATION Spec
INVARIANTS TypeOK ReadyFileMatches ToldIsRecorded DeliveredWasTold BacklogAtMostOne
PROPERTIES ResultsAreBacked UndeliveredKept OrphansExplained ImplementsShelf ImplementsOutbox
