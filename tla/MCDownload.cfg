CONSTANTS
  i1 = i1  i2 = i2  i3 = i3  i4 = i4  a1 = a1  d1 = d1  d2 = d2  h1 = h1  None = None
  Ids = {i1, i2, i3, i4}
  Artifacts = {a1}
  Digests = {d1, d2}
  Handlers = {h1}
  Revisions <- MCRevisions
  Tasks <- Republished
  Refused <- NoTasks
  MaxFaults = 1
  MaxOffers = 3
SPECIFICATION DSpec
INVARIANTS DTypeOK ServesWhatWasShown
PROPERTIES OpenFindsShown LossNeedsWithdrawal ImplementsReaders
