\* Two artifacts: every task is answered although POSTs fail, the process dies, revisions
\* come out of order, ids are used again and a payload is refused.
CONSTANTS
  i1 = i1  i2 = i2  i3 = i3  a1 = a1  a2 = a2  d1 = d1  d2 = d2  None = None
  Ids = {i1, i2, i3}
  Artifacts = {a1, a2}
  Digests = {d1}
  Revisions <- MCRevisions
  Tasks <- TwoArtifacts
  Refused <- TwoRefused
  MaxFaults = 1
  MaxOffers = 3
SPECIFICATION FairSpec
PROPERTIES TasksAreAnswered
