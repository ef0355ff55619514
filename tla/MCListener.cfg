CONSTANTS
  k1 = k1  k2 = k2  h1 = h1  h2 = h2
  Conns = {k1, k2}
  Slots = 2
  MaxFailures = 2
  Keys = {h1, h2}
  NoKey = NoKey
  Window = 2
  Skew = 1
  Horizon = 3
  MaxGrants = 1
SPECIFICATION LFairSpec
INVARIANTS LTypeOK SlotsAccounted GrantIsShortLived
PROPERTIES JudgedForAReason ConnectionsEnd SlotsComeBack
