CONSTANTS
  c1 = c1  c2 = c2  c3 = c3  None = None
  Creds = {c1, c2}
  MaxFaults = 0
SPECIFICATION Spec
PROPERTY ClearsOnlyRejected
