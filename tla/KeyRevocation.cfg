\* A revocation of a key and an update of its name overlap.
SPECIFICATION Spec
CONSTANTS
  c1 = c1
  c2 = c2
  c3 = c3
  d1 = d1
  d2 = d2
  Tenants = {t1}
  SeedKeys = {k1}
  Calls = {c1, c2}
  Ops = {"updateKey", "revokeKey"}
  MaxFaults = 0
  MaxCalls = 2
  SeedTokens = {}
  Devices = {}
  Null = Null
PROPERTIES
  RevocationIsFinal
CHECK_DEADLOCK FALSE
