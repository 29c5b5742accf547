\* Admin calls on tenants and keys, and the devices of the tenants.
SPECIFICATION Spec
CONSTANTS
  c1 = c1
  c2 = c2
  c3 = c3
  d1 = d1
  d2 = d2
  Tenants = {t1}
  SeedKeys = {k1}
  Calls = {c1, c2, c3}
  Ops = {"createTenant", "updateTenant", "deleteTenant", "createKey", "updateKey", "revokeKey"}
  MaxFaults = 2
  MaxCalls = 3
  SeedTokens = {s1}
  Devices = {d1, d2}
  Null = Null
SYMMETRY CallSymmetry
INVARIANTS
  SessionsTypeOK
  RowsHaveTenant
  DeletionLocksOut
  TokensHaveTenant
  RetiredTokens
PROPERTIES
  RevocationHolds
  TokensNeverRevive
CHECK_DEADLOCK FALSE
