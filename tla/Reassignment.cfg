\* An administrator changes the providers while verifications of two tenants run.
SPECIFICATION Spec
CONSTANTS
  t1 = t1
  t2 = t2
  mock = mock
  link = link
  idle = idle
  Tenants = {t1, t2}
  Providers = {link, mock, idle}
  Registered = {link, mock}
  Admins = {a1}
  MaxConfigs = 3
  MaxAdminCalls = 1
  Seed <- MCSeedSpare
  Requests = {r1, r2}
  Documents = {d1}
  Behaviour <- MCBehaviour
  Ops = {"create", "get", "cancel"}
  MaxFaults = 0
  Null = Null
SYMMETRY RequestSymmetry
INVARIANTS
  RowIntegrity
  ProviderOfRecord
  CancelledByConsent
PROPERTIES
  TenantIsolation
CHECK_DEADLOCK FALSE
