\* Claim: the provider that runs a verification is asked to cancel it.
SPECIFICATION Spec
CONSTANTS
  t1 = t1
  t2 = t2
  mock = mock
  link = link
  idle = idle
  Tenants = {t1}
  Providers = {link, mock}
  Registered = {link, mock}
  Admins = {a1}
  MaxConfigs = 2
  MaxAdminCalls = 1
  Seed <- MCSeedLink
  Requests = {r1, r2}
  Documents = {d1}
  Behaviour <- MCBehaviour
  Ops = {"create", "get", "cancel"}
  MaxFaults = 0
  Null = Null
SYMMETRY RequestSymmetry
INVARIANTS
  CancelAsksOwnProvider
CHECK_DEADLOCK FALSE
