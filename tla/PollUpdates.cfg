\* Claim: polling updates the database.
SPECIFICATION Spec
CONSTANTS
  t1 = t1
  t2 = t2
  mock = mock
  link = link
  idle = idle
  Tenants = {t1}
  Providers = {link}
  Registered = {link}
  Admins = {}
  MaxConfigs = 1
  MaxAdminCalls = 0
  Seed <- MCSeedLink
  Requests = {r1, r2}
  Documents = {d1}
  Behaviour <- MCBehaviour
  Ops = {"create", "get", "cancel"}
  MaxFaults = 0
  Null = Null
SYMMETRY RequestSymmetry
INVARIANTS
  PollUpdatesDatabase
CHECK_DEADLOCK FALSE
