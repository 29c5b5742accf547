\* Creating, polling and cancelling at an asynchronous provider, with failures.
SPECIFICATION Spec
CONSTANTS
  t1 = t1
  t2 = t2
  mock = mock
  link = link
  idle = idle
  Tenants = {t1}
  Providers = {link}
  Registered = {link}
  Admins = {}
  MaxConfigs = 1
  MaxAdminCalls = 0
  Seed <- MCSeedLink
  Requests = {r1, r2, r3}
  Documents = {d1}
  Behaviour <- MCBehaviour
  Ops = {"create", "get", "cancel"}
  MaxFaults = 1
  Null = Null
SYMMETRY RequestSymmetry
INVARIANTS
  TypeOK
  CancelIsKept
  AccountProvenance
PROPERTIES
  ImplementsLifecycle
CHECK_DEADLOCK FALSE
