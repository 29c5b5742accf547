\* Claim: the last provider of a tenant is never removed; two removals overlap.
SPECIFICATION AssignmentsSpec
CONSTANTS
  t1 = t1
  t2 = t2
  mock = mock
  link = link
  idle = idle
  Tenants = {t1}
  Providers = {mock, link}
  Registered = {mock, link}
  Admins = {a1, a2}
  MaxConfigs = 2
  MaxAdminCalls = 2
  Seed <- MCSeedPair
  Null = Null
SYMMETRY AdminSymmetry
PROPERTIES
  LastProviderAlwaysKept
CHECK_DEADLOCK FALSE
