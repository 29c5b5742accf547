\* Admin calls that overlap statement by statement.
SPECIFICATION AssignmentsSpec
CONSTANTS
  t1 = t1
  t2 = t2
  mock = mock
  link = link
  idle = idle
  Tenants = {t1, t2}
  Providers = {mock, link, idle}
  Registered = {mock, link}
  Admins = {a1, a2}
  MaxConfigs = 4
  MaxAdminCalls = 3
  Seed <- MCSeed
  Null = Null
SYMMETRY AdminSymmetry
INVARIANTS
  AssignmentsTypeOK
  OnePrimary
PROPERTIES
  PromotionTakesEffect
  LastProviderKept
  CallsStayInTenant
  PromotionKeepsOrder
CHECK_DEADLOCK FALSE
