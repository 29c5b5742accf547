\* Nothing fails: handlers run to their end.
SPECIFICATION FairSpec
CONSTANTS
  t1 = t1
  t2 = t2
  mock = mock
  link = link
  idle = idle
  Tenants = {t1}
  Providers = {link}
  Registered = {link}
  Admins = {}
  MaxConfigs = 1
  MaxAdminCalls = 0
  Seed <- MCSeedLink
  Requests = {r1, r2, r3}
  Documents = {d1}
  Behaviour <- MCStarted
  Ops = {"create", "cancel"}
  MaxFaults = 0
  Null = Null
PROPERTIES
  ConsentIsRecorded
CHECK_DEADLOCK FALSE
