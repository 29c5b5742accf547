\* The migrations, the administrators, the lists, the counts and the providers.
SPECIFICATION PlatformSpec
CONSTANTS
  Null = Null
  testTenant = testTenant
  regula = regula
  persona = persona
  TestEmail = TestEmail
  OtherTenants = {acme}
  OtherEmails = {mail}
  a1 = a1
  a2 = a2
  k1 = k1
  t1 = t1
  t2 = t2
  Admins = {a1, a2}
  AdminKeys = {k1}
  MaxTokens = 2
  SeedRow <- MCSeedRow
  Tenants = {t1, t2}
  MaxVisits = 2
  Presented <- MCPresented
  Ops = {"request", "login", "refresh", "logout", "revokeApiKey"}
  MaxChanges = 1
  MaxFaults = 1
  Customers = {t1}
  Readers = {r1}
  PageLimits = {0, 1}
  DefaultLimit = 2
  LimitCap = 2
  MaxRows = 3
  MaxPages = 4
  Unset = Unset
  StatKeys = {k1, k2}
  MaxVerifications = 2
  SampleAccounts = 1
  Overviews = {o1}
  Uncounted = Uncounted
  Absent = Absent
  SessionIds = {s1, s2}
  DocumentRequests <- MCDocumentRequests
INVARIANTS
  PlatformTypeOK
  SchemaIsReplay
  CodeIsServed
  MigrationsApply
  OperatorsDecide
  RetiredStay
  ActsAsPresented
  NothingIsMissed
  TotalCoversShown
  CountsFit
  VerdictsAgree
PROPERTIES
  VerificationsSurvive
  KeepsContract
CHECK_DEADLOCK FALSE
