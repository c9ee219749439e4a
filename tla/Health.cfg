CONSTANTS
  p1 = p1
  s1 = s1
  s2 = s2
  n1 = n1
  a1 = a1
  kFile = kFile
  kAuth = kAuth
  kField = kField
  kSelf = kSelf
  h1 = h1
  h2 = h2
  Slots = {h1, h2}
  KindsOf <- TwoRequests
  Panels = {p1}
  Sources = {s1, s2}
  Producers = {s1}
  Registered = {n1}
  Apps = {a1}
  AppChecks <- AllChecks
  AppOf <- OneApp
  FileChecks = {kFile}
  AuthChecks = {kAuth}
  FieldChecks = {kField}
  SelfChecks = {kSelf}
  Worlds <- FewWorlds
  None = None
  Levels = 6
  MaxChanges = 1
  TTL = 2
  Timeout = 1
SPECIFICATION HealthSpec
INVARIANTS SelfCheckEnds
PROPERTIES VerdictFollowsWorld HealthAnswered
