CONSTANTS
  t1 = t1
  t2 = t2
  t3 = t3
  n1 = n1
  n2 = n2
  login = login
  panel = panel
  manage = manage
  users = users
  Tokens = {t1, t2, t3}
  TokenNames = {n1, n2}
  Paths = {login, panel, manage, users}
  Clients = {r1, r2}
  TokenNameOf <- ThreeNames
  Scope <- Scopes
  Public = {login}
  LevelOf <- FourLevels
  NoToken = NoToken
  Master = Master
  CutOff = CutOff
  MaxRestarts = 1
SPECIFICATION AccessSpec
INVARIANTS KeysAreNotOwners SettledHolds
CHECK_DEADLOCK FALSE
