CONSTANTS
  Users = {u1}
  Links = {k1, k2}
  Logins = {l1, l2}
  Visits = {v1}
  None = None
  Limit = 1
  Hour = 1
  LinkAge = 0
  MaxAge = 0
  MaxTime = 2
  MaxRestarts = 1
SPECIFICATION Spec
INVARIANTS RateHolds
PROPERTIES UsedLinkIsRefused SessionLifetime DeadRecordsGo
