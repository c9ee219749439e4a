CONSTANTS
  Conns = {c1, c2}
  CheckRequests = {k1}
  Resolves = {r1}
  Deploys = {d1}
  NoOne = NoOne
  Refresh = Refresh
  MaxHead = 2
  MaxRefreshers = 1
SPECIFICATION Spec
INVARIANTS ReportCoversResolves CheckIsLive
PROPERTIES ReportsNeverRegress CallersReturn
CHECK_DEADLOCK FALSE
