CONSTANTS
  Tasks = {t1, t2}
  Callbacks = {h1, h2}
  NoTask = NoTask
  NoResult = NoResult
  MaxRestarts = 1
SPECIFICATION Spec
INVARIANTS RegisteredWhileRunning UnknownOnlyAfterReturn ResultFromOwnCallback
PROPERTIES ImplementsRendezvous RunTaskReturns
CHECK_DEADLOCK FALSE
