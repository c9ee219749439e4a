CONSTANTS
  Edits = {e1, e2}
  Requests = {r1, r2}
  MaxRemote = 2
SPECIFICATION Spec
INVARIANTS NoEditLost AllBack OkMeansPulled
CHECK_DEADLOCK FALSE
