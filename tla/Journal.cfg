CONSTANTS
  Requests = {r1, r2}
  GivenIds = {x}
  Capacity = 2
  MaxEntries = 2
  MaxRequests = 3
  MaxErrors = 3
  MaxRestarts = 2
SPECIFICATION JournalSpec
INVARIANTS RecentIsHistory ErrorsKept
SYMMETRY Symmetry
CHECK_DEADLOCK FALSE
