CONSTANTS
  Users = {u1, u2}
  Keys = {k1, k2}
  Names = {n1}
  Requests = {r1}
  NameOf <- MCNameOf
  Legacy = {u1}
  Unreadable = Unreadable
  Missing = Missing
  None = None
  MaxTime = 3
  MaxCrashes = 1
SPECIFICATION Spec
INVARIANTS DivergenceIsNoticed IdentityIsOwn
PROPERTIES MemoryFollowsFile
CHECK_DEADLOCK FALSE
