CONSTANTS
  Sources = {s1}
  MaxVersion = 2
  MaxTime = 3
SPECIFICATION Spec
INVARIANTS Coherent
PROPERTIES OutageKeepsRecord ImplementsFeed Converges
CHECK_DEADLOCK FALSE
