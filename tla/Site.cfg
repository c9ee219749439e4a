SPECIFICATION SiteSpec
CONSTANTS
  Nested = FALSE
  Builders = {b1, b2}
  Dirs = {1, 2}
  Internal = 1
  Contents <- Five
  Free = {"fmt"}
  Blacklisted = {"exec"}
  Std = {"os", "net"}
  SiteAllows <- Allows
  CorePanels <- Core
  CustomPanels <- Custom
  Orders <- ConfigOrders
  Disabled = {4}
  Hidden = {}
  MaxEdits = 1
  MaxBuilds = 2
SYMMETRY Symmetry
INVARIANTS OnlyVettedCode CodeKeepsItsDirectory
PROPERTIES StartsShowTheSame
CHECK_DEADLOCK FALSE
