CONSTANTS
  s1 = s1
  s2 = s2
  short1 = short1
  short2 = short2
  p1 = p1
  p2 = p2
  p3 = p3
  p4 = p4
  NoSource = NoSource
  Conns = {c1}
  Sources = {s1, s2}
  Names = {short1, short2}
  Panels = {p1, p2, p3, p4}
  ShortName <- OwnShortNames
  DataKey <- FourKeys
  Envelope = {p1, p2}
  OwnData = {p4}
  MaxVersion = 1
SPECIFICATION Spec
INVARIANTS MessageConsistent
PROPERTIES ViewNeverRegresses ClientConverges BroadcastEnds
CHECK_DEADLOCK FALSE
