CONSTANTS
  Conns = {c1, c2}
  Warmer = Warmer
  MaxStatus = 3
SPECIFICATION Spec
INVARIANTS SingleFlight
PROPERTIES StatusNeverRegresses StatusConverges
