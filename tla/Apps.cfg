SPECIFICATION Spec

CONSTANTS
  Key = {"demo", "4", "5", "6", "7", "q"}
  ENTER = ENTER
  BS = BS
  Capacity = 2
  LINE_MAX = 3
  DEMO_LINE_MAX = 2

INVARIANTS
  OneLateLine

PROPERTIES
  StopStops
  P1Works
