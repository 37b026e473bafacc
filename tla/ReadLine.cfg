SPECIFICATION Spec

CONSTANTS
  Key = {a, b}
  ENTER = ENTER
  BS = BS
  BLANK = BLANK
  Capacity = 2
  LEN = 3
  WIDTH = 4

INVARIANTS
  OnlyItsCells
  EchoIsTheLine

PROPERTIES
  ReadEdits
  EnterEnds
