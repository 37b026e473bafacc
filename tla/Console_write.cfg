SPECIFICATION Spec

CONSTANTS
  VGA_WIDTH = 2
  VGA_HEIGHT = 3
  CLOCK = 1
  TAB = 1
  BYTE = 4
  Char = {"ink", "bs", "tab", "nl", "ff", "cr", "other"}
  Reader = {r1}

INVARIANTS
  CursorOnScreen
  InkInPlace
  CursorSynced

PROPERTIES
  InkKept
