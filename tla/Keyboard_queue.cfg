SPECIFICATION Spec

CONSTANTS
  KBD_BUFFER_SIZE = 4
  Key = {a}
  Shift = {left}
  NoChar = NoChar
  NoCode = NoCode

INVARIANTS
  NoDeafHalt

PROPERTIES
  FifoOrder
  LostOnlyWhenFull
  ReaderServed
  KeyTaken
