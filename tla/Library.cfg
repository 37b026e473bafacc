SPECIFICATION Spec

CONSTANTS
  CELLS = 6
  Char = {0, 1, 2}
  WORD = 2
  HALF = 16
  PRINTF_BUFMAX = 2

INVARIANTS
  CopiesExact
  StringsExact
  SearchesExact
  NumbersReadBack
  FieldsFilled
  DivisionExact
  PrintedWhole

\* A program that has a number to convert does nothing else.
CHECK_DEADLOCK FALSE
