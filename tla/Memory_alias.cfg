SPECIFICATION Spec

CONSTANTS
  PAGE_SIZE = 2
  NB_PAGES = 6
  PAGE_TABLE_ENTRIES = 3
  IDENTITY_TABLES = 2
  mem_heap = 1
  Size = {}

INVARIANTS
  NewPageIsFree
