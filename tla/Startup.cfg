SPECIFICATION StartSpec

CONSTANTS
  PAGE_SIZE = 2
  NB_PAGES = 6
  PAGE_TABLE_ENTRIES = 3
  IDENTITY_TABLES = 2
  mem_heap = 1
  Size = {1, 3}
  Exception = {3, 14}
  IRQ = {0, 1, 7}
  NB_SYSCALL = 3
  nr_syscall = 3

INVARIANTS
  KernelPagesKept
  Exclusive
  InterruptsReady
  FaultShown

CONSTRAINT
  Explored

PROPERTIES
  FramesFromPool
  MappingStable
  PagingSeamless

\* A triple fault ends a behaviour: the machine starts again.
CHECK_DEADLOCK FALSE
