SPECIFICATION Spec

CONSTANTS
  NB_PROC = 4
  NB_BOOT = 3
  TIME_QUANTUM_MS = 3
  TICK_MOD = 7
  BootTicks = 2

INVARIANTS
  TypeOK
  ContextOwned
  NoDeafHalt

PROPERTIES
  EveryProcessRuns
  RoundRobinOrder
