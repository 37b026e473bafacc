SPECIFICATION Spec

CONSTANTS
  NB_PROC = 4
  NB_BOOT = 3
  TIME_QUANTUM_MS = 2
  TICK_MOD = 5
  BootTicks = 2

INVARIANTS
  OneElected
