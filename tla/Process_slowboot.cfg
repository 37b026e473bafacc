SPECIFICATION Spec

CONSTANTS
  NB_PROC = 2
  NB_BOOT = 3
  TIME_QUANTUM_MS = 2
  TICK_MOD = 7
  BootTicks = 5

INVARIANTS
  NoHalfCreated

\* Past the re-entered schedule() the machine may jump through a stale context.
CHECK_DEADLOCK FALSE
