CONSTANTS
  SB_SCHED_MAX_TASKS = 3
  SB_SCHED_QUANTUM_TICKS = 3
  TaskIds <- MCTaskIds
  TICK_MOD = 64
  MAX_TICKS = 30
SPECIFICATION FairSpec
INVARIANTS
  OneRunning
  UniqueIds
  RuntimeAccounted
  QuantumFair
PROPERTIES
  NobodySkipped
  EveryTaskRuns
