CONSTANTS
  UserFiles <- MCUserFiles
  FaultVectors <- MCFaultVectors
  Lines <- MCLines
  Vectors <- MCVectors
  TASK_IDS = {901, 902}
  TICK_WRAP = 3
SPECIFICATION FairSpec
INVARIANTS
  InterruptsOnlyOutside
  TimerKeepsOthers
  PanicReportsFault
  TransfersValid
PROPERTIES
  TimerKeepsTicking
