SPECIFICATION FairSpec
CONSTANTS
  NCPU = 2
  NBoot = 4
  NENV = 6
  MaxGen = 1
  WrapIds = FALSE
  NoEnv = NoEnv
  Calls = {"priority", "ipc"}
  DestroyTwice = FALSE

PROPERTIES PriorityRespected EveryTopRuns
CHECK_DEADLOCK FALSE
