SPECIFICATION FairSpec
CONSTANTS
  NCPU = 1
  NBoot = 2
  NENV = 4
  MaxGen = 2
  WrapIds = TRUE
  NoEnv = NoEnv
  Calls = {"exofork", "exit", "status"}
  DestroyTwice = FALSE
PROPERTIES EveryTopRuns
CHECK_DEADLOCK FALSE
