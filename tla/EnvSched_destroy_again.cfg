SPECIFICATION Spec
CONSTANTS
  NCPU = 2
  NBoot = 2
  NENV = 5
  MaxGen = 1
  WrapIds = FALSE
  NoEnv = NoEnv
  Calls = {"exofork", "destroy", "exit", "status"}
  DestroyTwice = TRUE
INVARIANTS FreedNeverRuns
CHECK_DEADLOCK FALSE
