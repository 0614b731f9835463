SPECIFICATION FairSpec
CONSTANTS
  NCPU = 2
  NBoot = 2
  NENV = 5
  MaxGen = 2
  WrapIds = FALSE
  NoEnv = NoEnv
  Calls = {"exofork", "destroy", "exit", "status", "ipc"}
  DestroyTwice = FALSE
INVARIANTS EnvInv
PROPERTIES ZombieOnlyReaped OrphansStayOrphans EveryZombieReaped
CHECK_DEADLOCK FALSE
