CONSTANTS
  NULL = NULL
  HEAD = HEAD
  Envs <- MCEnvs
  NENV = 3
  NASID = 3
  ENVID_MOD = 36
  Priorities = {1, 2}
  MaxAllocs = 4
  DestroyStatuses <- RunnableOnly
  SetStatuses <- RunnableOnly
  WakeReceivers = FALSE
SPECIFICATION FairSpec
CHECK_DEADLOCK FALSE
INVARIANTS TypeOK RunnableIffListed RunningIsHead ReceiversSleep FreeListExact AsidsExclusive HaltsOnlyWhenIdle
PROPERTIES EnvIdsIncrease YieldPasses NoStarvation IsRunQueue
