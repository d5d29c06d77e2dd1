CONSTANTS
  NULL = NULL
  HEAD = HEAD
  Envs <- MCEnvs
  NENV = 3
  NASID = 3
  ENVID_MOD = 36
  Priorities = {1, 2}
  MaxAllocs = 5
  DestroyStatuses <- AnyStatus
  SetStatuses <- RunnableOnly
  WakeReceivers = FALSE
SPECIFICATION Spec
CHECK_DEADLOCK FALSE
INVARIANT RunnableIffListed
