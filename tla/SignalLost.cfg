CONSTANTS
  e1 = e1
  e2 = e2
  Envs <- TwoEnvs
  First = e1
  Signals <- IntSegv
  Masks <- IntMask
  Actions <- IntActs
  MAX_SIG_NUM = 3
  MaxKills = 3
  ManyPending = TRUE
  ReuseSlots = FALSE
  NegativeResults = FALSE
SPECIFICATION Spec
CHECK_DEADLOCK FALSE
INVARIANT PoolAccounted
