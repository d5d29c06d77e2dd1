CONSTANTS
  e1 = e1
  e2 = e2
  Envs <- TwoEnvs
  First = e1
  Signals <- IntSegv
  Masks <- IntMask
  Actions <- IntActs
  MAX_SIG_NUM = 1
  MaxKills = 3
  ManyPending = FALSE
  ReuseSlots = FALSE
  NegativeResults = FALSE
SPECIFICATION FairSpec
CHECK_DEADLOCK FALSE
INVARIANTS TypeOK PoolAccounted
PROPERTIES MaskSurvivesHandlers FatalEndsEnv
