CONSTANTS
  e1 = e1
  e2 = e2
  NONE = NONE
  Envs <- TwoEnvs
  Creator = e1
  NFD = 2
  BY2PIPE = 2
  POS_MOD = 8
  Readers <- Second
  Writers <- First1
  Dupers <- Nobody
  MaxCount = 2
  MaxBytes = 3
  LateFork = FALSE
SPECIFICATION FairSpec
CHECK_DEADLOCK FALSE
INVARIANTS TypeOK BytesInOrder
PROPERTY IsChannel BlockedCallsReturn
