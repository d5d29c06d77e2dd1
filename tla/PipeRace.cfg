CONSTANTS
  e1 = e1
  e2 = e2
  NONE = NONE
  Envs <- TwoEnvs
  Creator = e1
  NFD = 3
  BY2PIPE = 2
  POS_MOD = 8
  Readers <- Nobody
  Writers <- Nobody
  Dupers <- TwoEnvs
  MaxCount = 1
  MaxBytes = 1
  LateFork = FALSE
SPECIFICATION Spec
CHECK_DEADLOCK FALSE
INVARIANTS ClosedMeansNoPeer
