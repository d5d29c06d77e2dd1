CONSTANTS
  NBLOCK = 10
  BY2BLK = 2
  NDIRECT = 1
  FILE2BLK = 2
  Image <- TwoFiles
  LongNames <- None
  DirtyReuse = TRUE
  c1 = c1
  c2 = c2
  Clients <- TwoClients
  First = c1
  MAXOPEN = 4
  MAXFD = 2
  Paths <- SomePaths
  Modes <- ReadWrite
  Sizes <- SomeSizes
  Word = 23
  MaxCalls = 4
  SharedChanges = FALSE
  KillWaiting = FALSE
SPECIFICATION FairSpec
CHECK_DEADLOCK FALSE
INVARIANTS TypeOK HandlesResolve PagesMatch
PROPERTIES CloseSaves CallsReturn
