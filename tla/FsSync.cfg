CONSTANTS
  NBLOCK = 11
  BY2BLK = 2
  NDIRECT = 1
  FILE2BLK = 2
  Image <- SmallImage
  LongNames <- Long
  OpenPaths <- SomePaths
  RemovePaths <- NoPaths
  CreatePaths <- NoPaths
  Sizes <- SomeSizes
  Word = 23
  MaxChanges = 2
  MaxHeld = 1
  MaxCrashes = 1
  CrashAfterShrink = FALSE
  CrashInBoot = FALSE
  DirtyReuse = FALSE
  RemoveDirs = FALSE
  SyncSaves = TRUE
SPECIFICATION Spec
CHECK_DEADLOCK FALSE
PROPERTIES KeepsContents
