SPECIFICATION WaitsSpec
CONSTANTS
  MaxTxn = 3
  MaxTree = 2
  MaxKey = 1
  MaxVersion = 6
  InitTrees = 1
  Names = {}
  Profiles <- Settling
  Threads = {1, 2}
  Pages = {"a", "b"}
  PoolChoices <- PoolProfiles
CHECK_DEADLOCK FALSE
PROPERTIES CommitSettles CallsReturn
