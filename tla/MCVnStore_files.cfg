SPECIFICATION MCSpec
CONSTANTS
  Pages = {"p"}
  MapIds = {0, 1}
  Profiles <- StoreProfiles
  Handles = {h1, h2, h3}
  Components = {"wal", "undo"}
  Claimers = {y1, y2}
  Threads = {1, 2}
  PoolPages = {"a", "b"}
  PoolChoices <- PoolProfiles
CHECK_DEADLOCK FALSE
INVARIANTS FilesHold DirectoryHolds PoolHolds
