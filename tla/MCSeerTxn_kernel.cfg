SPECIFICATION Spec
CONSTANTS
  MaxTxn = 4
  MaxTree = 2
  MaxKey = 2
  MaxVersion = 20
  InitTrees = 1
  Names = {"c1"}
  Profiles <- Kernel
CHECK_DEADLOCK FALSE
INVARIANTS NoLostCommitter SnapshotsHold Serializable
PROPERTY ImplementsCommitLog
