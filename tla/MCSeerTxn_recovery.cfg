SPECIFICATION Spec
CONSTANTS
  MaxTxn = 3
  MaxTree = 2
  MaxKey = 1
  MaxVersion = 6
  InitTrees = 1
  Names = {"c1"}
  Profiles <- Recovery
CHECK_DEADLOCK FALSE
INVARIANTS DiskHolds ClosedIsQuiet
PROPERTIES FenceStopsWrites LeasePins ImplementsCommitLog
