SPECIFICATION MCSpec
CONSTANTS
  Parts = {"publish", "latch"}
  Profiles <- Publication
  ReclaimAt = 6
  Threads = {t1, t2, t3}
  WRITE_LOCKED = 5
CHECK_DEADLOCK FALSE
INVARIANTS AckedSurvives RecoveryHolds LatchCountsHolders
