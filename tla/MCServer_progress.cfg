SPECIFICATION FairSpec
CONSTANTS
  Parts = {"reactor", "session", "wire"}
  r1 = r1
  r2 = r2
  w1 = w1
  c1 = c1
  c2 = c2
  Ops = {r1, r2, w1}
  Writers = {w1}
  MaxInFlight = 2
  DeadlineWindow = 1
  Shapes <- ReactorShapes
  Conns = {c1, c2}
  Plans <- ShutdownPlans
CHECK_DEADLOCK FALSE
INVARIANTS WorkHolds PermitsHold ShutdownHolds
PROPERTY ServerProceeds
