SPECIFICATION Spec
CONSTANTS
  Threads = {t1, t2}
  t1 = t1
  t2 = t2
  Keys = {1, 2, 3, 4, 5, 6}
  Vals = {1, 2, 3}
  Profiles <- TreeProfiles
SYMMETRY ThreadSymmetry
INVARIANTS TreeHolds
PROPERTY ImplementsMap
