SPECIFICATION Spec
CONSTANTS
    Keys = {1, 2}
    MaxSlots = 3
    MaxChain = 1
    MaxGenerations = 3
    MaxLeases = 1
    MaxIds = 1
    MaxOpens = 1
CHECK_DEADLOCK FALSE
ACTION_CONSTRAINT Followed
INVARIANTS AuthoritySurvives ReadersKeepReading HistoryHolds LateRootsOriginal SlotsHold
