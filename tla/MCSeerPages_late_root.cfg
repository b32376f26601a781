SPECIFICATION Spec
CONSTANTS
    Keys = {1}
    MaxSlots = 4
    MaxChain = 1
    MaxGenerations = 3
    MaxLeases = 1
    MaxIds = 1
    MaxOpens = 2
CHECK_DEADLOCK FALSE
INVARIANT RetentionFailsClosed
