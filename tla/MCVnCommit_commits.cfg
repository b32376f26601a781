SPECIFICATION FairSpec
CONSTANTS
    Txns = {1, 2}
    Keys = {1, 2}
    Readers = {r1}
    Profiles <- CommitProfiles
CHECK_DEADLOCK FALSE
INVARIANTS SnapshotsHold AcksHold ReplayHolds
PROPERTY DrainHolds
