SPECIFICATION Spec
CONSTANTS
    MaxEvents = 2
    Keys = {k1}
    DedupeWindow = 3
    BurstWindow = 2
    BurstMax = 1
    MaxTime = 3
    MaxFaults = 2
    None = None
INVARIANTS
    RetriedNextPoll
