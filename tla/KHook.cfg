SPECIFICATION FairSpec
CONSTANTS
    MaxEvents = 4
    Keys = {k1}
    DedupeWindow = 3
    BurstWindow = 2
    BurstMax = 1
    MaxTime = 3
    MaxFaults = 1
    None = None
INVARIANTS
    EveryEventCovered
    AtMostTwoPerWindow
    SummariesCountOnce
    ReopenedOnlyByBurst
PROPERTIES
    EventsAreProcessed
    DecidesFromHistory
