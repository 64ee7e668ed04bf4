SPECIFICATION Spec
CONSTANTS
    Requests = {r1}
    Catalog <- MCCatalog
    Envelopes <- MCEnvelopes
    NoContext = NoContext
    Threshold = 2
    MaxMissed = 3
    MaxFaults = 4
INVARIANTS JournalTellsHealth RoutedWasRoutable OnlyPermittedRun RunIsRecorded
PROPERTY HonoursToolCall
PROPERTY HealthConverges
