SPECIFICATION FairSpec
CONSTANTS
    Handlers = {h1, h2}
    Correlations = {k1, k2}
    MaxCases = 2
    MaxContestedCases = 1
    Specialists = 2
    PendingTimeout = 0
    MaxTime = 1
    MaxCrashes = 1
    None = None
INVARIANTS
    ActionsAreApproved
    JournalIsAudited
    NoDuplicateUnlessRaced
    TablesAgreeUnlessRaced
PROPERTIES
    DecisionsAreFinal
    LifecycleUnlessRaced
    DecisionReachesCase
CHECK_DEADLOCK FALSE
