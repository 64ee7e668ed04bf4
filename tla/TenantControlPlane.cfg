SPECIFICATION FairSpec
CONSTANTS
    Tenants = {t1}
    Docs <- MCDocs
    PendingTimeout <- MCPendingTimeout
    None = None
    Partial = Partial
    MaxTime = 2
    MaxCrashes = 1
INVARIANTS
    NoRecordLeak
    EvidenceCoversPurge
    EvidenceTruthful
    RerunIsReplayUnlessCrashed
    AuditMatchesRecord
PROPERTIES
    ImplementsContract
    PurgeCompletes
