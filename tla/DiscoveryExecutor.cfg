SPECIFICATION Spec
CONSTANTS
    Clusters <- MCClusters
    Backends = {"live", "fixture"}
    Options <- MCOptions
    MaxChanges = 1
    MaxCommands = 4
    MaxFailures = 1
INVARIANTS
    VerdictMatchesCluster
    PermissionsCoverReads
    ArtifactsAgreeUnlessInterrupted
CHECK_DEADLOCK FALSE
