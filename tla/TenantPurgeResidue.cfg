SPECIFICATION Spec
CONSTANTS
    Tenants = {t1}
    Docs <- MCAllDocs
    PendingTimeout <- MCPendingTimeout
    None = None
    Partial = Partial
    MaxTime = 2
    MaxCrashes = 0
INVARIANT PurgedLeavesNoOverlay
