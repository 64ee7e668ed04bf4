SPECIFICATION Spec
CONSTANTS
    Tenants <- MCTenants
    SignalOrder <- MCSignalOrder
    Days = {1, 2}
    Jobs = {j1, j2}
    Volumes = {0, 1, 3}
    RetentionDays = {2, 4}
    InitialUsage <- MCInitialUsage
    InitialQueries <- MCInitialQueries
    InitialRetention <- MCInitialRetention
    NamesAfter <- MCNamesAfter
    MaxChanges = 1
    MaxFaults = 1
    BaseUnits = 7
    IngestMax = 1
    RetentionMax <- MCRetentionMax
    Rates <- MCRates
    QUERY_VOLUME_BLOCK = 2
INVARIANTS InvoiceMatchesUsage WindowIsCoherent
SYMMETRY JobSymmetry
