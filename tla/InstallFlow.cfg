SPECIFICATION Spec
CONSTANTS
    Clusters = {c1, c2, c3, c4}
    Failing = {c4}
    Blocked = {c3}
    Answers = {a1, a2, a3}
    Invalid = {a3}
    Flags = {f1, f2}
    MaxRuns = 3
    MaxFaults = 1
    Torn = Torn
    None = None
INVARIANTS
    SuccessMatchesInputs
    OnlyValidRendered
    NoStepAhead
PROPERTIES
    RerunChangesNothing
SYMMETRY Symmetry
CHECK_DEADLOCK FALSE
