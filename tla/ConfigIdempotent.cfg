SPECIFICATION Spec
CONSTANTS
    v1 = v1
    v2 = v2
    Strategy <- MCStrategy
    Bindings <- MCBindings
    BoundIn <- MCBoundIn
    Layouts <- MCLayouts
    Values <- MCValues
    Enabled = v1
    Docs <- MCDocs
    Invalid <- MCInvalid
    Rests = {r1, Cut}
    Cut = Cut
    MaxCommits = 1
    MaxFaults = 0
    Torn = Torn
    None = None
INVARIANT RenderIsIdempotent
