\* Two messages, two engine middlewares and one route middleware of every kind.
SPECIFICATION Spec
CONSTANTS
    c1 = c1
    c2 = c2
    m1 = m1
    m2 = m2
    r1 = r1
    Calls = {c1, c2}
    Added = {m1, m2}
    RouteLayers <- MCRouteLayers
    Unbuilt = Unbuilt
SYMMETRY Symmetry
INVARIANTS
    TypeOK
    PipelineComplete
    SuccessIsTheHandlers
    ErrorsReported
